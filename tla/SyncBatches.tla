---------------------------- MODULE SyncBatches ----------------------------
(***************************************************************************)
(* A synchronization session of AbstractBlockchainExplorerAccountSynchro-  *)
(* nizer (performSynchronization, synchronizeBatches, synchronizeBatch):   *)
(* the addresses of an account are fetched batch by batch and page by page *)
(* from an explorer, each batch resuming at the block it has reached (its  *)
(* cursor).  The explorer's chain grows and reorganizes, requests fail and *)
(* the process crashes; blocks, operations and the saved cursors are in    *)
(* the database and survive; other accounts synchronize over the same      *)
(* database, and the size of the batches is configured anew.               *)
(*                                                                         *)
(* A block is <<height, fork>>; a transaction of the account is a block    *)
(* and its address.  The server's pages follow Explorer.get_transactions   *)
(* of tools/server.py.                                                     *)
(***************************************************************************)
EXTENDS Naturals, Sequences, FiniteSets

CONSTANTS
  LastAddress,  \* addresses 1..LastAddress may have transactions
  Sizes,        \* half batch sizes, the addresses of a batch
  Transactions, \* sets of transactions <<block, address>>, by name
  Scenarios,    \* accounts: the name of their txs, isETH, half, the trouble and
                \* the number of reorganizations (forks) they see
  PageLimit,    \* blocks in a page
  MaxHeight, MaxForks, MaxSessions, MaxTroubles  \* bounds on the environment

ASSUME PageLimitAssumption == PageLimit \in Nat \ {0, 1}
ASSUME SizesAssumption == Sizes \subseteq Nat \ {0}
ASSUME BoundsAssumption == LastAddress \in Nat \ {0} /\ MaxHeight \in Nat \ {0, 1} /\ MaxForks \in Nat

\* What may trouble the sessions of a scenario, besides crashes.
Troubles == {"error", "mempool", "stores", "deletes", "resize"}

Addresses == 1..LastAddress

NoBlock == <<0, 0>>    \* height 0 and an empty hash: resume at the genesis
Height(b) == b[1]
Blocks == (1..MaxHeight) \X (0..MaxForks)
Cursors == Blocks \union {NoBlock}

\* An account of one batch is not given another batch size (its one address
\* has no use for it, but it would get more batches).
ASSUME ScenariosAssumption ==
  \A s \in Scenarios :
    /\ s.half \in Sizes /\ s.forks \in 0..MaxForks
    /\ Transactions[s.txs] \subseteq Blocks \X Addresses
    /\ s.isETH => s.trouble # "resize"

\* The others leave out no whole batch below an address that received but the
\* first: the first batch without a transaction is looked at last.
ASSUME OrderAssumption ==
  \A s \in Scenarios :
    ~s.isETH =>
      \A size \in IF s.trouble = "resize" THEN Sizes ELSE {s.half},
         t \in Transactions[s.txs], i \in 2..LastAddress :
        t[1][2] = 0 /\ t[2] > (i - 1) * size =>
          \E u \in Transactions[s.txs] :
            u[2] > (i - 1) * size /\ u[2] <= i * size /\ u[1][2] = 0 /\ Height(u[1]) <= Height(t[1])

VARIABLES
  account,    \* the scenario (never changes); an ETH account has one address,
              \* hence one batch
  half,       \* configuration: SYNCHRONIZATION_HALF_BATCH_SIZE
  chain,      \* the explorer's chain: the block at each height
  fork,       \* reorganizations so far
  blocks,     \* DB: blocks
  ops,        \* DB: operations <<block, address>>, deleted with their block
  saved,      \* DB: the saved state, a cursor per batch
  savedHalf,  \* DB: and the half batch size they are for
  cursors,    \* the session's copy, buddy->savedState.batches
  pc,         \* "off", "token", "fetch", "store", "recovered" or "kill"
  batch,      \* currentBatchIndex
  done,       \* computed on entering synchronizeBatches
  had,        \* hadTransactions
  tip,        \* updateCurrentBlock: NoBlock, or the block it is about to put
  asked,      \* updateCurrentBlock has a request in flight
  sessions, troubles,
  quiet,      \* history: no chain change, bad answer or other account's
              \* deletion since the session began
  succeeded,  \* history: the last session ended in success
  past        \* history: the Marks that apply

chainVars == <<chain, fork>>
dbVars == <<blocks, ops, saved, savedHalf>>
sessionVars == <<cursors, pc, batch, done, had>>
tipVars == <<tip, asked>>
ghosts == <<sessions, troubles, quiet, succeeded, past>>
vars == <<account, half, chainVars, dbVars, sessionVars, tipVars, ghosts>>

\* What a history is told apart by: a session failed or crashed, crashed
\* between recovery's delete and save; a page ended in a mempool transaction;
\* updateCurrentBlock put back a deleted block that a saved cursor names;
\* another account stored a block of a new branch, or deleted blocks, or did
\* so during a session; the batches of an account with a failed session were
\* resized.
Marks == {"failed", "torn", "mempool", "revived", "branchStored", "deleted",
          "deletedLive", "resizedEarly"}

Init ==
  /\ account \in Scenarios
  /\ half = account.half
  /\ chain = <<<<1, 0>>, <<2, 0>>>> /\ fork = 0
  /\ blocks = {} /\ ops = {} /\ saved = <<>> /\ savedHalf = 0
  /\ cursors = <<>> /\ pc = "off" /\ batch = 0 /\ done = FALSE /\ had = FALSE
  /\ tip = NoBlock /\ asked = FALSE
  /\ sessions = 0 /\ troubles = 0
  /\ quiet = FALSE /\ succeeded = FALSE /\ past = {}

Trouble(kind) ==
  account.trouble = kind /\ troubles < MaxTroubles /\ troubles' = troubles + 1

Txs == Transactions[account.txs]

---------------------------------------------------------------------------
(* Mutated forms, one plausible mistake each. *)

\* The state of a batch seen for the first time is not pushed.
EnterUnpushed(i, state) ==
  /\ batch' = i /\ done' = FALSE /\ had' = FALSE /\ pc' = "fetch" /\ cursors' = state
\* Recovery leaves the cursors on the blocks it deleted, lowers only the one
\* that failed, or starts over instead of going back block by block.
KeepCursors(b) == cursors
LowerFailedOnly(b) == [cursors EXCEPT ![batch] = b]
LowerToGenesis(b) == [i \in DOMAIN cursors |-> NoBlock]
\* Only the first page of a batch is fetched.
NeverNext(i, from) == FALSE

---------------------------------------------------------------------------
\* The addresses of batch i, which is the index i - 1 of the code.
In(i) == {a \in Addresses : a > (i - 1) * half /\ a <= i * half}

\* Heights from the block asked for, which is part of the answer, that hold
\* a transaction of batch i, the PageLimit lowest of which make a page.
Matching(i, from) ==
  {h \in DOMAIN chain : h >= Height(from) /\ \E a \in In(i) : <<chain[h], a>> \in Txs}
Page(i, from) ==
  LET matching == Matching(i, from)
  IN {chain[h] : h \in {g \in matching : Cardinality({f \in matching : f < g}) < PageLimit}}
HasNext(i, from) == Cardinality(Matching(i, from)) > PageLimit

\* DELETE FROM blocks where height >= h: their operations go with them.
DeleteFrom(h) ==
  /\ blocks' = {b \in blocks : Height(b) < h}
  /\ ops' = {o \in ops : Height(o[1]) < h}

\* getLastBlock and getLastBlockWithOperations: a highest block, if any.
Highest(S) ==
  IF S = {} THEN {NoBlock} ELSE {b \in S : \A c \in S : Height(c) <= Height(b)}

---------------------------------------------------------------------------
(* The explorer's chain. *)

OnChain(b) == b = NoBlock \/ \E h \in DOMAIN chain : chain[h] = b

ChainChanged ==
  /\ quiet' = FALSE
  /\ UNCHANGED <<account, half, dbVars, sessionVars, tipVars,
                 sessions, troubles, succeeded, past>>

NewBlock ==
  /\ Len(chain) < MaxHeight
  /\ chain' = Append(chain, <<Len(chain) + 1, fork>>)
  /\ UNCHANGED fork /\ ChainChanged

\* From height h on, a branch as long as the one it replaces.
Reorganize(h) ==
  /\ h \in DOMAIN chain /\ fork < account.forks
  /\ fork' = fork + 1
  /\ chain' = [g \in DOMAIN chain |-> IF g < h THEN chain[g] ELSE <<g, fork + 1>>]
  /\ ChainChanged

---------------------------------------------------------------------------
(* A session. *)

\* Going up the saved cursors while their blocks are missing from the
\* database: those met.
Failed ==
  LET missing == {i \in DOMAIN saved : saved[i] \notin blocks}
  IN {i \in missing : \A k \in DOMAIN saved \ missing : Height(saved[i]) <= Height(saved[k])}

\* The batches at or above the highest of them restart from the last block
\* with an operation, unless its height is 0.
Restarts(i) ==
  /\ \E j \in Failed : saved[j] # NoBlock
  /\ \A j \in Failed : Height(saved[j]) <= Height(saved[i])

CheckReorganization(b) == [i \in DOMAIN saved |-> IF Restarts(i) THEN b ELSE saved[i]]

\* initializeSavedState: with another size, all the new batches take the
\* first of the lowest cursors.
Lowest(state) ==
  {state[i] : i \in {j \in DOMAIN state : \A k \in DOMAIN state :
     \/ Height(state[j]) < Height(state[k])
     \/ Height(state[j]) = Height(state[k]) /\ j <= k}}

Resized(state, old) ==
  LET count == (Len(state) * old) \div half
  IN {[i \in 1..(IF count = 0 THEN 1 ELSE count + 2) |-> b] : b \in Lowest(state)}

\* performSynchronization up to its first future.
Start ==
  /\ pc = "off" /\ sessions < MaxSessions
  /\ \E b \in Highest({o[1] : o \in ops}) :
       cursors' \in IF saved = <<>> \/ savedHalf = half
                    THEN {CheckReorganization(b)}
                    ELSE Resized(CheckReorganization(b), savedHalf)
  /\ pc' = "token" /\ asked' = TRUE
  /\ sessions' = sessions + 1 /\ quiet' = TRUE /\ succeeded' = FALSE
  /\ past' = IF saved # <<>> /\ savedHalf # half /\ "failed" \in past
             THEN past \union {"resizedEarly"} ELSE past
  /\ UNCHANGED <<account, half, chainVars, dbVars, batch, done, had, tip, troubles>>

\* updateCurrentBlock fetches the current block and puts it, at any time.
FetchTip ==
  /\ asked /\ asked' = FALSE /\ tip' = chain[Len(chain)]
  /\ UNCHANGED <<account, half, chainVars, dbVars, sessionVars, ghosts>>
PutTip ==
  /\ tip # NoBlock /\ tip' = NoBlock /\ blocks' = blocks \union {tip}
  /\ past' = past \union (IF tip \notin blocks /\ \E i \in DOMAIN saved : saved[i] = tip
                           THEN {"revived"} ELSE {})
  /\ UNCHANGED <<account, half, chainVars, ops, saved, savedHalf, sessionVars, asked,
                 sessions, troubles, quiet, succeeded>>

\* synchronizeBatches(i, buddy), buddy's cursors being state.
Enter(i, state) ==
  /\ batch' = i
  /\ done' = (state # <<>> /\ i >= Len(state))
  /\ cursors' = IF i > Len(state) THEN Append(state, NoBlock) ELSE state
  /\ had' = FALSE
  /\ pc' = "fetch"

ObtainToken ==
  /\ pc = "token" /\ Enter(1, cursors)
  /\ UNCHANGED <<account, half, chainVars, dbVars, tipVars, ghosts>>

\* synchronizeBatch, the explorer having the block asked for: the page is put
\* in one transaction.
PutPage(page) ==
  /\ blocks' = blocks \union page
  /\ ops' = ops \union {t \in Txs : t[1] \in page /\ t[2] \in In(batch)}
  /\ pc' = IF HasNext(batch, cursors[batch]) THEN "fetch" ELSE "store"
  /\ UNCHANGED <<account, half, chainVars, saved, savedHalf, batch, done, tipVars>>

\* The cursor moves to its last block ...
StorePage ==
  LET page == Page(batch, cursors[batch])
  IN /\ pc = "fetch" /\ OnChain(cursors[batch])
     /\ PutPage(page)
     /\ \E b \in Highest(page) :
          cursors' = [cursors EXCEPT ![batch] = IF page = {} THEN @ ELSE b]
     /\ had' = (had \/ page # {})
     /\ UNCHANGED ghosts

\* ... but stays where it is after a (last) page that ends in a transaction
\* of the mempool.
StoreMempoolPage ==
  /\ pc = "fetch" /\ OnChain(cursors[batch])
  /\ In(batch) # {} /\ ~HasNext(batch, cursors[batch]) /\ Trouble("mempool")
  /\ PutPage(Page(batch, cursors[batch]))
  /\ had' = TRUE
  /\ past' = past \union {"mempool"}
  /\ UNCHANGED <<cursors, sessions, quiet, succeeded>>

\* The batch is complete: its cursor is saved and the next one looked at, as
\* long as there is one known or this one had transactions.
More == ~account.isETH /\ (~done \/ had \/ batch = 1)

StoreState ==
  /\ pc = "store" /\ saved' = cursors /\ savedHalf' = half
  /\ IF More THEN Enter(batch + 1, cursors)
             ELSE pc' = "kill" /\ UNCHANGED <<cursors, batch, done, had>>
  /\ UNCHANGED <<account, half, chainVars, blocks, ops, tipVars, ghosts>>

\* BLOCK_NOT_FOUND: delete the failed block and those above, and move the
\* cursors above the last block left to it ...
Lowered(b) == [i \in DOMAIN cursors |-> IF Height(cursors[i]) > Height(b) THEN b ELSE cursors[i]]

Recover ==
  /\ pc = "fetch" /\ cursors[batch] # NoBlock
  /\ DeleteFrom(Height(cursors[batch]))
  /\ \E b \in Highest(blocks') : cursors' = Lowered(b)
  /\ pc' = "recovered"
  /\ UNCHANGED <<account, half, chainVars, saved, savedHalf, batch, done, had, tipVars,
                 sessions, succeeded, past>>

BlockNotFound ==
  Recover /\ ~OnChain(cursors[batch]) /\ UNCHANGED <<troubles, quiet>>

\* Any error status of a request that names a block is taken for it.
ServerError ==
  /\ Recover /\ OnChain(cursors[batch])
  /\ Trouble("error") /\ quiet' = FALSE

\* ... then save them and synchronize the same batch again.
StoreRecovered ==
  /\ pc = "recovered" /\ saved' = cursors /\ savedHalf' = half /\ Enter(batch, cursors)
  /\ UNCHANGED <<account, half, chainVars, blocks, ops, tipVars, ghosts>>

EndSession(success) ==
  /\ pc' = "off" /\ cursors' = <<>> /\ batch' = 0 /\ done' = FALSE /\ had' = FALSE
  /\ succeeded' = success
  /\ past' = past \union (IF success THEN {} ELSE {"failed"})
                  \union (IF pc = "recovered" THEN {"torn"} ELSE {})
  /\ UNCHANGED <<account, half, chainVars, dbVars, sessions, troubles, quiet>>

KillSession == pc = "kill" /\ EndSession(TRUE) /\ UNCHANGED tipVars

\* A request of the session fails with another error.
Fail == pc \in {"token", "fetch", "kill"} /\ EndSession(FALSE) /\ UNCHANGED tipVars

Crash ==
  /\ pc # "off" /\ EndSession(FALSE)
  /\ tip' = NoBlock /\ asked' = FALSE

---------------------------------------------------------------------------
(* Around it. *)

\* Another account of the wallet stores a block it has a transaction in.
OtherAccountStores ==
  /\ Trouble("stores")
  /\ \E h \in DOMAIN chain :
       /\ blocks' = blocks \union {chain[h]}
       /\ past' = past \union (IF chain[h][2] > 0 THEN {"branchStored"} ELSE {})
  /\ UNCHANGED <<account, half, chainVars, ops, saved, savedHalf, sessionVars, tipVars,
                 sessions, quiet, succeeded>>

\* Its recovery deletes the blocks of every account, of every currency.
OtherAccountRecovers ==
  /\ Trouble("deletes")
  /\ \E h \in 1..MaxHeight : DeleteFrom(h)
  /\ past' = past \union {"deleted"} \union
               (IF pc # "off" THEN {"deletedLive"} ELSE {})
  /\ quiet' = FALSE
  /\ UNCHANGED <<account, half, chainVars, saved, savedHalf, sessionVars, tipVars,
                 sessions, succeeded>>

\* The wallet is configured with another size.
Configure ==
  /\ pc = "off" /\ Trouble("resize")
  /\ half' \in Sizes \ {half}
  /\ UNCHANGED <<account, chainVars, dbVars, sessionVars, tipVars, sessions, quiet, succeeded, past>>

SessionStep ==
  ObtainToken \/ StorePage \/ StoreState \/ BlockNotFound \/ StoreRecovered \/ KillSession

Next ==
  \/ NewBlock \/ \E h \in 1..MaxHeight : Reorganize(h)
  \/ Start \/ FetchTip \/ PutTip
  \/ SessionStep \/ StoreMempoolPage \/ ServerError \/ Fail \/ Crash
  \/ OtherAccountStores \/ OtherAccountRecovers \/ Configure

SafetySpec == Init /\ [][Next]_vars

\* Requests are answered (HttpRequests) and callbacks run; nothing starts a
\* session or moves the chain.
Spec == SafetySpec /\ WF_vars(SessionStep)

---------------------------------------------------------------------------
\* Types; a session in a batch has a cursor for it, and blocks of operations
\* are in the database.
TypeOK ==
  /\ chain \in Seq(Blocks) /\ fork \in 0..MaxForks
  /\ blocks \subseteq Blocks /\ ops \subseteq blocks \X Addresses
  /\ saved \in Seq(Cursors) /\ cursors \in Seq(Cursors)
  /\ pc \in {"off", "token", "fetch", "store", "recovered", "kill"}
  /\ pc \in {"fetch", "store", "recovered"} => batch \in DOMAIN cursors
  /\ account.trouble # "resize" => Len(cursors) <= LastAddress + 1
  /\ half \in Sizes /\ savedHalf \in Sizes \union {0} /\ past \subseteq Marks
  /\ done \in BOOLEAN /\ had \in BOOLEAN /\ asked \in BOOLEAN
  /\ tip \in Cursors

\* The transactions of addresses A on the explorer's chain, up to height h.
Expected(A, h) ==
  {t \in Txs : t[2] \in A /\ \E g \in DOMAIN chain : g <= h /\ t[1] = chain[g]}
Watched == IF account.isETH THEN In(1) ELSE Addresses

\* A batch never skips a transaction: whatever fails or crashes, the blocks
\* before the cursor a session resumes from have their operations stored.
NoGapBefore(i) ==
  OnChain(cursors[i]) /\ cursors[i] # NoBlock =>
    Expected(In(i) \intersect Watched, Height(cursors[i]) - 1) \subseteq ops

NoGap == pc \in {"token", "fetch", "store"} => \A i \in DOMAIN cursors : NoGapBefore(i)

\* That holds of an account of one batch, unless another account stores a block
\* of a new branch, or deletes blocks while a session runs, or the current
\* block brings back the one its saved cursor names.  With several
\* batches it takes that there was no reorganization, no crash between
\* recovery's delete and save, no deletion by another account, and that the
\* size was not changed after a failed session.
Settled ==
  IF account.isETH THEN past \intersect {"revived", "branchStored", "deletedLive"} = {}
                   ELSE fork = 0 /\ past \intersect {"torn", "deleted", "resizedEarly"} = {}
NoGapWhenSettled == Settled => NoGap

\* Then a session that succeeds with the chain still has stored every
\* transaction of the chain.
QuietSuccess == pc = "off" /\ succeeded /\ quiet
CompleteWhenQuiet ==
  QuietSuccess /\ Settled => Expected(Watched, Len(chain)) \subseteq ops

\* Recovery "will ensure to get (and delete from DB) to the deepest failed block
\* (part of reorg)" (lines 337-339): when no session was cut short, a session
\* that succeeds with the chain still leaves no operation of an orphaned block.
EveryOrphanDeleted ==
  QuietSuccess /\ "failed" \notin past => \A o \in ops : OnChain(o[1])

\* It does for an account of one batch, unless its cursor was left behind by a
\* mempool transaction or another account stored a block of the new branch.
NoStaleOperation ==
  account.isETH /\ past \intersect {"mempool", "branchStored"} = {} => EveryOrphanDeleted

\* Whatever has been left of an orphaned branch, each step of a session brings
\* its end closer: recovery goes back below an orphaned cursor with all the
\* others, any other step leaves no cursor on a higher orphaned block and moves
\* on to the next batch, stage of a batch or block.
Orphaned == {Height(cursors[i]) : i \in {j \in DOMAIN cursors : ~OnChain(cursors[j])}}
Stage == [token |-> 0, recovered |-> 1, fetch |-> 2, store |-> 3, kill |-> 4, off |-> 5]
GoesBack == \E h \in Orphaned : \A g \in Orphaned' : g < h
GoesOn ==
  /\ \A g \in Orphaned' : \E h \in Orphaned : g <= h
  /\ \/ batch' > batch \/ pc' = "off"
     \/ batch' = batch /\ Stage[pc'] > Stage[pc]
     \/ batch' = batch /\ pc' = pc /\ Height(cursors'[batch]) > Height(cursors[batch])
ComesCloser == [][SessionStep => GoesBack \/ GoesOn]_vars

\* A session ends, however many blocks recovery has to go back.
SessionEnds == pc # "off" ~> pc = "off"
=============================================================================
