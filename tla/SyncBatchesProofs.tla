------------------------- MODULE SyncBatchesProofs -------------------------
(***************************************************************************)
(* Proofs about SyncBatches: a synchronization session skips no            *)
(* transaction, and leaves no operation of an orphaned block behind, for   *)
(* every number of addresses, blocks and forks, every size of batches and  *)
(* pages and every set of transactions.                                    *)
(*                                                                         *)
(* TypesInv holds of every step; GapInv is kept as long as Settled, and    *)
(* has a part for an account of one batch, which survives reorganizations, *)
(* a part for an account of several, and a part for a session during which *)
(* the chain is still; StaleInv is about an account of one batch alone.    *)
(***************************************************************************)
EXTENDS SyncBatches, FiniteSetTheorems, SequenceTheorems, WellFoundedInduction, TLAPS

---------------------------------------------------------------------------
(* The invariants.                                                         *)

\* Blocks of a newer branch are above those of an older one, and what is
\* known of a height is not newer than the chain.
Known(b) == b = NoBlock \/ (Height(b) \in DOMAIN chain /\ b[2] <= chain[Height(b)][2])
ChainInv ==
  /\ Len(chain) >= 1
  /\ \A h \in DOMAIN chain : chain[h] = <<h, chain[h][2]>> /\ chain[h][2] \in 0..fork
  /\ \A g, h \in DOMAIN chain : g <= h => chain[g][2] <= chain[h][2]
KnownInv ==
  /\ \A b \in blocks : Known(b)
  /\ \A i \in DOMAIN cursors : Known(cursors[i])
  /\ \A i \in DOMAIN saved : Known(saved[i])
  /\ Known(tip)

\* Where a session is among its batches.
SessionInv ==
  /\ pc = "off" => cursors = <<>>
  /\ pc = "kill" => batch \in DOMAIN cursors /\ saved = cursors
  /\ pc \in {"fetch", "store"} =>
       /\ batch < Len(cursors) => ~done
       /\ batch = Len(cursors) => done \/ batch = 1
  /\ pc \in {"fetch", "store"} /\ had => batch <= LastAddress
  /\ saved # <<>> => savedHalf \in Sizes
  /\ account.trouble # "resize" =>
       /\ half = account.half /\ (saved # <<>> => savedHalf = half)
       /\ Len(cursors) <= LastAddress + 1 /\ Len(saved) <= LastAddress + 1
  /\ account.isETH => Len(cursors) <= 1 /\ Len(saved) <= 1

TypesInv == TypeOK /\ account \in Scenarios /\ ChainInv /\ KnownInv /\ SessionInv

\* The addresses of a batch, for a batch size.
Of(size, i) == {a \in Addresses : a > (i - 1) * size /\ a <= i * size}

\* The transactions of addresses A before block b, on what is left of the
\* branch b was on, are stored.
Covered(A, b) ==
  \A t \in Txs :
    t[2] \in A /\ (\E g \in DOMAIN chain : g < Height(b) /\ t[1] = chain[g] /\ chain[g][2] <= b[2]) => t \in ops

\* The blocks the database, the session and the explorer speak of.
ChainBlocks == {chain[h] : h \in DOMAIN chain}
CursorBlocks == {cursors[i] : i \in DOMAIN cursors}
SavedBlocks == {saved[i] : i \in DOMAIN saved}
Mentioned == blocks \union {tip} \union ChainBlocks \union CursorBlocks \union SavedBlocks

\* An account of one batch: its transactions before b are stored.
Ready(b) == Covered(In(1), b)
\* No block above b is of an older branch.
Topmost(b) == \A x \in Mentioned : Height(x) > Height(b) => x[2] >= b[2]
\* Blocks recovery may fall back to: one of the account, one that no branch
\* was left below, or one of the last branch.
Placed(b) == b = NoBlock \/ (\E o \in ops : o[1] = b) \/ b[2] = 0 \/ Topmost(b)
\* Saved cursors a session may start from, now or once another account has
\* put their block back.
Kept(b) == b \in blocks \/ (account.trouble = "stores" /\ b[2] = 0 /\ OnChain(b))
OneBatch ==
  /\ \A o \in ops : Ready(o[1])
  /\ \A b \in CursorBlocks : Ready(b)
  /\ \A b \in SavedBlocks : Kept(b) => Ready(b)
  /\ \A b \in blocks : Placed(b)
  /\ \A b \in {tip} : Topmost(b)
OneBatchInv == account.isETH /\ Settled => OneBatch

\* An account of several batches, without a reorganization.
Stored(seq, size) ==
  \A i \in DOMAIN seq : Covered(Of(size, i), seq[i]) /\ seq[i] \in blocks \union {NoBlock}
\* The last cursor moves only for a transaction of its batch.
Moved(seq, size) ==
  seq # <<>> =>
    \/ seq[Len(seq)] = NoBlock
    \/ \E t \in Txs, g \in DOMAIN chain :
         t[2] \in Of(size, Len(seq)) /\ t[1] = chain[g] /\ g >= Height(seq[Len(seq)])
Batches ==
  /\ \A s \in {cursors}, n \in {half} : Stored(s, n) /\ Moved(s, n)
  /\ \A s \in {saved}, n \in {savedHalf} : Moved(s, n) /\ (pc # "recovered" => Stored(s, n))
  /\ pc \in {"off", "token"} /\ "failed" \notin past /\ saved # <<>> => saved[Len(saved)] = NoBlock
  /\ pc = "store" /\ batch = Len(cursors) /\ ~had => cursors[batch] = NoBlock
  /\ pc = "kill" => batch = Len(cursors) /\ batch >= 2 /\ cursors[batch] = NoBlock
BatchesInv == ~account.isETH /\ Settled => Batches

\* What a quiet session has fetched: the batches it has left, and at the end
\* the last one, the first no address of which received.
Whole(i) == \A t \in Txs : t[2] \in In(i) /\ (\E g \in DOMAIN chain : t[1] = chain[g]) => t \in ops
Empty(i) == \A t \in Txs : t[2] \in In(i) => \A g \in DOMAIN chain : t[1] # chain[g]
WholeAccount == \A t \in Txs : t[2] \in Watched /\ (\E g \in DOMAIN chain : t[1] = chain[g]) => t \in ops
Quiet ==
  /\ pc \in {"store", "kill"} => \A i \in {batch} : Whole(i)
  /\ pc = "off" /\ succeeded => WholeAccount
  /\ ~account.isETH =>
       /\ pc # "recovered"
       /\ pc \in {"fetch", "store", "kill"} => \A i \in 1..(batch - 1) : Whole(i)
       /\ pc = "kill" \/ (pc = "store" /\ batch = Len(cursors) /\ ~had) => \A i \in {batch} : Empty(i)
QuietInv == Settled /\ quiet => Quiet

GapInv == OneBatchInv /\ BatchesInv /\ QuietInv

\* An account of one batch: the operations of blocks that are not on the
\* chain are above the others, and at most as high as the cursor; it is not on
\* the chain either, and no block of the chain that is known lies between.
Reached == IF pc = "off" THEN saved ELSE cursors
Stale(o) == ~OnChain(o[1])
Below(c) ==
  /\ \A o \in ops : Height(o[1]) <= Height(c)
  /\ \A o \in ops : Stale(o) =>
       /\ ~OnChain(c)
       /\ \A p \in ops : ~Stale(p) => Height(p[1]) < Height(o[1])
       /\ \A b \in blocks \union {tip} :
            b # NoBlock /\ OnChain(b) /\ Height(b) >= Height(o[1]) => Height(b) >= Height(c)
Repairable ==
  /\ Reached = <<>> => ops = {}
  /\ \A c \in {Reached[i] : i \in DOMAIN Reached} : Below(c)
  /\ quiet /\ (pc \in {"store", "kill"} \/ (pc = "off" /\ succeeded)) => \A o \in ops : ~Stale(o)
StaleInv ==
  account.isETH /\ past \intersect {"mempool", "branchStored", "failed"} = {} => Repairable

---------------------------------------------------------------------------
(* Blocks, sequences of cursors, and what a step does to the chain.        *)

\* A cursor is a block, or none.
LEMMA CursorFacts ==
  /\ NoBlock \in Cursors /\ Blocks \subseteq Cursors /\ NoBlock[2] = 0
  /\ \A b \in Cursors :
       /\ Height(b) = b[1] /\ Height(b) \in Nat /\ b[2] \in Nat /\ b = <<b[1], b[2]>>
       /\ (b = NoBlock <=> Height(b) = 0)
       /\ b # NoBlock => b \in Blocks
  /\ \A b \in Blocks : b # NoBlock /\ Height(b) \in 1..MaxHeight /\ b[2] \in 0..MaxForks
BY BoundsAssumption DEF Cursors, Blocks, NoBlock, Height

\* The scenario of a behaviour is one of those assumed.
LEMMA AccountFacts ==
  ASSUME account \in Scenarios
  PROVE  /\ account.half \in Sizes /\ account.forks \in 0..MaxForks /\ Txs \subseteq Blocks \X Addresses
         /\ account.isETH => account.trouble # "resize"
BY ScenariosAssumption DEF Txs

\* The elements of a chain.
LEMMA ChainFacts ==
  ASSUME TypesInv
  PROVE  /\ Len(chain) \in Nat \ {0} /\ DOMAIN chain = 1..Len(chain)
         /\ \A h \in DOMAIN chain :
              /\ chain[h] \in Blocks /\ chain[h] \in Cursors /\ Height(chain[h]) = h /\ chain[h][1] = h
              /\ chain[h][2] \in 0..fork /\ chain[h] # NoBlock /\ chain[h] = <<h, chain[h][2]>>
         /\ \A g, h \in DOMAIN chain : g <= h => chain[g][2] <= chain[h][2]
         /\ fork \in 0..MaxForks
<1>1. /\ chain \in Seq(Blocks) /\ fork \in 0..MaxForks
      /\ ChainInv
  BY Zenon DEF TypesInv, TypeOK
<1>2. Len(chain) \in Nat \ {0} /\ DOMAIN chain = 1..Len(chain) /\ \A h \in DOMAIN chain : chain[h] \in Blocks
  BY <1>1 DEF ChainInv
<1>3. \A h \in DOMAIN chain : chain[h][1] = h
  <2>1. \A h, x : <<h, x>>[1] = h  OBVIOUS
  <2>2. QED BY <1>1, <2>1, Zenon DEF ChainInv
<1>4. \A h \in DOMAIN chain : chain[h] = <<h, chain[h][2]>> /\ chain[h][2] \in 0..fork
  BY <1>1, Zenon DEF ChainInv
<1>5. \A g, h \in DOMAIN chain : g <= h => chain[g][2] <= chain[h][2]
  BY <1>1, Zenon DEF ChainInv
<1>6. \A h \in DOMAIN chain : chain[h] \in Cursors /\ chain[h] # NoBlock /\ Height(chain[h]) = h
  BY <1>2, <1>3, CursorFacts, Zenon
<1>7. QED BY <1>1, <1>2, <1>3, <1>4, <1>5, <1>6, Zenon

\* What the type invariant says of the database and of a session.
LEMMA TypeFacts ==
  ASSUME TypesInv
  PROVE  /\ account \in Scenarios /\ blocks \subseteq Blocks /\ ops \subseteq blocks \X Addresses
         /\ saved \in Seq(Cursors) /\ cursors \in Seq(Cursors) /\ tip \in Cursors
         /\ DOMAIN saved = 1..Len(saved) /\ Len(saved) \in Nat
         /\ DOMAIN cursors = 1..Len(cursors) /\ Len(cursors) \in Nat
         /\ \A i \in DOMAIN saved : saved[i] \in Cursors
         /\ \A i \in DOMAIN cursors : cursors[i] \in Cursors
         /\ half \in Sizes /\ half \in Nat \ {0}
         /\ pc \in {"fetch", "store", "recovered", "kill"} => batch \in DOMAIN cursors /\ batch \in Nat \ {0}
<1>1. /\ account \in Scenarios /\ blocks \subseteq Blocks /\ ops \subseteq blocks \X Addresses
      /\ saved \in Seq(Cursors) /\ cursors \in Seq(Cursors) /\ tip \in Cursors
      /\ half \in Sizes
      /\ pc \in {"fetch", "store", "recovered", "kill"} => batch \in DOMAIN cursors
  BY Zenon DEF TypesInv, TypeOK, SessionInv
<1>2. half \in Nat \ {0}  BY <1>1, SizesAssumption
<1>3. /\ DOMAIN saved = 1..Len(saved) /\ Len(saved) \in Nat
      /\ DOMAIN cursors = 1..Len(cursors) /\ Len(cursors) \in Nat
      /\ \A i \in DOMAIN saved : saved[i] \in Cursors
      /\ \A i \in DOMAIN cursors : cursors[i] \in Cursors
  BY <1>1
<1>4. pc \in {"fetch", "store", "recovered", "kill"} => batch \in Nat \ {0}  BY <1>1, <1>3
<1>5. QED BY <1>1, <1>2, <1>3, <1>4, Zenon

\* Blocks and operations of the database.
LEMMA OpFacts ==
  ASSUME TypesInv
  PROVE  /\ \A b \in blocks : b \in Blocks /\ b \in Cursors
         /\ \A o \in ops : o[1] \in blocks /\ o[2] \in Addresses /\ o = <<o[1], o[2]>>
         /\ \A t \in Txs : t[1] \in Blocks /\ t[2] \in Addresses /\ t = <<t[1], t[2]>>
<1>1. blocks \subseteq Blocks /\ ops \subseteq blocks \X Addresses /\ account \in Scenarios
  BY TypeFacts
<1>2. Txs \subseteq Blocks \X Addresses  BY <1>1, AccountFacts
<1>3. \A o \in ops : o[1] \in blocks /\ o[2] \in Addresses /\ o = <<o[1], o[2]>>
  <2>1. \A S : \A o \in S \X Addresses : o[1] \in S /\ o[2] \in Addresses /\ o = <<o[1], o[2]>>  OBVIOUS
  <2>2. QED BY <1>1, <2>1
<1>4. \A t \in Txs : t[1] \in Blocks /\ t[2] \in Addresses /\ t = <<t[1], t[2]>>
  BY <1>2
<1>5. QED BY <1>1, <1>3, <1>4, CursorFacts

\* A block of a highest block is known, or there is none.
LEMMA HighestFacts ==
  ASSUME NEW S \in SUBSET Blocks, NEW b \in Highest(S)
  PROVE  /\ b \in Cursors /\ b \in S \union {NoBlock} /\ \A c \in S : Height(c) <= Height(b)
         /\ S # {} => b \in S
<1>1. CASE S = {}  BY <1>1, CursorFacts DEF Highest
<1>2. CASE S # {}  BY <1>2, CursorFacts DEF Highest
<1>3. QED BY <1>1, <1>2

---------------------------------------------------------------------------
(* Types.                                                                  *)

\* The chain grows, and what is on it is replaced by what is newer.
Grows ==
  /\ chain' \in Seq(Blocks) /\ fork' \in 0..MaxForks /\ ChainInv' /\ Len(chain') >= Len(chain)
  /\ fork <= fork'
  /\ \A h \in DOMAIN chain : chain'[h] = chain[h] \/ (chain'[h][2] = fork' /\ fork' > fork)
  /\ \A h \in DOMAIN chain' \ DOMAIN chain : chain'[h][2] = fork'

\* A new block is on the newest branch.
LEMMA NewBlockGrows ==
  ASSUME TypesInv, NewBlock
  PROVE  Grows
<1> USE ChainFacts
<1> DEFINE n == Len(chain) + 1
           b == <<n, fork>>
<1>1. chain' = Append(chain, b) /\ fork' = fork /\ Len(chain) < MaxHeight  BY DEF NewBlock
<1>2. b \in Blocks
  <2>1. n \in 1..MaxHeight  BY <1>1, BoundsAssumption
  <2>2. QED BY <2>1, Zenon DEF Blocks
<1>3. chain \in Seq(Blocks)  BY Zenon DEF TypesInv, TypeOK
<1>4. /\ chain' \in Seq(Blocks) /\ Len(chain') = n /\ DOMAIN chain' = 1..n
      /\ \A h \in 1..n : chain'[h] = IF h = n THEN b ELSE chain[h]
  <2> HIDE DEF b
  <2>1. QED BY <1>1, <1>2, <1>3
<1>5. b[2] = fork /\ b = <<n, b[2]>>  OBVIOUS
<1> HIDE DEF b
<1>6. \A h \in DOMAIN chain' : chain'[h] = <<h, chain'[h][2]>> /\ chain'[h][2] \in 0..fork
  <2>1. ASSUME NEW h \in DOMAIN chain' PROVE chain'[h] = <<h, chain'[h][2]>> /\ chain'[h][2] \in 0..fork
    <3>1. CASE h = n  BY <1>4, <1>5, <3>1
    <3>2. CASE h # n
      <4>1. h \in DOMAIN chain /\ chain'[h] = chain[h]  BY <1>4, <2>1, <3>2
      <4>2. QED BY <4>1, Zenon
    <3>3. QED BY <3>1, <3>2
  <2>2. QED BY <2>1
<1>7. \A g, h \in DOMAIN chain' : g <= h => chain'[g][2] <= chain'[h][2]
  BY <1>4, <1>5, <1>6
<1>8. ChainInv'  BY <1>1, <1>4, <1>6, <1>7 DEF ChainInv
<1>9. QED BY <1>1, <1>4, <1>5, <1>8 DEF Grows

\* A reorganization replaces the end of the chain by a newer branch.
LEMMA ReorganizeGrows ==
  ASSUME TypesInv, NEW h \in 1..MaxHeight, Reorganize(h)
  PROVE  Grows
<1> USE ChainFacts
<1> DEFINE n == Len(chain)
           r(g) == IF g < h THEN chain[g] ELSE <<g, fork + 1>>
<1>1. chain' = [g \in DOMAIN chain |-> r(g)] /\ fork' = fork + 1 /\ fork < account.forks
  BY DEF Reorganize
<1>2. account.forks \in 0..MaxForks  BY TypeFacts, AccountFacts
<1>3. fork' \in 0..MaxForks  BY <1>1, <1>2, BoundsAssumption
<1>4. \A g \in DOMAIN chain : r(g) \in Blocks
  <2>1. \A g \in DOMAIN chain : g \in 1..MaxHeight  BY CursorFacts
  <2>2. \A g \in DOMAIN chain : <<g, fork + 1>> \in Blocks  BY <1>1, <1>3, <2>1, Zenon DEF Blocks
  <2>3. QED BY <2>2, Zenon
<1>5. /\ DOMAIN chain' = 1..n /\ \A g \in 1..n : chain'[g] = r(g)
      /\ \A g \in 1..n : g < h => r(g) = chain[g]
      /\ \A g \in 1..n : ~(g < h) => r(g) = <<g, fork + 1>> /\ r(g)[2] = fork + 1
  BY <1>1
<1> HIDE DEF r
<1>6. chain' \in Seq(Blocks) /\ Len(chain') = n
  BY <1>1, <1>4, <1>5
<1>7. \A g \in DOMAIN chain' : chain'[g] = <<g, chain'[g][2]>> /\ chain'[g][2] \in 0..fork'
  <2>1. ASSUME NEW g \in 1..n PROVE chain'[g] = <<g, chain'[g][2]>> /\ chain'[g][2] \in 0..fork'
    <3>1. CASE g < h
      <4>1. chain'[g] = chain[g] /\ g \in DOMAIN chain BY <1>5, <3>1
      <4>2. chain[g] = <<g, chain[g][2]>> /\ chain[g][2] \in 0..fork  BY <4>1
      <4>3. QED BY <1>1, <4>1, <4>2
    <3>2. CASE ~(g < h)  BY <1>1, <1>3, <1>5, <3>2
    <3>3. QED BY <3>1, <3>2
  <2>2. QED BY <1>5, <2>1
<1>8. \A f, g \in DOMAIN chain' : f <= g => chain'[f][2] <= chain'[g][2]
  BY <1>1, <1>5, <1>7
<1>9. ChainInv'  BY <1>6, <1>7, <1>8 DEF ChainInv
<1>10. QED BY <1>1, <1>3, <1>5, <1>6, <1>9 DEF Grows

\* What is known stays known.
LEMMA KnownGrows ==
  ASSUME TypesInv, Grows, NEW b \in Cursors, Known(b)
  PROVE  Known(b)'
<1> USE ChainFacts
<1>1. CASE b = NoBlock  BY <1>1 DEF Known
<1>2. CASE b # NoBlock
  <2>1. Height(b) \in DOMAIN chain /\ b[2] <= chain[Height(b)][2]  BY <1>2 DEF Known
  <2>2. Height(b) \in DOMAIN chain' /\ chain[Height(b)][2] <= chain'[Height(b)][2]
    BY <2>1 DEF Grows
  <2>3. chain'[Height(b)][2] \in Nat /\ b[2] \in Nat
    BY <2>2, CursorFacts, SMT DEF Grows, ChainInv
  <2>4. b[2] <= chain'[Height(b)][2]  BY <2>1, <2>2, <2>3
  <2>5. QED BY <2>2, <2>4, Zenon DEF Known
<1>3. QED BY <1>1, <1>2

\* A step of the chain keeps the types.
LEMMA ChainTypes ==
  ASSUME TypesInv, Grows, ChainChanged
  PROVE  TypesInv'
<1>1. UNCHANGED <<account, half, blocks, ops, saved, savedHalf, cursors, pc, batch, done, had, tip, asked, past>>
  BY DEF ChainChanged, dbVars, sessionVars, tipVars
<1>2. KnownInv'
  <2>1. \A b \in Cursors : Known(b) => Known(b)'  BY KnownGrows
  <2>2. /\ \A b \in blocks : b \in Cursors
        /\ tip \in Cursors
        /\ \A i \in DOMAIN saved : saved[i] \in Cursors
        /\ \A i \in DOMAIN cursors : cursors[i] \in Cursors
    BY TypeFacts, OpFacts
  <2>3. KnownInv  BY DEF TypesInv
  <2>4. /\ \A b \in blocks : Known(b)'
        /\ \A i \in DOMAIN saved : Known(saved[i])'
        /\ \A i \in DOMAIN cursors : Known(cursors[i])'
        /\ Known(tip)'
    BY <1>1, <2>1, <2>2, <2>3, Zenon DEF KnownInv
  <2>5. QED BY <1>1, <2>4, Zenon DEF KnownInv
<1>3. SessionInv'
  BY <1>1, Zenon DEF TypesInv, SessionInv
<1>4. TypeOK'
  BY <1>1, Zenon DEF TypesInv, TypeOK, Grows
<1>5. QED BY <1>1, <1>2, <1>3, <1>4, Zenon DEF TypesInv, Grows

\* What a step that leaves the chain owes the types.
Places == {"off", "token", "fetch", "store", "recovered", "kill"}

\* What a step that leaves the chain and the account alone owes the types.
LEMMA TypesKept ==
  ASSUME TypesInv, UNCHANGED <<account, chain, fork>>, half' \in Sizes,
         \A b \in blocks' : b \in blocks \/ (b \in Blocks /\ Known(b)), ops' \subseteq blocks' \X Addresses,
         saved' \in Seq(Cursors), \A i \in DOMAIN saved' : Known(saved'[i]), savedHalf' \in Sizes \union {0},
         cursors' \in Seq(Cursors), \A i \in DOMAIN cursors' : Known(cursors'[i]),
         tip' \in Cursors, Known(tip'),
         pc' \in Places, pc' \in {"fetch", "store", "recovered"} => batch' \in DOMAIN cursors',
         done' \in BOOLEAN, had' \in BOOLEAN, asked' \in BOOLEAN, past' \subseteq Marks, SessionInv'
  PROVE  TypesInv'
<1>1. blocks' \subseteq Blocks /\ \A b \in blocks' : Known(b)
  BY Zenon DEF TypesInv, TypeOK, KnownInv
<1>2. KnownInv'
  BY <1>1, Zenon DEF KnownInv, Known
<1>3. account'.trouble # "resize" => Len(cursors') <= LastAddress + 1
  BY Zenon DEF SessionInv
<1>4. TypeOK'
  BY <1>1, <1>3, Zenon DEF TypesInv, TypeOK, Places
<1>5. ChainInv'  BY Zenon DEF TypesInv, ChainInv
<1>6. QED BY <1>2, <1>4, <1>5, Zenon DEF TypesInv

\* What is known in any state of the invariant.
LEMMA KnownFacts ==
  ASSUME TypesInv
  PROVE  /\ \A b \in blocks : Known(b)
         /\ \A i \in DOMAIN cursors : Known(cursors[i])
         /\ \A i \in DOMAIN saved : Known(saved[i])
         /\ Known(tip) /\ Known(NoBlock)
         /\ \A h \in DOMAIN chain : Known(chain[h])
         /\ done \in BOOLEAN /\ had \in BOOLEAN /\ asked \in BOOLEAN /\ past \subseteq Marks /\ pc \in Places
         /\ savedHalf \in Sizes \union {0} /\ half \in Sizes
<1>1. \A h \in DOMAIN chain : Height(chain[h]) \in DOMAIN chain /\ chain[h][2] <= chain[Height(chain[h])][2]
  BY ChainFacts
<1>2. QED BY <1>1, Zenon DEF TypesInv, TypeOK, KnownInv, Known, Places

\* The block a recovery or a session falls back to.
LEMMA HighestKnown ==
  ASSUME TypesInv, NEW S \in SUBSET blocks, NEW b \in Highest(S)
  PROVE  /\ b \in Cursors /\ Known(b) /\ b \in S \union {NoBlock} /\ \A c \in S : Height(c) <= Height(b)
         /\ S # {} => b \in S
<1>1. S \in SUBSET Blocks  BY TypeFacts
<1>2. QED BY <1>1, HighestFacts, KnownFacts

\* Blocks with an operation are in the database.
LEMMA OpBlocks ==
  ASSUME TypesInv
  PROVE  {o[1] : o \in ops} \in SUBSET blocks
BY OpFacts

\* synchronizeBatches: the batch it enters has a cursor, its own or a new one.
LEMMA EnterFacts ==
  ASSUME NEW state \in Seq(Cursors), NEW i \in 1..(Len(state) + 1), Enter(i, state)
  PROVE  /\ cursors' \in Seq(Cursors) /\ batch' = i /\ batch' \in DOMAIN cursors' /\ pc' = "fetch"
         /\ had' = FALSE /\ done' \in BOOLEAN
         /\ Len(cursors') = IF i > Len(state) THEN Len(state) + 1 ELSE Len(state)
         /\ DOMAIN cursors' = 1..Len(cursors') /\ Len(cursors') \in Nat
         /\ \A j \in DOMAIN state : j \in DOMAIN cursors' /\ cursors'[j] = state[j]
         /\ \A j \in DOMAIN cursors' : j \in DOMAIN state \/ (cursors'[j] = NoBlock /\ j = i /\ j = Len(cursors'))
         /\ batch' < Len(cursors') => ~done'
         /\ batch' = Len(cursors') => done' \/ batch' = 1
<1>1. /\ batch' = i /\ done' = (state # <<>> /\ i >= Len(state)) /\ had' = FALSE /\ pc' = "fetch"
      /\ cursors' = IF i > Len(state) THEN Append(state, NoBlock) ELSE state
  BY DEF Enter
<1>2. NoBlock \in Cursors  BY CursorFacts
<1>3. Len(state) \in Nat /\ DOMAIN state = 1..Len(state) /\ (state = <<>> <=> Len(state) = 0)
  OBVIOUS
<1>4. i \in Nat /\ i >= 1 /\ i <= Len(state) + 1  OBVIOUS
<1>5. i >= Len(state) => i = Len(state) \/ i = Len(state) + 1
  <2>1. \A n, m \in Nat : n <= m + 1 /\ n >= m => n = m \/ n = m + 1  OBVIOUS
  <2>2. QED BY <1>4, <1>3, <2>1, Zenon
<1>6. done' \in BOOLEAN /\ (done' <=> (state # <<>> /\ i >= Len(state)))  BY <1>1, Zenon
<1>7. /\ cursors' \in Seq(Cursors) /\ Len(cursors') = IF i > Len(state) THEN Len(state) + 1 ELSE Len(state)
      /\ \A j \in DOMAIN state : j \in DOMAIN cursors' /\ cursors'[j] = state[j]
      /\ i > Len(state) => cursors'[i] = NoBlock
  BY <1>1, <1>2, <1>3
<1>8. DOMAIN cursors' = 1..Len(cursors') /\ Len(cursors') \in Nat /\ i \in 1..Len(cursors')
  BY <1>3, <1>7
<1>9. \A j \in DOMAIN cursors' : j \in DOMAIN state \/ (cursors'[j] = NoBlock /\ j = i /\ j = Len(cursors'))
  BY <1>3, <1>7, <1>8
<1>10. /\ batch' < Len(cursors') => ~done'
      /\ batch' = Len(cursors') => done' \/ batch' = 1
  <2>1. done' <=> (Len(state) # 0 /\ i >= Len(state))  BY <1>3, <1>6
  <2>2. CASE Len(state) = 0
    <3>1. i = 1 /\ batch' = 1  BY <1>1, <2>2
    <3>2. Len(cursors') = 1  BY <1>7, <2>2, <3>1
    <3>3. QED BY <3>1, <3>2
  <2>3. CASE Len(state) # 0 /\ i >= Len(state)
    <3>1. done'  BY <2>1, <2>3
    <3>2. i = Len(state) \/ i = Len(state) + 1  BY <1>5, <2>3
    <3>3. CASE i = Len(state)
      <4>1. ~(i > Len(state))  BY <1>3, <3>3
      <4>2. Len(cursors') = i  BY <1>7, <3>3, <4>1, Zenon
      <4>3. batch' = Len(cursors') /\ ~(batch' < Len(cursors'))  BY <1>1, <1>8, <4>2
      <4>4. QED BY <3>1, <4>3, Zenon
    <3>4. CASE i = Len(state) + 1
      <4>1. i > Len(state)  BY <1>3, <3>4
      <4>2. Len(cursors') = i  BY <1>7, <3>4, <4>1, Zenon
      <4>3. batch' = Len(cursors') /\ ~(batch' < Len(cursors'))  BY <1>1, <1>8, <4>2
      <4>4. QED BY <3>1, <4>3, Zenon
    <3>5. QED BY <3>2, <3>3, <3>4
  <2>4. CASE i < Len(state)
    <3>1. ~done'  BY <1>3, <2>1, <2>4
    <3>2. batch' < Len(cursors')  BY <1>1, <1>3, <1>7, <2>4
    <3>3. QED BY <1>3, <1>8, <3>1, <3>2
  <2>5. QED BY <1>3, <2>2, <2>3, <2>4
<1>11. QED BY <1>1, <1>6, <1>7, <1>8, <1>9, <1>10

\* A step that enters a batch with the cursors of the session, and perhaps
\* saves them.
LEMMA EnterTypes ==
  ASSUME TypesInv, NEW i \in 1..(Len(cursors) + 1), Enter(i, cursors),
         UNCHANGED <<account, half, chain, fork, blocks, ops, tip, asked, past>>,
         \/ UNCHANGED <<saved, savedHalf>>
         \/ saved' = cursors /\ savedHalf' = half,
         i = Len(cursors) + 1 => i <= LastAddress + 1,
         account.isETH => i = 1
  PROVE  TypesInv'
<1> USE TypeFacts, KnownFacts
<1>1. cursors \in Seq(Cursors)  OBVIOUS
<1> DEFINE E == /\ cursors' \in Seq(Cursors) /\ batch' = i /\ batch' \in DOMAIN cursors' /\ pc' = "fetch"
                /\ had' = FALSE /\ done' \in BOOLEAN
                /\ Len(cursors') = IF i > Len(cursors) THEN Len(cursors) + 1 ELSE Len(cursors)
                /\ \A j \in DOMAIN cursors : j \in DOMAIN cursors' /\ cursors'[j] = cursors[j]
                /\ \A j \in DOMAIN cursors' : j \in DOMAIN cursors \/ (cursors'[j] = NoBlock /\ j = i /\ j = Len(cursors'))
                /\ batch' < Len(cursors') => ~done'
                /\ batch' = Len(cursors') => done' \/ batch' = 1
<1>2. E  BY <1>1, EnterFacts, Zenon
<1>3. \A j \in DOMAIN cursors' : Known(cursors'[j])
  BY <1>2, Zenon
<1>4. /\ saved' \in Seq(Cursors) /\ savedHalf' \in Sizes \union {0}
      /\ \A j \in DOMAIN saved' : Known(saved'[j])
      /\ saved' = saved \/ saved' = cursors
  BY Zenon
<1>5. LastAddress \in Nat \ {0}  BY BoundsAssumption
<1>6. SessionInv'
  <2>1. account' = account /\ half' = half  OBVIOUS
  <2>2. /\ saved # <<>> => savedHalf \in Sizes
        /\ account.trouble # "resize" =>
             /\ half = account.half /\ (saved # <<>> => savedHalf = half)
             /\ Len(cursors) <= LastAddress + 1 /\ Len(saved) <= LastAddress + 1
        /\ account.isETH => Len(cursors) <= 1 /\ Len(saved) <= 1
    BY Zenon DEF TypesInv, SessionInv
  <2>3. saved' # <<>> => savedHalf' \in Sizes  BY <2>2, Zenon
  <2>4. account.trouble # "resize" => (saved' # <<>> => savedHalf' = half)  BY <2>2, Zenon
  <2>5. account.trouble # "resize" => Len(cursors') <= LastAddress + 1 /\ Len(saved') <= LastAddress + 1
    BY <1>2, <1>4, <1>5, <2>2
  <2>6. account.isETH => Len(cursors') <= 1 /\ Len(saved') <= 1
    BY <1>2, <1>4, <2>2
  <2>7. pc' = "fetch" /\ had' = FALSE  BY <1>2
  <2>8. QED BY <1>2, <2>1, <2>2, <2>3, <2>4, <2>5, <2>6, <2>7, Zenon DEF SessionInv
<1>7. pc' \in Places  BY <1>2 DEF Places
<1> HIDE DEF E
<1>8. ops' \subseteq blocks' \X Addresses  OBVIOUS
<1>9. QED BY <1>2, <1>3, <1>4, <1>6, <1>7, <1>8, TypesKept, Zenon DEF E

\* Entering the first batch, the next one or the same one again keeps the types.
LEMMA EnterStepsTypes ==
  ASSUME TypesInv, ObtainToken \/ StoreRecovered \/ (StoreState /\ More)
  PROVE  TypesInv'
<1> USE TypeFacts, KnownFacts
<1>1. LastAddress \in Nat \ {0}  BY BoundsAssumption
<1>2. CASE ObtainToken
  <2>1. 1 \in 1..(Len(cursors) + 1) /\ 1 <= LastAddress + 1  BY <1>1
  <2>2. /\ Enter(1, cursors)
        /\ UNCHANGED <<account, half, chain, fork, blocks, ops, tip, asked, past, saved, savedHalf>>
    BY <1>2, Zenon DEF ObtainToken, chainVars, dbVars, tipVars, ghosts
  <2>3. QED BY <2>1, <2>2, EnterTypes, Zenon
<1>3. CASE StoreRecovered
  <2>1. pc = "recovered"  BY <1>3 DEF StoreRecovered
  <2>2. batch \in DOMAIN cursors  BY <2>1
  <2>3. batch \in 1..(Len(cursors) + 1) /\ batch # Len(cursors) + 1  BY <2>2
  <2>4. account.isETH => batch = 1
    <3>1. account.isETH => Len(cursors) <= 1  BY Zenon DEF TypesInv, SessionInv
    <3>2. QED BY <2>2, <3>1
  <2>5. /\ Enter(batch, cursors) /\ saved' = cursors /\ savedHalf' = half
        /\ UNCHANGED <<account, half, chain, fork, blocks, ops, tip, asked, past>>
    BY <1>3, Zenon DEF StoreRecovered, chainVars, tipVars, ghosts
  <2>6. QED BY <2>3, <2>4, <2>5, EnterTypes, Zenon
<1>4. CASE StoreState /\ More
  <2>1. pc = "store" /\ ~account.isETH /\ (~done \/ had \/ batch = 1)  BY <1>4 DEF StoreState, More
  <2>2. batch \in DOMAIN cursors /\ batch \in Nat \ {0}  BY <2>1
  <2>3. batch + 1 \in 1..(Len(cursors) + 1)  BY <2>2
  <2>4. batch = Len(cursors) => batch <= LastAddress
    <3>1. /\ batch = Len(cursors) => done \/ batch = 1
          /\ had => batch <= LastAddress
      BY <2>1, Zenon DEF TypesInv, SessionInv
    <3>2. batch = 1 => batch <= LastAddress  BY <1>1
    <3>3. QED BY <2>1, <3>1, <3>2, Zenon
  <2>5. batch + 1 = Len(cursors) + 1 => batch + 1 <= LastAddress + 1  BY <1>1, <2>2, <2>4
  <2>6. /\ Enter(batch + 1, cursors) /\ saved' = cursors /\ savedHalf' = half
        /\ UNCHANGED <<account, half, chain, fork, blocks, ops, tip, asked, past>>
    BY <1>4, Zenon DEF StoreState, chainVars, tipVars, ghosts
  <2>7. QED BY <2>1, <2>3, <2>5, <2>6, EnterTypes, Zenon
<1>5. QED BY <1>2, <1>3, <1>4

\* The last state is saved and the session is about to end.
LEMMA KillTypes ==
  ASSUME TypesInv, StoreState, ~More
  PROVE  TypesInv'
<1> USE TypeFacts, KnownFacts
<1>1. /\ pc = "store" /\ pc' = "kill" /\ saved' = cursors /\ savedHalf' = half
      /\ UNCHANGED <<account, half, chain, fork, blocks, ops, tip, asked, past, cursors, batch, done, had>>
  BY Zenon DEF StoreState, chainVars, tipVars, ghosts
<1>2. batch \in DOMAIN cursors  BY <1>1
<1>3. SessionInv'
  BY <1>1, <1>2, Zenon DEF TypesInv, SessionInv
<1>4. pc' \in Places /\ ops' \subseteq blocks' \X Addresses /\ pc' \notin {"fetch", "store", "recovered"}
  BY <1>1 DEF Places
<1>5. QED BY <1>1, <1>3, <1>4, TypesKept, Zenon

\* Only batches with an address that may have transactions have a page.
LEMMA InFacts ==
  ASSUME TypesInv, NEW i \in Nat \ {0}, In(i) # {}
  PROVE  i <= LastAddress
<1>1. half \in Nat \ {0} /\ LastAddress \in Nat  BY TypeFacts, BoundsAssumption
<1>2. PICK a \in Addresses : a > (i - 1) * half  BY DEF In
<1>3. a \in Nat /\ a <= LastAddress  BY <1>1, <1>2 DEF Addresses
<1>4. (i - 1) * half >= i - 1
  <2>1. \A n \in Nat, m \in Nat \ {0} : n * m >= n /\ n * m \in Nat  OBVIOUS
  <2>2. i - 1 \in Nat  OBVIOUS
  <2>3. QED BY <1>1, <2>1, <2>2
<1>5. (i - 1) * half \in Nat  BY <1>1
<1>6. QED BY <1>1, <1>2, <1>3, <1>4, <1>5

\* What is on a page.
LEMMA PageFacts ==
  ASSUME TypesInv, pc = "fetch"
  PROVE  LET page == Page(batch, cursors[batch])
         IN /\ page \in SUBSET Blocks
            /\ \A b \in page : \E h \in Matching(batch, cursors[batch]) : b = chain[h]
            /\ \A b \in page : Known(b) /\ b \in Cursors /\ OnChain(b)
            /\ page # {} => batch <= LastAddress
<1> USE TypeFacts, KnownFacts, ChainFacts
<1> DEFINE page == Page(batch, cursors[batch])
           matching == Matching(batch, cursors[batch])
<1>1. \A b \in page : \E h \in matching : b = chain[h]  BY DEF Page
<1>2. \A h \in matching : h \in DOMAIN chain /\ In(batch) # {}  BY DEF Matching
<1> HIDE DEF page, matching
<1>3. \A b \in page : \E h \in DOMAIN chain : b = chain[h]  BY <1>1, <1>2
<1>4. \A b \in page : b \in Blocks /\ Known(b) /\ b \in Cursors /\ OnChain(b)
  <2>1. \A h \in DOMAIN chain : chain[h] \in Blocks /\ chain[h] \in Cursors /\ Known(chain[h])
    BY ChainFacts, KnownFacts, Zenon
  <2>2. \A h \in DOMAIN chain : OnChain(chain[h])  BY Zenon DEF OnChain
  <2>3. ASSUME NEW b \in page PROVE b \in Blocks /\ Known(b) /\ b \in Cursors /\ OnChain(b)
    <3>1. PICK h \in DOMAIN chain : b = chain[h]  BY <1>3
    <3>2. chain[h] \in Blocks /\ chain[h] \in Cursors /\ Known(chain[h]) /\ OnChain(chain[h])
      BY ONLY <2>1, <2>2, h \in DOMAIN chain
    <3>3. QED BY ONLY <3>1, <3>2
  <2>4. QED BY <2>3
<1>5. page # {} => batch <= LastAddress
  <2>1. batch \in Nat \ {0}  OBVIOUS
  <2>2. page # {} => In(batch) # {}  BY <1>1, <1>2
  <2>3. QED BY <2>1, <2>2, InFacts
<1>6. page \in SUBSET Blocks  BY <1>4
<1>7. QED BY <1>1, <1>4, <1>5, <1>6 DEF page, matching

\* Storing a page keeps the types: only a batch with an address has transactions.
LEMMA PageTypes ==
  ASSUME TypesInv, StorePage \/ StoreMempoolPage
  PROVE  TypesInv'
<1> USE TypeFacts, KnownFacts
<1> DEFINE page == Page(batch, cursors[batch])
<1>1. pc = "fetch" /\ PutPage(page)  BY DEF StorePage, StoreMempoolPage
<1>2. /\ page \in SUBSET Blocks /\ \A b \in page : Known(b) /\ b \in Cursors
      /\ page # {} => batch <= LastAddress
  BY <1>1, PageFacts
<1>3. batch \in DOMAIN cursors /\ batch \in Nat \ {0}  BY <1>1
<1>4. /\ blocks' = blocks \union page /\ ops' = ops \union {t \in Txs : t[1] \in page /\ t[2] \in In(batch)}
      /\ pc' \in {"fetch", "store"}
      /\ UNCHANGED <<account, half, chain, fork, saved, savedHalf, batch, done, tip, asked>>
  BY <1>1 DEF PutPage, chainVars, tipVars
<1>5. /\ cursors' \in Seq(Cursors) /\ DOMAIN cursors' = DOMAIN cursors /\ Len(cursors') = Len(cursors)
      /\ \A i \in DOMAIN cursors' : Known(cursors'[i])
      /\ had' \in BOOLEAN /\ (had' => had \/ batch <= LastAddress) /\ past' \subseteq Marks
  <2>1. CASE StorePage
    <3>1. PICK b \in Highest(page) : cursors' = [cursors EXCEPT ![batch] = IF page = {} THEN @ ELSE b]
      BY <2>1 DEF StorePage
    <3>2. had' = (had \/ page # {}) /\ past' = past  BY <2>1 DEF StorePage, ghosts
    <3> HIDE DEF page
    <3>3. page # {} => b \in Cursors /\ Known(b)  BY <1>2, HighestFacts
    <3> DEFINE c == IF page = {} THEN cursors[batch] ELSE b
    <3>4. c \in Cursors /\ Known(c)  BY <1>3, <3>3
    <3>5. cursors' = [cursors EXCEPT ![batch] = c]  BY <3>1
    <3> HIDE DEF c
    <3>6. /\ cursors' \in Seq(Cursors) /\ DOMAIN cursors' = DOMAIN cursors /\ Len(cursors') = Len(cursors)
          /\ \A i \in DOMAIN cursors : cursors'[i] = IF i = batch THEN c ELSE cursors[i]
      BY <1>3, <3>4, <3>5
    <3>7. \A i \in DOMAIN cursors' : Known(cursors'[i])  BY <3>4, <3>6, Zenon
    <3>8. had' \in BOOLEAN /\ (had' => had \/ page # {})  BY <3>2, Zenon
    <3>9. QED BY <1>2, <3>2, <3>6, <3>7, <3>8
  <2>2. CASE StoreMempoolPage
    <3>1. /\ cursors' = cursors /\ had' = TRUE /\ past' = past \union {"mempool"} /\ In(batch) # {}
      BY <2>2 DEF StoreMempoolPage
    <3>2. batch <= LastAddress  BY <1>3, <3>1, InFacts
    <3>3. past' \subseteq Marks  BY <3>1 DEF Marks
    <3>4. QED BY <3>1, <3>2, <3>3
  <2>3. QED BY <2>1, <2>2
<1> HIDE DEF page
<1>6. \A b \in blocks' : b \in blocks \/ (b \in Blocks /\ Known(b))  BY <1>2, <1>4
<1>7. ops' \subseteq blocks' \X Addresses
  <2>1. \A o \in ops : o \in blocks' \X Addresses  BY <1>4
  <2>2. \A t \in Txs : t[1] \in page => t \in blocks' \X Addresses
    <3>1. \A t \in Txs : t[2] \in Addresses /\ t = <<t[1], t[2]>>  BY OpFacts
    <3>2. \A x \in page, a \in Addresses : <<x, a>> \in blocks' \X Addresses  BY <1>4
    <3>3. ASSUME NEW t \in Txs, t[1] \in page PROVE t \in blocks' \X Addresses
      <4>1. <<t[1], t[2]>> \in blocks' \X Addresses  BY <3>1, <3>2, <3>3, Zenon
      <4>2. t = <<t[1], t[2]>>  BY <3>1, Zenon
      <4>3. QED BY ONLY <4>1, <4>2
    <3>4. QED BY <3>3
  <2>3. QED BY <1>4, <2>1, <2>2, Zenon
<1>8. SessionInv'
  <2>1. SessionInv  BY DEF TypesInv
  <2>2. pc = "fetch" /\ pc' \notin {"off", "kill"}  BY <1>1, <1>4
  <2>3. had' => batch <= LastAddress
    <3>1. had => batch <= LastAddress  BY <2>1, <2>2, Zenon DEF SessionInv
    <3>2. QED BY <1>5, <3>1, Zenon
  <2>4. QED BY <1>4, <1>5, <2>1, <2>2, <2>3, Zenon DEF SessionInv
<1>9. pc' \in Places /\ batch' \in DOMAIN cursors'  BY <1>3, <1>4, <1>5 DEF Places
<1>10. QED BY <1>4, <1>5, <1>6, <1>7, <1>8, <1>9, TypesKept, Zenon

\* The saved cursors, checked against the database.
LEMMA CheckFacts ==
  ASSUME TypesInv, NEW b \in Cursors
  PROVE  LET state == CheckReorganization(b)
         IN /\ state \in Seq(Cursors) /\ Len(state) = Len(saved) /\ DOMAIN state = DOMAIN saved
            /\ \A i \in DOMAIN saved : state[i] = IF Restarts(i) THEN b ELSE saved[i]
<1>1. /\ saved \in Seq(Cursors) /\ DOMAIN saved = 1..Len(saved) /\ Len(saved) \in Nat
      /\ \A i \in DOMAIN saved : saved[i] \in Cursors
  BY TypeFacts
<1> DEFINE r(i) == IF Restarts(i) THEN b ELSE saved[i]
           state == CheckReorganization(b)
<1>2. state = [i \in 1..Len(saved) |-> r(i)]  BY <1>1 DEF CheckReorganization
<1>3. \A i \in 1..Len(saved) : r(i) \in Cursors  BY <1>1, Zenon
<1> HIDE DEF r, state
<1>4. state \in Seq(Cursors) /\ Len(state) = Len(saved) /\ DOMAIN state = 1..Len(saved)
      /\ \A i \in 1..Len(saved) : state[i] = r(i)
  BY <1>1, <1>2, <1>3
<1>5. QED BY <1>1, <1>4 DEF r, state

\* The cursors for another size are all one of the old ones.
LEMMA ResizedFacts ==
  ASSUME TypesInv, NEW state \in Seq(Cursors), NEW old \in Sizes, NEW new \in Resized(state, old)
  PROVE  /\ new \in Seq(Cursors) /\ DOMAIN new = 1..Len(new) /\ Len(new) \in Nat \ {0}
         /\ \E b \in Lowest(state) : \A i \in DOMAIN new : new[i] = b
         /\ Lowest(state) \subseteq {state[j] : j \in DOMAIN state}
<1> DEFINE count == (Len(state) * old) \div half
           n == IF count = 0 THEN 1 ELSE count + 2
<1>1. PICK b \in Lowest(state) : new = [i \in 1..n |-> b]  BY Zenon DEF Resized
<1>2. Lowest(state) \subseteq {state[j] : j \in DOMAIN state}  BY DEF Lowest
<1>3. b \in Cursors
  <2>1. \A j \in DOMAIN state : state[j] \in Cursors  OBVIOUS
  <2>2. QED BY <1>1, <1>2, <2>1
<1>4. n \in Nat \ {0}
  <2>1. half \in Nat \ {0} /\ old \in Nat  BY TypeFacts, SizesAssumption
  <2>2. Len(state) * old \in Nat  BY <2>1
  <2>3. \A k \in Nat, m \in Nat \ {0} : k \div m \in Nat  OBVIOUS
  <2>4. count \in Nat  BY <2>1, <2>2, <2>3, Zenon
  <2> HIDE DEF count
  <2>5. QED BY <2>4
<1> HIDE DEF n
<1>5. new \in Seq(Cursors) /\ Len(new) = n /\ DOMAIN new = 1..n /\ \A i \in 1..n : new[i] = b
  BY <1>1, <1>3, <1>4
<1>6. QED BY <1>1, <1>2, <1>4, <1>5

\* The cursors a session starts with.
LEMMA StartFacts ==
  ASSUME TypesInv, Start
  PROVE  /\ pc = "off" /\ pc' = "token" /\ asked' = TRUE /\ quiet' = TRUE /\ succeeded' = FALSE
         /\ UNCHANGED <<account, half, chain, fork, blocks, ops, saved, savedHalf, batch, done, had, tip>>
         /\ past' = IF saved # <<>> /\ savedHalf # half /\ "failed" \in past
                    THEN past \union {"resizedEarly"} ELSE past
         /\ \E b \in Highest({o[1] : o \in ops}) :
              /\ b \in Cursors /\ Known(b) /\ (b = NoBlock \/ \E o \in ops : b = o[1])
              /\ \A o \in ops : Height(o[1]) <= Height(b)
              /\ \/ (saved = <<>> \/ savedHalf = half) /\ cursors' = CheckReorganization(b)
                 \/ /\ saved # <<>> /\ savedHalf # half
                    /\ cursors' \in Resized(CheckReorganization(b), savedHalf)
<1>1. PICK b \in Highest({o[1] : o \in ops}) :
        cursors' \in IF saved = <<>> \/ savedHalf = half
                     THEN {CheckReorganization(b)}
                     ELSE Resized(CheckReorganization(b), savedHalf)
  BY Zenon DEF Start
<1>2. /\ b \in Cursors /\ Known(b) /\ b \in {o[1] : o \in ops} \union {NoBlock}
      /\ \A c \in {o[1] : o \in ops} : Height(c) <= Height(b)
  BY OpBlocks, HighestKnown
<1>3. (b = NoBlock \/ \E o \in ops : b = o[1]) /\ \A o \in ops : Height(o[1]) <= Height(b)
  BY <1>2, Zenon
<1>4. \/ (saved = <<>> \/ savedHalf = half) /\ cursors' = CheckReorganization(b)
      \/ /\ saved # <<>> /\ savedHalf # half
         /\ cursors' \in Resized(CheckReorganization(b), savedHalf)
  BY <1>1
<1>5. QED BY <1>2, <1>3, <1>4, Zenon DEF Start, chainVars, dbVars

\* Starting a session keeps the types: its cursors are saved ones, the last
\* block with an operation, or those of a new batch size.
LEMMA StartTypes ==
  ASSUME TypesInv, Start
  PROVE  TypesInv'
<1> USE TypeFacts, KnownFacts
<1>1. /\ pc' = "token" /\ asked' = TRUE
      /\ UNCHANGED <<account, half, chain, fork, blocks, ops, saved, savedHalf, batch, done, had, tip>>
      /\ past' \subseteq Marks
  BY StartFacts DEF Marks
<1>2. PICK b \in Cursors : 
        /\ Known(b)
        /\ \/ (saved = <<>> \/ savedHalf = half) /\ cursors' = CheckReorganization(b)
           \/ saved # <<>> /\ savedHalf # half /\ cursors' \in Resized(CheckReorganization(b), savedHalf)
  BY StartFacts, Zenon
<1> DEFINE state == CheckReorganization(b)
<1>3. /\ state \in Seq(Cursors) /\ Len(state) = Len(saved) /\ DOMAIN state = DOMAIN saved
      /\ \A i \in DOMAIN saved : state[i] = b \/ state[i] = saved[i]
  <2>1. \A i \in DOMAIN saved : state[i] = IF Restarts(i) THEN b ELSE saved[i]  BY CheckFacts, Zenon
  <2>2. state \in Seq(Cursors) /\ Len(state) = Len(saved) /\ DOMAIN state = DOMAIN saved
    BY CheckFacts, Zenon
  <2>3. QED BY <2>1, <2>2, Zenon
<1>4. \A i \in DOMAIN state : Known(state[i])  BY <1>2, <1>3, Zenon
<1>5. SessionInv  BY DEF TypesInv
<1> HIDE DEF state
<1>6. /\ cursors' \in Seq(Cursors) /\ \A i \in DOMAIN cursors' : Known(cursors'[i])
      /\ account.trouble # "resize" => cursors' = state
  <2>1. CASE (saved = <<>> \/ savedHalf = half) /\ cursors' = CheckReorganization(b)
    BY <2>1, <1>3, <1>4, Zenon DEF state
  <2>2. CASE saved # <<>> /\ savedHalf # half /\ cursors' \in Resized(CheckReorganization(b), savedHalf)
    <3>1. savedHalf \in Sizes /\ account.trouble = "resize"  BY <1>5, <2>2, Zenon DEF SessionInv
    <3>2. cursors' \in Resized(state, savedHalf)  BY <2>2 DEF state
    <3>3. /\ cursors' \in Seq(Cursors)
          /\ \E d \in Lowest(state) : \A i \in DOMAIN cursors' : cursors'[i] = d
          /\ Lowest(state) \subseteq {state[j] : j \in DOMAIN state}
      <4>1. state \in Seq(Cursors) /\ savedHalf \in Sizes /\ TypesInv  BY <1>3, <3>1, Zenon
      <4>2. QED BY ONLY <3>2, <4>1, ResizedFacts
    <3>4. PICK d \in Lowest(state) : \A i \in DOMAIN cursors' : cursors'[i] = d  BY <3>3
    <3>5. Known(d)
      <4>1. PICK j \in DOMAIN state : d = state[j]  BY <3>3, <3>4
      <4>2. QED BY <1>4, <4>1, Zenon
    <3>6. QED BY <3>1, <3>3, <3>4, <3>5, Zenon
  <2>3. QED BY <1>2, <2>1, <2>2
<1>7. SessionInv'
  <2>1. /\ saved # <<>> => savedHalf \in Sizes
        /\ account.trouble # "resize" =>
             /\ half = account.half /\ (saved # <<>> => savedHalf = half)
             /\ Len(saved) <= LastAddress + 1
        /\ account.isETH => Len(saved) <= 1
    BY <1>5, Zenon DEF SessionInv
  <2>2. account.isETH => account.trouble # "resize"  BY AccountFacts
  <2>3. /\ account.trouble # "resize" => Len(cursors') <= LastAddress + 1
        /\ account.isETH => Len(cursors') <= 1
    BY <1>3, <1>6, <2>1, <2>2, Zenon
  <2>4. pc' \notin {"off", "kill", "fetch", "store"}  BY <1>1
  <2>5. QED BY <1>1, <2>1, <2>3, <2>4, Zenon DEF SessionInv
<1>8. pc' \in Places /\ pc' \notin {"fetch", "store", "recovered"} /\ asked' \in BOOLEAN  BY <1>1 DEF Places
<1>9. ops' \subseteq blocks' \X Addresses  BY <1>1
<1>10. QED BY <1>1, <1>6, <1>7, <1>8, <1>9, TypesKept, Zenon

\* A step around the session, which keeps its state and the saved one.
LEMMA SessionKept ==
  ASSUME TypesInv, UNCHANGED <<account, half, chain, fork, saved, savedHalf, cursors, pc, batch, done, had>>,
         \A b \in blocks' : b \in blocks \/ (b \in Blocks /\ Known(b)), ops' \subseteq blocks' \X Addresses,
         tip' \in Cursors, Known(tip'), asked' \in BOOLEAN, past' \subseteq Marks
  PROVE  TypesInv'
<1> USE TypeFacts, KnownFacts
<1>1. SessionInv'  BY Zenon DEF TypesInv, SessionInv
<1>2. pc' \in {"fetch", "store", "recovered"} => batch' \in DOMAIN cursors'  BY Zenon
<1>3. QED BY <1>1, <1>2, TypesKept, Zenon

\* Deleting blocks deletes their operations.
LEMMA DeleteFacts ==
  ASSUME TypesInv, NEW h \in Nat, DeleteFrom(h)
  PROVE  /\ blocks' \subseteq blocks /\ ops' \subseteq ops /\ ops' \subseteq blocks' \X Addresses
         /\ \A b \in blocks : b \in blocks' <=> Height(b) < h
         /\ \A o \in ops : o \in ops' <=> Height(o[1]) < h
<1>1. /\ blocks' = {b \in blocks : Height(b) < h}
      /\ ops' = {o \in ops : Height(o[1]) < h}
  BY DEF DeleteFrom
<1>2. \A o \in ops : o[1] \in blocks /\ o[2] \in Addresses /\ o = <<o[1], o[2]>>  BY OpFacts
<1>3. \A o \in ops' : o \in ops /\ o[1] \in blocks'  BY <1>1, <1>2, Zenon
<1>4. \A o \in ops' : o \in blocks' \X Addresses
  <2>1. ASSUME NEW o \in ops' PROVE o \in blocks' \X Addresses
    <3>1. o[1] \in blocks' /\ o[2] \in Addresses /\ o = <<o[1], o[2]>>  BY <1>2, <1>3, Zenon
    <3>2. <<o[1], o[2]>> \in blocks' \X Addresses  BY ONLY <3>1
    <3>3. QED BY ONLY <3>1, <3>2
  <2>2. QED BY <2>1
<1>5. QED BY <1>1, <1>3, <1>4, Zenon

\* The current block, and another account's block, are blocks of the chain.
LEMMA AroundTypes ==
  ASSUME TypesInv, FetchTip \/ PutTip \/ OtherAccountStores \/ OtherAccountRecovers
  PROVE  TypesInv'
<1> USE TypeFacts, KnownFacts
<1>1. CASE FetchTip
  <2>1. /\ tip' = chain[Len(chain)] /\ asked' = FALSE
        /\ UNCHANGED <<account, half, chain, fork, blocks, ops, saved, savedHalf, cursors, pc, batch, done, had, past>>
    BY <1>1, Zenon DEF FetchTip, chainVars, dbVars, sessionVars, ghosts
  <2>2. Len(chain) \in DOMAIN chain  BY ChainFacts
  <2>3. tip' \in Cursors /\ Known(tip')  BY <2>1, <2>2, ChainFacts
  <2>4. QED BY <2>1, <2>3, SessionKept, Zenon
<1>2. CASE PutTip
  <2>1. /\ tip # NoBlock /\ tip' = NoBlock /\ blocks' = blocks \union {tip}
        /\ UNCHANGED <<account, half, chain, fork, ops, saved, savedHalf, cursors, pc, batch, done, had, asked>>
    BY <1>2, Zenon DEF PutTip, chainVars, sessionVars
  <2>2. tip \in Blocks /\ tip' \in Cursors  BY <2>1, CursorFacts
  <2>3. past' \subseteq Marks  BY <1>2 DEF PutTip, Marks
  <2>4. ops' \subseteq blocks' \X Addresses  BY <2>1
  <2>5. \A b \in blocks' : b \in blocks \/ (b \in Blocks /\ Known(b))  BY <2>1, <2>2, Zenon
  <2>6. Known(tip')  BY <2>1, Zenon DEF Known
  <2>7. asked' \in BOOLEAN  BY <2>1
  <2>8. QED BY <2>1, <2>2, <2>3, <2>4, <2>5, <2>6, <2>7, SessionKept, Zenon
<1>3. CASE OtherAccountStores
  <2>1. PICK h \in DOMAIN chain :
          /\ blocks' = blocks \union {chain[h]}
          /\ past' = past \union (IF chain[h][2] > 0 THEN {"branchStored"} ELSE {})
    BY <1>3 DEF OtherAccountStores
  <2>2. UNCHANGED <<account, half, chain, fork, ops, saved, savedHalf, cursors, pc, batch, done, had, tip, asked>>
    BY <1>3, Zenon DEF OtherAccountStores, chainVars, sessionVars, tipVars
  <2>3. chain[h] \in Blocks /\ Known(chain[h])  BY ChainFacts
  <2>4. past' \subseteq Marks  BY <2>1 DEF Marks
  <2>5. ops' \subseteq blocks' \X Addresses  BY <2>1, <2>2
  <2>6. \A b \in blocks' : b \in blocks \/ (b \in Blocks /\ Known(b))  BY <2>1, <2>3, Zenon
  <2>7. QED BY <2>2, <2>4, <2>5, <2>6, SessionKept, Zenon
<1>4. CASE OtherAccountRecovers
  <2>1. PICK h \in 1..MaxHeight : DeleteFrom(h)  BY <1>4 DEF OtherAccountRecovers
  <2>2. UNCHANGED <<account, half, chain, fork, saved, savedHalf, cursors, pc, batch, done, had, tip, asked>>
    BY <1>4, Zenon DEF OtherAccountRecovers, chainVars, sessionVars, tipVars
  <2>3. h \in Nat  OBVIOUS
  <2>4. blocks' \subseteq blocks /\ ops' \subseteq blocks' \X Addresses  BY <2>1, <2>3, DeleteFacts, Zenon
  <2>5. past' \subseteq Marks  BY <1>4 DEF OtherAccountRecovers, Marks
  <2>6. \A b \in blocks' : b \in blocks  BY <2>4
  <2>7. QED BY <2>2, <2>4, <2>5, <2>6, SessionKept, Zenon
<1>5. QED BY <1>1, <1>2, <1>3, <1>4

\* Recovery lowers the cursors to a block that is left.
LEMMA RecoverFacts ==
  ASSUME TypesInv, Recover
  PROVE  /\ pc = "fetch" /\ pc' = "recovered" /\ cursors[batch] # NoBlock /\ Height(cursors[batch]) \in Nat
         /\ UNCHANGED <<account, half, chain, fork, saved, savedHalf, batch, done, had, tip, asked,
                        sessions, succeeded, past>>
         /\ DeleteFrom(Height(cursors[batch]))
         /\ cursors' \in Seq(Cursors) /\ Len(cursors') = Len(cursors) /\ DOMAIN cursors' = DOMAIN cursors
         /\ \E b \in Highest(blocks') :
              /\ b \in Cursors /\ Known(b) /\ b \in blocks' \union {NoBlock}
              /\ \A x \in blocks' : Height(x) <= Height(b)
              /\ \A i \in DOMAIN cursors : cursors'[i] = IF Height(cursors[i]) > Height(b) THEN b ELSE cursors[i]
<1> USE TypeFacts
<1>1. /\ pc = "fetch" /\ pc' = "recovered" /\ cursors[batch] # NoBlock
      /\ UNCHANGED <<account, half, chain, fork, saved, savedHalf, batch, done, had, tip, asked,
                     sessions, succeeded, past>>
      /\ DeleteFrom(Height(cursors[batch]))
  BY Zenon DEF Recover, chainVars, tipVars
<1>2. PICK b \in Highest(blocks') : cursors' = Lowered(b)  BY Zenon DEF Recover
<1>3. Height(cursors[batch]) \in Nat  BY <1>1, CursorFacts
<1>4. blocks' \subseteq blocks  BY <1>1, <1>3, DeleteFacts, Zenon
<1>5. b \in Cursors /\ Known(b) /\ b \in blocks' \union {NoBlock} /\ \A x \in blocks' : Height(x) <= Height(b)
  BY <1>4, HighestKnown, Zenon
<1> DEFINE r(i) == IF Height(cursors[i]) > Height(b) THEN b ELSE cursors[i]
<1>6. \A i \in 1..Len(cursors) : r(i) \in Cursors  BY <1>5, Zenon
<1>7. cursors' = [i \in 1..Len(cursors) |-> r(i)]  BY <1>2, Zenon DEF Lowered
<1> HIDE DEF r
<1>8. /\ cursors' \in Seq(Cursors) /\ Len(cursors') = Len(cursors) /\ DOMAIN cursors' = 1..Len(cursors)
      /\ \A i \in 1..Len(cursors) : cursors'[i] = r(i)
  BY <1>6, <1>7
<1>9. \A i \in DOMAIN cursors : cursors'[i] = IF Height(cursors[i]) > Height(b) THEN b ELSE cursors[i]
  BY <1>8, Zenon DEF r
<1>10. QED BY <1>1, <1>3, <1>5, <1>8, <1>9, Zenon

\* Recovery keeps the types: it falls back to a block left in the database.
LEMMA RecoverTypes ==
  ASSUME TypesInv, Recover
  PROVE  TypesInv'
<1> USE TypeFacts, KnownFacts
<1>1. /\ pc = "fetch" /\ pc' = "recovered" /\ Height(cursors[batch]) \in Nat
      /\ UNCHANGED <<account, half, chain, fork, saved, savedHalf, batch, done, had, tip, asked, past>>
      /\ DeleteFrom(Height(cursors[batch]))
      /\ cursors' \in Seq(Cursors) /\ Len(cursors') = Len(cursors) /\ DOMAIN cursors' = DOMAIN cursors
  BY RecoverFacts, Zenon
<1>2. PICK b : Known(b) /\ \A i \in DOMAIN cursors : cursors'[i] = IF Height(cursors[i]) > Height(b) THEN b ELSE cursors[i]
  BY RecoverFacts, Zenon
<1>3. \A i \in DOMAIN cursors' : Known(cursors'[i])  BY <1>1, <1>2, Zenon
<1>4. blocks' \subseteq blocks /\ ops' \subseteq blocks' \X Addresses  BY <1>1, DeleteFacts, Zenon
<1>5. SessionInv'
  BY <1>1, Zenon DEF TypesInv, SessionInv
<1>6. pc' \in Places /\ batch' \in DOMAIN cursors'  BY <1>1 DEF Places
<1>7. \A x \in blocks' : x \in blocks  BY <1>4
<1>8. QED BY <1>1, <1>3, <1>4, <1>5, <1>6, <1>7, TypesKept, Zenon

\* However a session ends, its state is gone and the database is kept.
EndsSession == KillSession \/ Fail \/ Crash

\* What the end of a session leaves.
LEMMA EndFacts ==
  ASSUME TypesInv, EndsSession
  PROVE  /\ pc' = "off" /\ cursors' = <<>>
         /\ batch' = 0 /\ done' = FALSE /\ had' = FALSE
         /\ UNCHANGED <<account, half, chain, fork, blocks, ops, saved, savedHalf, sessions, troubles, quiet>>
         /\ past \subseteq past' /\ past' \subseteq past \union {"failed", "torn"}
         /\ \/ KillSession /\ pc = "kill" /\ succeeded' = TRUE /\ past' = past
            \/ succeeded' = FALSE /\ "failed" \in past'
         /\ pc = "recovered" => "torn" \in past'
         /\ \/ UNCHANGED <<tip, asked>>
            \/ tip' = NoBlock /\ asked' = FALSE
<1>1. CASE KillSession
  BY <1>1 DEF KillSession, EndSession, chainVars, dbVars, tipVars
<1>2. CASE Fail
  BY <1>2 DEF Fail, EndSession, chainVars, dbVars, tipVars
<1>3. CASE Crash
  BY <1>3 DEF Crash, EndSession, chainVars, dbVars
<1>4. QED BY <1>1, <1>2, <1>3 DEF EndsSession

\* The end of a session keeps the types.
LEMMA EndTypes ==
  ASSUME TypesInv, EndsSession
  PROVE  TypesInv'
<1> USE TypeFacts, KnownFacts
<1>1. /\ pc' = "off" /\ cursors' = <<>> /\ batch' = 0 /\ done' = FALSE /\ had' = FALSE
      /\ UNCHANGED <<account, half, chain, fork, blocks, ops, saved, savedHalf>>
      /\ past' \subseteq past \union {"failed", "torn"}
      /\ UNCHANGED <<tip, asked>> \/ (tip' = NoBlock /\ asked' = FALSE)
  BY EndFacts, Zenon
<1>2. past' \subseteq Marks  BY <1>1 DEF Marks
<1>3. tip' \in Cursors /\ Known(tip') /\ asked' \in BOOLEAN
  <2>1. NoBlock \in Cursors  BY CursorFacts
  <2>2. QED BY <1>1, <2>1, Zenon
<1>4. /\ cursors' \in Seq(Cursors) /\ Len(cursors') = 0 /\ \A i \in DOMAIN cursors' : Known(cursors'[i])
  BY <1>1
<1>5. LastAddress \in Nat /\ Len(cursors') <= LastAddress + 1 /\ Len(cursors') <= 1
  BY <1>4, BoundsAssumption
<1>6. SessionInv'
  <2>1. pc' \notin {"kill", "fetch", "store"}  BY <1>1
  <2>2. QED BY <1>1, <1>5, <2>1, Zenon DEF TypesInv, SessionInv
<1>7. pc' \in Places /\ pc' \notin {"fetch", "store", "recovered"}  BY <1>1 DEF Places
<1>8. done' \in BOOLEAN /\ had' \in BOOLEAN  BY <1>1
<1>9. ops' \subseteq blocks' \X Addresses  BY <1>1
<1>10. QED BY <1>1, <1>2, <1>3, <1>4, <1>6, <1>7, <1>8, <1>9, TypesKept, Zenon

\* A new batch size keeps the types.
LEMMA ConfigureTypes ==
  ASSUME TypesInv, Configure
  PROVE  TypesInv'
<1> USE TypeFacts, KnownFacts
<1>1. /\ pc = "off" /\ half' \in Sizes /\ account.trouble = "resize"
      /\ UNCHANGED <<account, chain, fork, blocks, ops, saved, savedHalf, cursors, pc, batch, done, had, tip, asked, past>>
  BY Zenon DEF Configure, Trouble, chainVars, dbVars, sessionVars, tipVars
<1>2. SessionInv'
  <2>1. pc' \notin {"kill", "fetch", "store"}  BY <1>1
  <2>2. QED BY <1>1, <2>1, Zenon DEF TypesInv, SessionInv
<1>3. pc' \in Places /\ pc' \notin {"fetch", "store", "recovered"}  BY <1>1 DEF Places
<1>4. ops' \subseteq blocks' \X Addresses  BY <1>1
<1>5. QED BY <1>1, <1>2, <1>3, <1>4, TypesKept, Zenon

\* Nothing but the first two blocks of the chain is known at first.
LEMMA InitTypes ==
  ASSUME Init
  PROVE  TypesInv
<1>1. /\ account \in Scenarios /\ half = account.half
      /\ chain = <<<<1, 0>>, <<2, 0>>>> /\ fork = 0
      /\ blocks = {} /\ ops = {} /\ saved = <<>> /\ savedHalf = 0
      /\ cursors = <<>> /\ pc = "off" /\ batch = 0 /\ done = FALSE /\ had = FALSE
      /\ tip = NoBlock /\ asked = FALSE /\ past = {}
  BY DEF Init
<1>2. half \in Sizes  BY <1>1, AccountFacts
<1>3. MaxHeight \in Nat \ {0, 1} /\ MaxForks \in Nat /\ LastAddress \in Nat  BY BoundsAssumption
<1>4. <<1, 0>> \in Blocks /\ <<2, 0>> \in Blocks  BY <1>3 DEF Blocks
<1>5. chain \in Seq(Blocks) /\ fork \in 0..MaxForks  BY <1>1, <1>3, <1>4
<1>6. ChainInv
  <2>1. Len(chain) = 2 /\ DOMAIN chain = 1..2 /\ chain[1] = <<1, 0>> /\ chain[2] = <<2, 0>>  BY <1>1
  <2>2. \A h \in 1..2 : h = 1 \/ h = 2  OBVIOUS
  <2>3. \A h \in DOMAIN chain : chain[h] = <<h, 0>>  BY <2>1, <2>2
  <2>4. \A h \in DOMAIN chain : chain[h][2] = 0 /\ chain[h] = <<h, chain[h][2]>>
    <3>1. \A h : <<h, 0>>[2] = 0  OBVIOUS
    <3>2. QED BY <2>3, <3>1
  <2>5. QED BY <1>1, <2>1, <2>4 DEF ChainInv
<1>7. KnownInv  BY <1>1 DEF KnownInv, Known
<1>8. SessionInv  BY <1>1, <1>2, <1>3 DEF SessionInv
<1>9. TypeOK
  <2>1. tip \in Cursors /\ NoBlock \in Cursors  BY <1>1, CursorFacts
  <2>2. saved \in Seq(Cursors) /\ cursors \in Seq(Cursors) /\ Len(cursors) = 0  BY <1>1
  <2>3. blocks \subseteq Blocks /\ ops \subseteq blocks \X Addresses  BY <1>1
  <2>4. Len(cursors) <= LastAddress + 1  BY <1>3, <2>2
  <2>5. done \in BOOLEAN /\ had \in BOOLEAN /\ asked \in BOOLEAN /\ past \subseteq Marks  BY <1>1
  <2>6. pc \in {"off", "token", "fetch", "store", "recovered", "kill"} /\ pc \notin {"fetch", "store", "recovered"}
    BY <1>1
  <2>7. savedHalf \in Sizes \union {0}  BY <1>1
  <2>8. QED BY <1>2, <1>5, <2>1, <2>2, <2>3, <2>4, <2>5, <2>6, <2>7, Zenon DEF TypeOK
<1>10. QED BY <1>1, <1>6, <1>7, <1>8, <1>9, Zenon DEF TypesInv

\* The steps of Next, by what they do to the session.
LEMMA Steps ==
  ASSUME Next
  PROVE  \/ NewBlock \/ \E h \in 1..MaxHeight : Reorganize(h)
         \/ Start \/ FetchTip \/ PutTip \/ ObtainToken \/ StorePage \/ StoreMempoolPage
         \/ (StoreState /\ More) \/ (StoreState /\ ~More)
         \/ BlockNotFound \/ ServerError \/ StoreRecovered \/ EndsSession
         \/ OtherAccountStores \/ OtherAccountRecovers \/ Configure
BY Zenon DEF Next, SessionStep, EndsSession

\* Every step keeps the types.
LEMMA NextTypes ==
  ASSUME TypesInv, [Next]_vars
  PROVE  TypesInv'
<1>1. CASE UNCHANGED vars
  <2>1. UNCHANGED <<account, half, chain, fork, blocks, ops, saved, savedHalf, cursors, pc, batch, done, had, tip, asked, past>>
    BY <1>1 DEF vars, chainVars, dbVars, sessionVars, tipVars, ghosts
  <2>2. ops' \subseteq blocks' \X Addresses /\ \A b \in blocks' : b \in blocks  BY <2>1, TypeFacts
  <2>3. QED BY <2>1, <2>2, TypeFacts, KnownFacts, SessionKept, Zenon
<1>2. CASE Next
  <2>1. CASE NewBlock \/ \E h \in 1..MaxHeight : Reorganize(h)
    <3>1. Grows /\ ChainChanged
      <4>1. CASE NewBlock  BY <4>1, NewBlockGrows, Zenon DEF NewBlock
      <4>2. CASE \E h \in 1..MaxHeight : Reorganize(h)
        BY <4>2, ReorganizeGrows, Zenon DEF Reorganize
      <4>3. QED BY <2>1, <4>1, <4>2
    <3>2. QED BY <3>1, ChainTypes
  <2>2. CASE Start  BY <2>2, StartTypes
  <2>3. CASE FetchTip \/ PutTip \/ OtherAccountStores \/ OtherAccountRecovers  BY <2>3, AroundTypes
  <2>4. CASE ObtainToken \/ StoreRecovered \/ (StoreState /\ More)  BY <2>4, EnterStepsTypes
  <2>5. CASE StoreState /\ ~More  BY <2>5, KillTypes
  <2>6. CASE StorePage \/ StoreMempoolPage  BY <2>6, PageTypes
  <2>7. CASE BlockNotFound \/ ServerError
    <3>1. Recover  BY <2>7 DEF BlockNotFound, ServerError
    <3>2. QED BY <3>1, RecoverTypes
  <2>8. CASE EndsSession  BY <2>8, EndTypes
  <2>9. CASE Configure  BY <2>9, ConfigureTypes
  <2>10. QED BY <1>2, <2>1, <2>2, <2>3, <2>4, <2>5, <2>6, <2>7, <2>8, <2>9, Steps, Zenon
<1>3. QED BY <1>1, <1>2

\* The types of every behaviour: an account's cursors are known blocks of the
\* chain's branches, and a session of one size has no more batches than it
\* has addresses, and one.
THEOREM TypesHold == SafetySpec => []TypesInv
<1>1. Init => TypesInv  BY InitTypes
<1>2. TypesInv /\ [Next]_vars => TypesInv'  BY NextTypes
<1>3. QED BY <1>1, <1>2, PTL DEF SafetySpec

\* In every behaviour of the session the variables keep their types, a session
\* in a batch has a cursor for it, operations belong to stored blocks, and an
\* account has at most one batch more than it has addresses.
THEOREM SessionTypes == Spec => []TypeOK
<1>1. TypesInv => TypeOK  BY DEF TypesInv
<1>2. QED BY <1>1, TypesHold, PTL DEF Spec

---------------------------------------------------------------------------
(* Pages, and the transactions before a block.                             *)

\* The heights that match are finitely many, and on the chain.
LEMMA MatchingFacts ==
  ASSUME TypesInv, NEW i, NEW from
  PROVE  /\ IsFiniteSet(Matching(i, from))
         /\ \A h \in Matching(i, from) :
              /\ h \in DOMAIN chain /\ h \in Nat /\ h >= Height(from)
              /\ \E a \in In(i) : <<chain[h], a>> \in Txs
         /\ \A h \in DOMAIN chain, a \in In(i) :
              h >= Height(from) /\ <<chain[h], a>> \in Txs => h \in Matching(i, from)
<1>1. DOMAIN chain = 1..Len(chain) /\ Len(chain) \in Nat  BY ChainFacts
<1>2. IsFiniteSet(1..Len(chain))  BY <1>1, FS_Interval
<1>3. /\ \A h \in Matching(i, from) :
           /\ h \in DOMAIN chain /\ h >= Height(from)
           /\ \E a \in In(i) : <<chain[h], a>> \in Txs
      /\ \A h \in DOMAIN chain, a \in In(i) :
           h >= Height(from) /\ <<chain[h], a>> \in Txs => h \in Matching(i, from)
  BY Zenon DEF Matching
<1>4. Matching(i, from) \in SUBSET (1..Len(chain))  BY <1>1, <1>3
<1>5. IsFiniteSet(Matching(i, from))  BY <1>2, <1>4, FS_Subset
<1>6. \A h \in Matching(i, from) : h \in Nat  BY <1>4
<1>7. QED BY <1>3, <1>5, <1>6

\* A page holds the lowest of the blocks that match, and the last page the
\* rest of them.
LEMMA LowestFirst ==
  ASSUME TypesInv, NEW i, NEW from
  PROVE  /\ \A b \in Page(i, from) : \E h \in Matching(i, from) : b = chain[h]
         /\ \A g, h \in Matching(i, from) : g < h /\ chain[h] \in Page(i, from) => chain[g] \in Page(i, from)
         /\ ~HasNext(i, from) => \A h \in Matching(i, from) : chain[h] \in Page(i, from)
<1> DEFINE M == Matching(i, from)
           below(h) == {f \in M : f < h}
<1>1. IsFiniteSet(M) /\ \A h \in M : h \in DOMAIN chain /\ h \in Nat  BY MatchingFacts, Zenon
<1>2. PageLimit \in Nat  BY PageLimitAssumption
<1>3. Page(i, from) = {chain[h] : h \in {g \in M : Cardinality(below(g)) < PageLimit}}  BY DEF Page
<1>4. HasNext(i, from) <=> Cardinality(M) > PageLimit  BY DEF HasNext
<1> HIDE DEF M
<1>5. \A g, h \in M : chain[g] = chain[h] => g = h
  <2>1. \A h \in M : chain[h][1] = h  BY <1>1, ChainFacts
  <2>2. QED BY <2>1, Zenon
<1>6. \A h \in M : chain[h] \in Page(i, from) <=> Cardinality(below(h)) < PageLimit
  <2> HIDE DEF below
  <2>1. QED BY <1>3, <1>5, Zenon
<1>7. \A h \in M : IsFiniteSet(below(h)) /\ Cardinality(below(h)) \in Nat
  <2>1. \A h \in M : below(h) \in SUBSET M  OBVIOUS
  <2> HIDE DEF below
  <2>2. QED BY <1>1, <2>1, FS_Subset, FS_CardinalityType
<1>8. \A g, h \in M : g < h /\ chain[h] \in Page(i, from) => chain[g] \in Page(i, from)
  <2>1. ASSUME NEW g \in M, NEW h \in M, g < h, chain[h] \in Page(i, from)
        PROVE  chain[g] \in Page(i, from)
    <3>1. below(g) \in SUBSET below(h)  BY <1>1, <2>1
    <3> HIDE DEF below
    <3>2. Cardinality(below(g)) <= Cardinality(below(h))  BY <1>7, <2>1, <3>1, FS_Subset
    <3>3. Cardinality(below(h)) < PageLimit  BY <1>6, <2>1
    <3>4. Cardinality(below(g)) < PageLimit  BY <1>2, <1>7, <2>1, <3>2, <3>3
    <3>5. QED BY <1>6, <2>1, <3>4
  <2>2. QED BY <2>1
<1>9. ~HasNext(i, from) => \A h \in M : chain[h] \in Page(i, from)
  <2>1. ASSUME ~HasNext(i, from), NEW h \in M PROVE chain[h] \in Page(i, from)
    <3>1. below(h) \in SUBSET (M \ {h})  BY <1>1, <2>1
    <3> HIDE DEF below
    <3>2. IsFiniteSet(M \ {h}) /\ Cardinality(M \ {h}) = Cardinality(M) - 1 /\ Cardinality(M) \in Nat
      BY <1>1, <2>1, FS_RemoveElement, FS_CardinalityType
    <3>3. Cardinality(below(h)) <= Cardinality(M \ {h})  BY <3>1, <3>2, FS_Subset
    <3>4. Cardinality(below(h)) < PageLimit  BY <1>2, <1>4, <1>7, <2>1, <3>2, <3>3
    <3>5. QED BY <1>6, <2>1, <3>4
  <2>2. QED BY <2>1
<1>10. \A b \in Page(i, from) : \E h \in M : b = chain[h]  BY <1>3
<1>11. QED BY <1>8, <1>9, <1>10 DEF M

\* What is fetched stays fetched: the chain only adds what is newer.
LEMMA CoveredGrows ==
  ASSUME TypesInv, TypesInv', Grows \/ UNCHANGED <<chain, fork>>, account' = account, ops \subseteq ops'
  PROVE  \A A : \A b \in Cursors : Known(b) /\ Covered(A, b) => Covered(A, b)'
<1>1. SUFFICES ASSUME NEW A, NEW b \in Cursors, Known(b), Covered(A, b),
                      NEW t \in Txs, t[2] \in A,
                      NEW g \in DOMAIN chain', g < Height(b), t[1] = chain'[g], chain'[g][2] <= b[2]
               PROVE  t \in ops'
  BY Zenon DEF Covered, Txs
<1>2. Height(b) \in Nat /\ (b # NoBlock <=> Height(b) # 0) /\ b[2] \in Nat  BY <1>1, CursorFacts
<1>3. Len(chain') \in Nat /\ DOMAIN chain' = 1..Len(chain') /\ fork' \in Nat /\ chain'[g][2] \in 0..fork'
  <2>1. chain' \in Seq(Blocks) /\ fork' \in 0..MaxForks /\ ChainInv'  BY Zenon DEF TypesInv, TypeOK
  <2>2. Len(chain') \in Nat /\ DOMAIN chain' = 1..Len(chain') /\ fork' \in Nat  BY <2>1, BoundsAssumption
  <2>3. chain'[g][2] \in 0..fork'  BY <2>1, Zenon DEF ChainInv
  <2>4. QED BY <2>2, <2>3
<1>4. b # NoBlock  BY <1>1, <1>2, <1>3
<1>5. Height(b) \in DOMAIN chain /\ b[2] <= chain[Height(b)][2]  BY <1>1, <1>4 DEF Known
<1>6. g \in DOMAIN chain /\ b[2] <= fork
  <2>1. /\ DOMAIN chain = 1..Len(chain) /\ Len(chain) \in Nat /\ fork \in Nat
        /\ chain[Height(b)][2] \in 0..fork
    BY <1>5, ChainFacts, BoundsAssumption
  <2>2. QED BY <1>1, <1>2, <1>3, <1>5, <2>1
<1>7. chain'[g] = chain[g]
  <2>1. CASE UNCHANGED <<chain, fork>>  BY <2>1
  <2>2. CASE Grows
    <3>1. chain'[g] = chain[g] \/ (chain'[g][2] = fork' /\ fork' > fork)  BY <1>6, <2>2, Zenon DEF Grows
    <3>2. fork \in Nat  BY ChainFacts, BoundsAssumption
    <3>3. QED BY <1>1, <1>2, <1>3, <1>6, <3>1, <3>2
  <2>3. QED BY <2>1, <2>2
<1>8. t \in ops  BY <1>1, <1>6, <1>7, Zenon DEF Covered
<1>9. QED BY <1>8

\* Deleting the blocks from height h on does not touch what is below it.
LEMMA CoveredKept ==
  ASSUME TypesInv, NEW h \in Nat, DeleteFrom(h), UNCHANGED <<chain, account>>
  PROVE  \A A : \A b \in Cursors : Covered(A, b) /\ Height(b) <= h => Covered(A, b)'
<1>1. SUFFICES ASSUME NEW A, NEW b \in Cursors, Covered(A, b), Height(b) <= h,
                      NEW t \in Txs, t[2] \in A,
                      NEW g \in DOMAIN chain, g < Height(b), t[1] = chain[g], chain[g][2] <= b[2]
               PROVE  t \in ops'
  BY Zenon DEF Covered, Txs
<1>2. t \in ops  BY <1>1, Zenon DEF Covered
<1>3. Height(t[1]) = g /\ g \in Nat /\ Height(b) \in Nat  BY <1>1, ChainFacts, CursorFacts
<1>4. Height(t[1]) < h  BY <1>1, <1>3
<1>5. QED BY <1>2, <1>4, DeleteFacts, Zenon

\* Storing a page of the batch under way: what it adds, and where its cursor is.
Here == cursors[batch]
Fetched == Page(batch, Here)

\* What storing a page does, whether or not it ends in the mempool.
LEMMA PageStep ==
  ASSUME TypesInv, StorePage \/ StoreMempoolPage
  PROVE  /\ pc = "fetch" /\ batch \in DOMAIN cursors /\ batch \in Nat \ {0}
         /\ Here \in Cursors /\ Known(Here) /\ OnChain(Here)
         /\ UNCHANGED <<account, half, chain, fork, saved, savedHalf, batch, done, tip, asked, quiet, succeeded>>
         /\ blocks' = blocks \union Fetched /\ past \subseteq past'
         /\ ops \subseteq ops' /\ (\A o \in ops' : o \in ops \/ o[1] \in Fetched)
         /\ \A t \in Txs : t[1] \in Fetched /\ t[2] \in In(batch) => t \in ops'
         /\ pc' \in {"fetch", "store"} /\ (pc' = "store" => ~HasNext(batch, Here))
         /\ DOMAIN cursors' = DOMAIN cursors /\ Len(cursors') = Len(cursors)
         /\ \A i \in DOMAIN cursors : cursors'[i] = cursors[i] \/ (i = batch /\ cursors'[i] \in Fetched)
         /\ ~had' => ~had /\ Fetched = {} /\ cursors' = cursors
         /\ StorePage /\ Fetched # {} =>
              cursors'[batch] \in Fetched /\ \A b \in Fetched : Height(b) <= Height(cursors'[batch])
         /\ StorePage => past' = past /\ (Fetched = {} => cursors' = cursors)
<1> USE TypeFacts
<1>1. pc = "fetch" /\ OnChain(Here) /\ PutPage(Fetched)  BY DEF StorePage, StoreMempoolPage, Here, Fetched
<1>2. /\ batch \in DOMAIN cursors /\ batch \in Nat \ {0} /\ Here \in Cursors /\ Known(Here)
  BY <1>1, KnownFacts DEF Here
<1>3. /\ blocks' = blocks \union Fetched /\ ops' = ops \union {t \in Txs : t[1] \in Fetched /\ t[2] \in In(batch)}
      /\ pc' = IF HasNext(batch, Here) THEN "fetch" ELSE "store"
      /\ UNCHANGED <<account, half, chain, fork, saved, savedHalf, batch, done, tip, asked>>
  BY <1>1 DEF PutPage, chainVars, tipVars, Here
<1>4. Fetched \in SUBSET Blocks  BY <1>1, PageFacts DEF Fetched, Here
<1>5. CASE StorePage
  <2>1. PICK b \in Highest(Fetched) : cursors' = [cursors EXCEPT ![batch] = IF Fetched = {} THEN @ ELSE b]
    BY <1>5 DEF StorePage, Fetched, Here
  <2>2. /\ had' = (had \/ Fetched # {}) /\ past' = past /\ quiet' = quiet /\ succeeded' = succeeded
    BY <1>5 DEF StorePage, ghosts, Fetched, Here
  <2>3. Fetched # {} => b \in Fetched /\ \A x \in Fetched : Height(x) <= Height(b)  BY <1>4, HighestFacts
  <2>4. Fetched = {} => cursors' = cursors  BY <1>2, <2>1
  <2>5. Fetched # {} => cursors' = [cursors EXCEPT ![batch] = b]  BY <2>1
  <2>6. /\ DOMAIN cursors' = DOMAIN cursors /\ Len(cursors') = Len(cursors)
        /\ \A i \in DOMAIN cursors : cursors'[i] = cursors[i] \/ (i = batch /\ cursors'[i] \in Fetched)
        /\ Fetched # {} => cursors'[batch] = b
    <3>1. CASE Fetched = {}  BY <2>4, <3>1
    <3>2. CASE Fetched # {}
      <4>1. /\ DOMAIN cursors' = DOMAIN cursors /\ Len(cursors') = Len(cursors)
            /\ \A i \in DOMAIN cursors : cursors'[i] = IF i = batch THEN b ELSE cursors[i]
        BY <1>2, <2>5, <3>2
      <4>2. QED BY <1>2, <2>3, <3>2, <4>1, Zenon
    <3>3. QED BY <3>1, <3>2
  <2>7. ~had' => ~had /\ Fetched = {} /\ cursors' = cursors  BY <2>2, <2>4, Zenon
  <2>8. pc' \in {"fetch", "store"} /\ (pc' = "store" => ~HasNext(batch, Here))  BY <1>3
  <2>9. ops \subseteq ops' /\ (\A o \in ops' : o \in ops \/ o[1] \in Fetched)
        /\ \A t \in Txs : t[1] \in Fetched /\ t[2] \in In(batch) => t \in ops'
    BY <1>3, Zenon
  <2>10. QED BY <1>1, <1>2, <1>3, <2>2, <2>3, <2>4, <2>6, <2>7, <2>8, <2>9, Zenon
<1>6. CASE StoreMempoolPage /\ ~StorePage
  <2>1. /\ cursors' = cursors /\ had' = TRUE /\ quiet' = quiet /\ succeeded' = succeeded
        /\ past' = past \union {"mempool"}
    BY <1>6 DEF StoreMempoolPage
  <2>2. pc' \in {"fetch", "store"} /\ (pc' = "store" => ~HasNext(batch, Here))  BY <1>3
  <2>3. ops \subseteq ops' /\ (\A o \in ops' : o \in ops \/ o[1] \in Fetched)
        /\ \A t \in Txs : t[1] \in Fetched /\ t[2] \in In(batch) => t \in ops'
    BY <1>3, Zenon
  <2>4. QED BY <1>1, <1>2, <1>3, <1>6, <2>1, <2>2, <2>3, Zenon
<1>7. QED BY <1>5, <1>6

\* The blocks of a page are on the chain, at or above the cursor.
LEMMA FetchedFacts ==
  ASSUME TypesInv, pc = "fetch"
  PROVE  \A b \in Fetched :
           /\ b \in Blocks /\ b \in Cursors /\ b # NoBlock /\ Known(b) /\ OnChain(b)
           /\ \E h \in DOMAIN chain, a \in In(batch) :
                b = chain[h] /\ Height(b) = h /\ h >= Height(Here) /\ <<b, a>> \in Txs
<1>1. ASSUME NEW b \in Fetched
      PROVE  /\ b \in Blocks /\ b \in Cursors /\ b # NoBlock /\ Known(b) /\ OnChain(b)
             /\ \E h \in DOMAIN chain, a \in In(batch) :
                  b = chain[h] /\ Height(b) = h /\ h >= Height(Here) /\ <<b, a>> \in Txs
  <2>1. PICK h \in Matching(batch, Here) : b = chain[h]  BY <1>1, LowestFirst DEF Fetched
  <2>2. PICK a \in In(batch) : h \in DOMAIN chain /\ h >= Height(Here) /\ <<chain[h], a>> \in Txs
    BY <2>1, MatchingFacts
  <2>3. chain[h] \in Blocks /\ chain[h] \in Cursors /\ chain[h] # NoBlock /\ Height(chain[h]) = h /\ Known(chain[h])
    BY <2>2, ChainFacts, KnownFacts
  <2>4. OnChain(chain[h])  BY <2>2, Zenon DEF OnChain
  <2>5. QED BY <2>1, <2>2, <2>3, <2>4, Zenon
<1>2. QED BY <1>1

\* When what is before its cursor is stored, what is before the blocks of the
\* page is once it is stored, and after the last page everything is.
LEMMA PageCovers ==
  ASSUME TypesInv, StorePage \/ StoreMempoolPage, Covered(In(batch), Here)
  PROVE  /\ \A b \in Fetched :
              \A t \in Txs : t[2] \in In(batch) /\ (\E g \in DOMAIN chain : g < Height(b) /\ t[1] = chain[g]) => t \in ops'
         /\ pc' = "store" =>
              \A t \in Txs : t[2] \in In(batch) /\ (\E g \in DOMAIN chain : t[1] = chain[g]) => t \in ops'
<1> DEFINE M == Matching(batch, Here)
<1>1. /\ pc = "fetch" /\ Here \in Cursors /\ Known(Here) /\ OnChain(Here) /\ ops \subseteq ops'
      /\ \A t \in Txs : t[1] \in Fetched /\ t[2] \in In(batch) => t \in ops'
      /\ pc' = "store" => ~HasNext(batch, Here)
  BY PageStep, Zenon
<1>2. \A t \in Txs : t = <<t[1], t[2]>>  BY OpFacts
<1>3. \A t \in Txs, g \in DOMAIN chain :
        t[2] \in In(batch) /\ t[1] = chain[g] => t \in ops' \/ g \in M
  <2>1. SUFFICES ASSUME NEW t \in Txs, NEW g \in DOMAIN chain, t[2] \in In(batch), t[1] = chain[g], g \notin M
                 PROVE  t \in ops'
    OBVIOUS
  <2>2. <<chain[g], t[2]>> = t  BY <1>2, <2>1, Zenon
  <2>3. ~(g >= Height(Here))  BY <2>1, <2>2, MatchingFacts, Zenon
  <2>4. g \in Nat /\ Height(Here) \in Nat /\ g >= 1  BY <2>1, <1>1, ChainFacts, CursorFacts
  <2>5. g < Height(Here) /\ Here # NoBlock  BY <1>1, <2>3, <2>4, CursorFacts
  <2>6. PICK k \in DOMAIN chain : chain[k] = Here  BY <1>1, <2>5, Zenon DEF OnChain
  <2>7. k = Height(Here) /\ k \in Nat /\ chain[g][2] <= chain[k][2]  BY <2>1, <2>4, <2>5, <2>6, ChainFacts
  <2>8. t \in ops  BY <2>1, <2>5, <2>6, <2>7, Zenon DEF Covered
  <2>9. QED BY <1>1, <2>8
<1> HIDE DEF M
<1>4. /\ \A g, h \in M : g < h /\ chain[h] \in Fetched => chain[g] \in Fetched
      /\ ~HasNext(batch, Here) => \A h \in M : chain[h] \in Fetched
      /\ \A b \in Fetched : \E h \in M : b = chain[h]
  BY LowestFirst, Zenon DEF M, Fetched
<1>5. ASSUME NEW b \in Fetched, NEW t \in Txs, t[2] \in In(batch),
             NEW g \in DOMAIN chain, g < Height(b), t[1] = chain[g]
      PROVE  t \in ops'
  <2>1. PICK h \in M : b = chain[h]  BY <1>4, <1>5
  <2>2. h \in DOMAIN chain  BY <2>1, MatchingFacts DEF M
  <2>3. Height(b) = h  BY <2>1, <2>2, ChainFacts
  <2>4. g \in M => t[1] \in Fetched  BY <1>4, <1>5, <2>1, <2>3, Zenon
  <2>5. QED BY <1>1, <1>3, <1>5, <2>4, Zenon
<1>6. ASSUME pc' = "store", NEW t \in Txs, t[2] \in In(batch), NEW g \in DOMAIN chain, t[1] = chain[g]
      PROVE  t \in ops'
  <2>1. g \in M => t[1] \in Fetched  BY <1>1, <1>4, <1>6, Zenon
  <2>2. QED BY <1>1, <1>3, <1>6, <2>1, Zenon
<1>7. QED BY <1>5, <1>6, Zenon

---------------------------------------------------------------------------
(* An account of one batch skips no transaction.                           *)

\* A history does not forget, and the chain does not go back to a branch.
LEMMA History ==
  ASSUME TypesInv, [Next]_vars
  PROVE  account' = account /\ past \subseteq past' /\ fork <= fork' /\ (Settled' => Settled)
<1>1. account' = account /\ past \subseteq past' /\ (fork' = fork \/ fork' = fork + 1)
  <2>1. CASE UNCHANGED vars
    BY <2>1 DEF vars, chainVars, ghosts
  <2>2. CASE NewBlock \/ \E h \in 1..MaxHeight : Reorganize(h)
    BY <2>2 DEF NewBlock, Reorganize, ChainChanged
  <2>3. CASE Start \/ FetchTip \/ PutTip \/ OtherAccountStores \/ OtherAccountRecovers \/ Configure
    BY <2>3 DEF Start, FetchTip, PutTip, OtherAccountStores, OtherAccountRecovers, Configure, chainVars, ghosts
  <2>4. CASE ObtainToken \/ StoreRecovered \/ StoreState
    BY <2>4 DEF ObtainToken, StoreRecovered, StoreState, chainVars, ghosts
  <2>5. CASE StorePage \/ StoreMempoolPage
    BY <2>5, PageStep, Zenon
  <2>6. CASE BlockNotFound \/ ServerError
    <3>1. Recover  BY <2>6 DEF BlockNotFound, ServerError
    <3>2. QED BY <3>1, RecoverFacts
  <2>7. CASE EndsSession
    BY <2>7, EndFacts
  <2>8. CASE Next
    BY <2>8, <2>2, <2>3, <2>4, <2>5, <2>6, <2>7, Steps, Zenon
  <2>9. QED BY <2>1, <2>8
<1>2. fork \in Nat  BY ChainFacts, BoundsAssumption
<1>3. fork <= fork' /\ (fork' = 0 => fork = 0)  BY <1>1, <1>2
<1>4. Settled' => Settled  BY <1>1, <1>3 DEF Settled
<1>5. QED BY <1>1, <1>3, <1>4

\* An account of one batch has one cursor at most.
LEMMA OneCursor ==
  ASSUME TypesInv, account.isETH
  PROVE  /\ \A i \in DOMAIN cursors : i = 1
         /\ \A i \in DOMAIN saved : i = 1
         /\ pc \in {"fetch", "store", "recovered", "kill"} => batch = 1 /\ CursorBlocks = {Here}
<1>1. /\ DOMAIN cursors = 1..Len(cursors) /\ Len(cursors) \in Nat /\ Len(cursors) <= 1
      /\ DOMAIN saved = 1..Len(saved) /\ Len(saved) \in Nat /\ Len(saved) <= 1
      /\ pc \in {"fetch", "store", "recovered", "kill"} => batch \in DOMAIN cursors
  BY TypeFacts, Zenon DEF TypesInv, SessionInv
<1>2. /\ \A i \in DOMAIN cursors : i = 1
      /\ \A i \in DOMAIN saved : i = 1
  BY <1>1
<1>3. QED BY <1>1, <1>2 DEF CursorBlocks, Here

\* Known cursors and blocks.
LEMMA MentionedFacts ==
  ASSUME TypesInv
  PROVE  \A b \in Mentioned : b \in Cursors /\ Known(b)
<1>1. \A b \in blocks : b \in Cursors /\ Known(b)  BY OpFacts, KnownFacts
<1>2. tip \in Cursors /\ Known(tip)  BY TypeFacts, KnownFacts
<1>3. \A h \in DOMAIN chain : chain[h] \in Cursors /\ Known(chain[h])  BY ChainFacts, KnownFacts
<1>4. \A i \in DOMAIN cursors : cursors[i] \in Cursors /\ Known(cursors[i])  BY TypeFacts, KnownFacts
<1>5. \A i \in DOMAIN saved : saved[i] \in Cursors /\ Known(saved[i])  BY TypeFacts, KnownFacts
<1>6. QED BY <1>1, <1>2, <1>3, <1>4, <1>5, Zenon DEF Mentioned, ChainBlocks, CursorBlocks, SavedBlocks

\* The last branch stays the last for what is below it.
LEMMA TopmostKept ==
  ASSUME TypesInv, TypesInv', Grows \/ UNCHANGED <<chain, fork>>,
         \A x \in Mentioned' : x \in Mentioned \/ x \in ChainBlocks' \/ x = NoBlock
  PROVE  \A b \in Mentioned : Topmost(b) => Topmost(b)'
<1>1. SUFFICES ASSUME NEW b \in Mentioned, Topmost(b), NEW x \in Mentioned', Height(x) > Height(b)
               PROVE  x[2] >= b[2]
  BY Zenon DEF Topmost
<1>2. b \in Cursors /\ Known(b) /\ Height(b) \in Nat /\ b[2] \in Nat  BY <1>1, MentionedFacts, CursorFacts
<1>3. CASE x \in Mentioned  BY <1>1, <1>3 DEF Topmost
<1>4. CASE x = NoBlock  BY <1>1, <1>2, <1>4, CursorFacts
<1>5. CASE x \in ChainBlocks'
  <2>1. PICK h \in DOMAIN chain' : x = chain'[h]  BY <1>5 DEF ChainBlocks
  <2>2. CASE UNCHANGED <<chain, fork>>
    <3>1. x \in Mentioned  BY <2>1, <2>2, Zenon DEF Mentioned, ChainBlocks
    <3>2. QED BY <3>1, <1>1 DEF Topmost
  <2>3. CASE Grows
    <3>1. CASE h \in DOMAIN chain /\ x = chain[h]
      <4>1. x \in Mentioned  BY <3>1, Zenon DEF Mentioned, ChainBlocks
      <4>2. QED BY <4>1, <1>1 DEF Topmost
    <3>2. CASE x[2] = fork'
      <4>1. fork \in Nat /\ fork' \in Nat /\ fork <= fork'  BY <2>3, ChainFacts, BoundsAssumption DEF Grows
      <4>2. b[2] <= fork
        <5>1. CASE b = NoBlock  BY <5>1, <4>1, CursorFacts
        <5>2. CASE b # NoBlock
          <6>1. Height(b) \in DOMAIN chain /\ b[2] <= chain[Height(b)][2]  BY <1>2, <5>2 DEF Known
          <6>2. chain[Height(b)][2] \in 0..fork  BY <6>1, ChainFacts
          <6>3. QED BY <1>2, <4>1, <6>1, <6>2
        <5>3. QED BY <5>1, <5>2
      <4>3. QED BY <1>2, <3>2, <4>1, <4>2
    <3>3. h \in DOMAIN chain \/ h \in DOMAIN chain' \ DOMAIN chain  BY <2>1
    <3>4. QED BY <2>1, <2>3, <3>1, <3>2, <3>3, Zenon DEF Grows
  <2>4. QED BY <2>2, <2>3
<1>6. QED BY <1>1, <1>3, <1>4, <1>5

\* Where the blocks after a step come from.
LEMMA Origin ==
  ASSUME TypesInv, [Next]_vars
  PROVE  \A x \in Mentioned' : x \in Mentioned \/ x \in ChainBlocks' \/ x = NoBlock
<1> DEFINE From == Mentioned \union ChainBlocks' \union {NoBlock}
<1>1. /\ \A b \in blocks : b \in From
      /\ tip \in From /\ NoBlock \in From
      /\ \A i \in DOMAIN cursors : cursors[i] \in From
      /\ \A i \in DOMAIN saved : saved[i] \in From
      /\ \A h \in DOMAIN chain : chain[h] \in From
  BY Zenon DEF Mentioned, CursorBlocks, SavedBlocks, ChainBlocks
<1> HIDE DEF From
<1>2. SUFFICES /\ \A b \in blocks' : b \in From
               /\ tip' \in From
               /\ \A i \in DOMAIN cursors' : cursors'[i] \in From
               /\ \A i \in DOMAIN saved' : saved'[i] \in From
  <2>1. \A x \in Mentioned' :
          \/ x \in blocks' \/ x = tip' \/ x \in ChainBlocks'
          \/ (\E i \in DOMAIN cursors' : x = cursors'[i]) \/ (\E i \in DOMAIN saved' : x = saved'[i])
    BY Zenon DEF Mentioned, CursorBlocks, SavedBlocks
  <2>2. \A x \in ChainBlocks' : x \in From  BY Zenon DEF From
  <2>3. \A x \in Mentioned' : x \in From  BY <1>2, <2>1, <2>2, Zenon
  <2>4. QED BY <2>3, Zenon DEF From
<1>3. CASE UNCHANGED vars \/ NewBlock \/ (\E h \in 1..MaxHeight : Reorganize(h)) \/ Configure
  <2>1. UNCHANGED <<blocks, tip, cursors, saved>>
    BY <1>3 DEF vars, NewBlock, Reorganize, ChainChanged, Configure, dbVars, sessionVars, tipVars
  <2>2. QED BY <1>1, <2>1, Zenon
<1>4. CASE Start
  <2>1. UNCHANGED <<blocks, tip, saved>>  BY <1>4, StartFacts
  <2>2. PICK b : /\ b = NoBlock \/ \E o \in ops : b = o[1]
                 /\ b \in Cursors
                 /\ \/ (saved = <<>> \/ savedHalf = half) /\ cursors' = CheckReorganization(b)
                    \/ /\ saved # <<>> /\ savedHalf # half
                       /\ cursors' \in Resized(CheckReorganization(b), savedHalf)
    BY <1>4, StartFacts, Zenon
  <2>3. b \in From  BY <1>1, <2>2, OpFacts, Zenon
  <2> DEFINE state == CheckReorganization(b)
  <2>4. state \in Seq(Cursors) /\ \A i \in DOMAIN state : state[i] \in From
    BY <1>1, <2>2, <2>3, CheckFacts, Zenon
  <2> HIDE DEF state
  <2>5. \A i \in DOMAIN cursors' : cursors'[i] \in From
    <3>1. CASE saved = <<>> \/ savedHalf = half  BY <2>2, <2>4, <3>1, Zenon DEF state
    <3>2. CASE saved # <<>> /\ savedHalf # half
      <4>1. savedHalf \in Sizes  BY <3>2, Zenon DEF TypesInv, SessionInv
      <4>2. cursors' \in Resized(state, savedHalf)  BY <2>2, <3>2, Zenon DEF state
      <4>3. /\ \E d \in Lowest(state) : \A i \in DOMAIN cursors' : cursors'[i] = d
            /\ Lowest(state) \subseteq {state[j] : j \in DOMAIN state}
        BY ONLY TypesInv, <2>4, <4>1, <4>2, ResizedFacts
      <4>4. QED BY <2>4, <4>3, Zenon
    <3>3. QED BY <3>1, <3>2
  <2>6. QED BY <1>1, <2>1, <2>5, Zenon
<1>5. CASE FetchTip
  <2>1. tip' = chain[Len(chain)] /\ UNCHANGED <<blocks, cursors, saved>>
    BY <1>5 DEF FetchTip, dbVars, sessionVars
  <2>2. Len(chain) \in DOMAIN chain  BY ChainFacts
  <2>3. QED BY <1>1, <2>1, <2>2, Zenon
<1>6. CASE PutTip
  <2>1. tip' = NoBlock /\ blocks' = blocks \union {tip} /\ UNCHANGED <<cursors, saved>>
    BY <1>6 DEF PutTip, sessionVars
  <2>2. QED BY <1>1, <2>1, Zenon
<1>7. CASE ObtainToken \/ StoreRecovered \/ StoreState
  <2>1. UNCHANGED <<blocks, tip>> /\ (saved' = saved \/ saved' = cursors)
    BY <1>7 DEF ObtainToken, StoreRecovered, StoreState, dbVars, tipVars
  <2>2. \A i \in DOMAIN cursors' : cursors'[i] \in From
    <3>1. CASE cursors' = cursors  BY <1>1, <3>1, Zenon
    <3>2. CASE cursors' = Append(cursors, NoBlock)
      <4>1. cursors \in Seq(Cursors) /\ NoBlock \in Cursors  BY TypeFacts, CursorFacts
      <4>2. \A i \in DOMAIN cursors' : (i \in DOMAIN cursors /\ cursors'[i] = cursors[i]) \/ cursors'[i] = NoBlock
        BY <3>2, <4>1
      <4>3. QED BY <1>1, <4>2, Zenon
    <3>3. cursors' = cursors \/ cursors' = Append(cursors, NoBlock)
      BY <1>7 DEF ObtainToken, StoreRecovered, StoreState, Enter
    <3>4. QED BY <3>1, <3>2, <3>3
  <2>3. QED BY <1>1, <2>1, <2>2, Zenon
<1>8. CASE StorePage \/ StoreMempoolPage
  <2>1. /\ pc = "fetch" /\ blocks' = blocks \union Fetched /\ UNCHANGED <<tip, saved, chain>>
        /\ DOMAIN cursors' = DOMAIN cursors
        /\ \A i \in DOMAIN cursors : cursors'[i] = cursors[i] \/ cursors'[i] \in Fetched
    BY <1>8, PageStep, Zenon
  <2>2. \A b \in Fetched : \E h \in DOMAIN chain : b = chain[h]  BY <2>1, FetchedFacts, Zenon
  <2>3. \A b \in Fetched : b \in From  BY <1>1, <2>2, Zenon
  <2>4. QED BY <1>1, <2>1, <2>3, Zenon
<1>9. CASE BlockNotFound \/ ServerError
  <2>1. Recover  BY <1>9 DEF BlockNotFound, ServerError
  <2>2. /\ UNCHANGED <<saved, tip>> /\ DOMAIN cursors' = DOMAIN cursors
        /\ DeleteFrom(Height(Here)) /\ Height(Here) \in Nat
    BY <2>1, RecoverFacts, Zenon DEF Here
  <2>3. PICK b : /\ b \in blocks' \union {NoBlock}
                 /\ \A i \in DOMAIN cursors : cursors'[i] = IF Height(cursors[i]) > Height(b) THEN b ELSE cursors[i]
    BY <2>1, RecoverFacts, Zenon
  <2>4. blocks' \subseteq blocks  BY <2>2, DeleteFacts, Zenon
  <2>5. b \in From  BY <1>1, <2>3, <2>4
  <2>6. QED BY <1>1, <2>2, <2>3, <2>4, <2>5, Zenon
<1>10. CASE EndsSession
  <2>1. UNCHANGED <<blocks, saved>> /\ cursors' = <<>> /\ (tip' = tip \/ tip' = NoBlock)
    BY <1>10, EndFacts
  <2>2. \A i \in DOMAIN cursors' : FALSE  BY <2>1
  <2>3. QED BY <1>1, <2>1, <2>2, Zenon
<1>11. CASE OtherAccountStores
  <2>1. PICK h \in DOMAIN chain : blocks' = blocks \union {chain[h]}  BY <1>11 DEF OtherAccountStores
  <2>2. UNCHANGED <<tip, cursors, saved>>  BY <1>11 DEF OtherAccountStores, sessionVars, tipVars
  <2>3. QED BY <1>1, <2>1, <2>2, Zenon
<1>12. CASE OtherAccountRecovers
  <2>1. PICK h \in 1..MaxHeight : DeleteFrom(h)  BY <1>12 DEF OtherAccountRecovers
  <2>2. UNCHANGED <<tip, cursors, saved>>  BY <1>12 DEF OtherAccountRecovers, sessionVars, tipVars
  <2>3. h \in Nat  OBVIOUS
  <2>4. blocks' \subseteq blocks  BY <2>1, <2>3, DeleteFacts, Zenon
  <2>5. QED BY <1>1, <2>2, <2>4, Zenon
<1>13. Next => \/ UNCHANGED vars \/ NewBlock \/ (\E h \in 1..MaxHeight : Reorganize(h)) \/ Configure
               \/ Start \/ FetchTip \/ PutTip \/ ObtainToken \/ StoreRecovered \/ StoreState
               \/ StorePage \/ StoreMempoolPage \/ BlockNotFound \/ ServerError \/ EndsSession
               \/ OtherAccountStores \/ OtherAccountRecovers
  BY Steps, Zenon
<1>14. QED
  BY <1>3, <1>4, <1>5, <1>6, <1>7, <1>8, <1>9, <1>10, <1>11, <1>12, <1>13, Zenon

\* The one batch keeps its addresses, and what is ready stays ready.
LEMMA ReadyKept ==
  ASSUME TypesInv, TypesInv', account.isETH, account' = account
  PROVE  /\ In(1)' = In(1) /\ Ready(NoBlock) /\ Ready(NoBlock)'
         /\ (Grows \/ UNCHANGED <<chain, fork>>) /\ ops \subseteq ops' =>
              \A b \in Cursors : Known(b) /\ Ready(b) => Ready(b)'
         /\ \A h \in Nat : DeleteFrom(h) /\ UNCHANGED chain =>
              \A b \in Cursors : Ready(b) /\ Height(b) <= h => Ready(b)'
<1>1. half' = half
  <2>1. account.trouble # "resize"  BY AccountFacts, Zenon DEF TypesInv
  <2>2. half = account.half /\ half' = account'.half  BY <2>1, Zenon DEF TypesInv, SessionInv
  <2>3. QED BY <2>2
<1>2. In(1)' = In(1)  BY <1>1, Zenon DEF In
<1>3. Ready(NoBlock) /\ Ready(NoBlock)'
  <2>1. \A h \in DOMAIN chain : ~(h < Height(NoBlock))  BY ChainFacts, CursorFacts
  <2>2. \A h \in DOMAIN chain' : ~(h < Height(NoBlock))
    <3>1. chain' \in Seq(Blocks)  BY Zenon DEF TypesInv, TypeOK
    <3>2. DOMAIN chain' = 1..Len(chain') /\ Len(chain') \in Nat  BY <3>1
    <3>3. QED BY <3>2, CursorFacts
  <2>3. QED BY <2>1, <2>2, Zenon DEF Ready, Covered
<1>4. ASSUME Grows \/ UNCHANGED <<chain, fork>>, ops \subseteq ops', NEW b \in Cursors, Known(b), Ready(b)
      PROVE  Ready(b)'
  <2>1. PICK A : A = In(1)  OBVIOUS
  <2>2. Covered(A, b)  BY <1>4, <2>1 DEF Ready
  <2>3. Covered(A, b)'  BY <1>4, <2>2, CoveredGrows
  <2>4. QED BY <1>2, <2>1, <2>3, Zenon DEF Ready, Covered
<1>5. ASSUME NEW h \in Nat, DeleteFrom(h), UNCHANGED chain, NEW b \in Cursors, Ready(b), Height(b) <= h
      PROVE  Ready(b)'
  <2>1. PICK A : A = In(1)  OBVIOUS
  <2>2. Covered(A, b)  BY <1>5, <2>1 DEF Ready
  <2>3. Covered(A, b)'  BY <1>5, <2>2, CoveredKept
  <2>4. QED BY <1>2, <2>1, <2>3, Zenon DEF Ready, Covered
<1>6. QED BY <1>2, <1>3, <1>4, <1>5, Zenon

\* What a step that deletes nothing owes an account of one batch.
LEMMA OneBatchKept ==
  ASSUME TypesInv, TypesInv', [Next]_vars, account.isETH, OneBatch,
         Grows \/ UNCHANGED <<chain, fork>>, ops \subseteq ops',
         \A o \in ops' : o \in ops \/ Ready(o[1])',
         \A b \in CursorBlocks' : b \in CursorBlocks \/ Ready(b)',
         \A b \in SavedBlocks' : b \in SavedBlocks \/ b \in CursorBlocks,
         \A b \in SavedBlocks : Kept(b)' => Kept(b) \/ Ready(b)',
         \A b \in blocks' : b \in blocks \/ b = tip \/ Placed(b)',
         \A b \in {tip'} : b = tip \/ Topmost(b)'
  PROVE  OneBatch'
<1>1. account' = account  BY History
<1>2. \A b \in Cursors : Known(b) /\ Ready(b) => Ready(b)'  BY <1>1, ReadyKept, Zenon
<1>3. \A b \in Mentioned : b \in Cursors /\ Known(b)  BY MentionedFacts
<1>4. /\ \A o \in ops : o[1] \in Mentioned
      /\ \A b \in CursorBlocks : b \in Mentioned
      /\ \A b \in SavedBlocks : b \in Mentioned
      /\ \A b \in blocks \union {tip} : b \in Mentioned
  BY OpFacts, Zenon DEF Mentioned
<1>5. \A o \in ops' : Ready(o[1])'  BY <1>2, <1>3, <1>4, Zenon DEF OneBatch
<1>6. \A b \in CursorBlocks' : Ready(b)'  BY <1>2, <1>3, <1>4, Zenon DEF OneBatch
<1>7. \A b \in SavedBlocks' : Kept(b)' => Ready(b)'  BY <1>2, <1>3, <1>4, Zenon DEF OneBatch
<1>8. \A b \in Mentioned : Topmost(b) => Topmost(b)'  BY Origin, TopmostKept
<1>9. \A b \in {tip'} : Topmost(b)'  BY <1>4, <1>8, Zenon DEF OneBatch
<1>10. \A b \in blocks' : Placed(b)'
  <2>1. ASSUME NEW b \in blocks, Placed(b) PROVE Placed(b)'
    <3>1. b \in Mentioned  BY <1>4, <2>1, Zenon
    <3>2. CASE b = NoBlock \/ b[2] = 0  BY <3>2, Zenon DEF Placed
    <3>3. CASE \E o \in ops : o[1] = b  BY <3>3, Zenon DEF Placed
    <3>4. CASE Topmost(b)  BY <3>1, <3>4, <1>8, Zenon DEF Placed
    <3>5. QED BY <2>1, <3>2, <3>3, <3>4, Zenon DEF Placed
  <2>2. ASSUME NEW b \in {tip} PROVE Placed(b)'
    <3>1. Topmost(b)'  BY <1>4, <1>8, <2>2, Zenon DEF OneBatch
    <3>2. QED BY <3>1, Zenon DEF Placed
  <2>3. QED BY <2>1, <2>2, Zenon DEF OneBatch
<1>11. QED BY <1>5, <1>6, <1>7, <1>9, <1>10, Zenon DEF OneBatch

\* The chain brings no saved cursor back.
LEMMA OneBatchChain ==
  ASSUME TypesInv, TypesInv', Next, account.isETH, OneBatch, Grows, ChainChanged
  PROVE  OneBatch'
<1>1. UNCHANGED <<account, half, blocks, ops, saved, savedHalf, cursors, tip>>
  BY DEF ChainChanged, dbVars, sessionVars, tipVars
<1>2. \A b \in Cursors : Known(b) /\ b[2] = 0 /\ OnChain(b)' => OnChain(b)
  <2>1. SUFFICES ASSUME NEW b \in Cursors, Known(b), b[2] = 0, OnChain(b)', b # NoBlock PROVE OnChain(b)
    BY Zenon DEF OnChain
  <2>2. PICK h \in DOMAIN chain' : chain'[h] = b  BY <2>1, Zenon DEF OnChain
  <2>3. Height(b) = h
    <3>1. chain'[h] = <<h, chain'[h][2]>>  BY <2>2, Zenon DEF Grows, ChainInv
    <3>2. b[1] = h  BY <2>2, <3>1
    <3>3. QED BY <3>2 DEF Height
  <2>4. h \in DOMAIN chain  BY <2>1, <2>3, Zenon DEF Known
  <2>5. fork \in Nat /\ fork' \in Nat  BY ChainFacts, BoundsAssumption DEF Grows
  <2>6. chain'[h] = chain[h] \/ (chain'[h][2] = fork' /\ fork' > fork)  BY <2>4, Zenon DEF Grows
  <2>7. chain'[h] = chain[h]  BY <2>1, <2>2, <2>5, <2>6
  <2>8. QED BY <2>2, <2>4, <2>7, Zenon DEF OnChain
<1>3. \A b \in SavedBlocks : Kept(b)' => Kept(b)
  <2>1. \A b \in SavedBlocks : b \in Cursors /\ Known(b)  BY MentionedFacts, Zenon DEF Mentioned
  <2>2. QED BY <1>1, <1>2, <2>1, Zenon DEF Kept
<1>4. /\ \A o \in ops' : o \in ops
      /\ \A b \in blocks' : b \in blocks
      /\ \A b \in {tip'} : b = tip
      /\ ops \subseteq ops'
  BY <1>1
<1>5. /\ \A b \in CursorBlocks' : b \in CursorBlocks
      /\ \A b \in SavedBlocks' : b \in SavedBlocks
  BY <1>1, Zenon DEF CursorBlocks, SavedBlocks
<1>6. QED BY <1>3, <1>4, <1>5, OneBatchKept, Zenon

\* The cursor a session of one batch starts from: the saved one, known to the
\* database, or the last block with an operation.
LEMMA OneStart ==
  ASSUME TypesInv, Start, account.isETH
  PROVE  \/ saved = <<>> /\ cursors' = <<>>
         \/ /\ DOMAIN saved = {1} /\ DOMAIN cursors' = {1}
            /\ \/ cursors'[1] = saved[1] /\ (saved[1] \in blocks \/ saved[1] = NoBlock)
               \/ /\ cursors'[1] = NoBlock \/ \E o \in ops : cursors'[1] = o[1]
                  /\ \A o \in ops : Height(o[1]) <= Height(cursors'[1])
<1>1. saved # <<>> => savedHalf = half
  <2>1. account.trouble # "resize"  BY AccountFacts, Zenon DEF TypesInv
  <2>2. QED BY <2>1, Zenon DEF TypesInv, SessionInv
<1>2. PICK b \in Cursors : /\ b = NoBlock \/ \E o \in ops : b = o[1]
                           /\ \A o \in ops : Height(o[1]) <= Height(b)
                           /\ cursors' = CheckReorganization(b)
  BY <1>1, StartFacts, Zenon
<1> DEFINE state == CheckReorganization(b)
<1>3. /\ state \in Seq(Cursors) /\ Len(state) = Len(saved) /\ DOMAIN state = DOMAIN saved
      /\ \A i \in DOMAIN saved : state[i] = IF Restarts(i) THEN b ELSE saved[i]
  BY CheckFacts, Zenon
<1> HIDE DEF state
<1>4. cursors' = state  BY <1>2 DEF state
<1>5. DOMAIN saved = 1..Len(saved) /\ Len(saved) \in Nat /\ \A i \in DOMAIN saved : i = 1
  BY TypeFacts, OneCursor
<1>6. CASE Len(saved) = 0  BY <1>3, <1>4, <1>6, TypeFacts
<1>7. CASE Len(saved) # 0
  <2>1. 1 \in DOMAIN saved /\ DOMAIN saved = {1}  BY <1>5, <1>7
  <2>2. ~Restarts(1) => saved[1] \in blocks \/ saved[1] = NoBlock
    <3>1. SUFFICES ASSUME saved[1] \notin blocks, saved[1] # NoBlock PROVE Restarts(1)  OBVIOUS
    <3>2. \A k \in {1} : k = 1  OBVIOUS
    <3>3. Height(saved[1]) <= Height(saved[1])
      <4>1. Height(saved[1]) \in Nat  BY <2>1, TypeFacts, CursorFacts
      <4>2. QED BY <4>1
    <3>4. Failed = {1}  BY <2>1, <3>1, <3>2, Zenon DEF Failed
    <3>5. QED BY <2>1, <3>1, <3>3, <3>4, Zenon DEF Restarts
  <2>3. QED BY <1>2, <1>3, <1>4, <2>1, <2>2, Zenon
<1>8. QED BY <1>6, <1>7

\* Every step around the requests keeps what an account of one batch relies on.
LEMMA OneBatchAround ==
  ASSUME TypesInv, TypesInv', Next, account.isETH, OneBatch, Settled',
         \/ Start \/ FetchTip \/ PutTip \/ OtherAccountStores \/ EndsSession \/ Configure
         \/ ObtainToken \/ StoreRecovered \/ StoreState
  PROVE  OneBatch'
<1>1. account' = account /\ past' \intersect {"revived", "branchStored", "deletedLive"} = {}
  BY History, Zenon DEF Settled
<1>2. Ready(NoBlock)' /\ \A b : b = NoBlock => Topmost(b)'
  <2>1. Ready(NoBlock)'  BY <1>1, ReadyKept, Zenon
  <2>2. ASSUME NEW b, b = NoBlock PROVE Topmost(b)'
    <3>1. \A x \in Mentioned' : x[2] \in Nat
      <4>1. \A x \in Mentioned' : x \in Mentioned \/ x \in ChainBlocks' \/ x = NoBlock  BY Origin
      <4>2. \A x \in Mentioned : x \in Cursors  BY MentionedFacts
      <4>3. \A x \in ChainBlocks' : x \in Cursors
        <5>1. chain' \in Seq(Blocks)  BY Zenon DEF TypesInv, TypeOK
        <5>2. \A h \in DOMAIN chain' : chain'[h] \in Blocks  BY <5>1
        <5>3. QED BY <5>2, CursorFacts, Zenon DEF ChainBlocks
      <4>4. QED BY <4>1, <4>2, <4>3, CursorFacts
    <3>2. b[2] = 0  BY <2>2, CursorFacts
    <3>3. \A x \in Mentioned' : x[2] >= b[2]  BY <3>1, <3>2
    <3>4. QED BY <3>3, Zenon DEF Topmost
  <2>3. QED BY <2>1, <2>2
<1>3. ASSUME UNCHANGED <<chain, blocks>>
      PROVE  \A b \in SavedBlocks : Kept(b)' => Kept(b)
  <2>1. \A b : OnChain(b)' => OnChain(b)  BY <1>3, Zenon DEF OnChain
  <2>2. QED BY <1>1, <1>3, <2>1, Zenon DEF Kept
<1>4. CASE Start
  <2>1. UNCHANGED <<chain, fork, blocks, ops, saved, tip>>  BY <1>4, StartFacts
  <2>2. ops \subseteq ops' /\ \A o \in ops' : o \in ops  BY <2>1
  <2>3. \A b \in CursorBlocks' : b = NoBlock \/ (\E o \in ops : b = o[1]) \/ (b \in SavedBlocks /\ b \in blocks)
    <3>1. CASE saved = <<>> /\ cursors' = <<>>
      <4>1. DOMAIN cursors' = {}  BY <3>1
      <4>2. QED BY <4>1, Zenon DEF CursorBlocks
    <3>2. CASE /\ DOMAIN saved = {1} /\ DOMAIN cursors' = {1}
               /\ \/ cursors'[1] = saved[1] /\ (saved[1] \in blocks \/ saved[1] = NoBlock)
                  \/ /\ cursors'[1] = NoBlock \/ \E o \in ops : cursors'[1] = o[1]
                     /\ \A o \in ops : Height(o[1]) <= Height(cursors'[1])
      <4>1. \A i \in DOMAIN cursors' : i = 1  BY <3>2
      <4>2. 1 \in DOMAIN saved  BY <3>2
      <4>3. \A b \in CursorBlocks' : b = cursors'[1]  BY <4>1, Zenon DEF CursorBlocks
      <4>4. saved[1] \in SavedBlocks  BY <4>2, Zenon DEF SavedBlocks
      <4>5. QED BY <3>2, <4>3, <4>4, Zenon
    <3>3. QED BY <1>4, <3>1, <3>2, OneStart, Zenon
  <2>4. \A b \in Cursors : Known(b) /\ Ready(b) => Ready(b)'  BY <1>1, <2>1, <2>2, ReadyKept, Zenon
  <2>5. \A b \in blocks : b \in Cursors /\ Known(b)  BY OpFacts, KnownFacts
  <2>6. \A o \in ops : o[1] \in Cursors /\ Known(o[1])  BY <2>5, OpFacts
  <2>7. \A b \in CursorBlocks' : Ready(b)'
    BY <1>2, <2>3, <2>4, <2>5, <2>6, Zenon DEF OneBatch, Kept
  <2>8. \A b \in SavedBlocks' : b \in SavedBlocks  BY <2>1, Zenon DEF SavedBlocks
  <2>9. \A b \in SavedBlocks : Kept(b)' => Kept(b)  BY <1>3, <2>1
  <2>10. (\A b \in blocks' : b \in blocks) /\ \A b \in {tip'} : b = tip  BY <2>1
  <2>11. UNCHANGED <<chain, fork>>  BY <2>1
  <2>12. QED BY <2>2, <2>7, <2>8, <2>9, <2>10, <2>11, OneBatchKept, Zenon
<1>5. CASE FetchTip
  <2>1. tip' = chain[Len(chain)] /\ UNCHANGED <<chain, fork, blocks, ops, saved, cursors>>
    BY <1>5 DEF FetchTip, chainVars, dbVars, sessionVars
  <2>2. ASSUME NEW c, c = tip' PROVE Topmost(c)'
    <3>1. c = tip'  BY <2>2
    <3>2. Height(c) = Len(chain) /\ DOMAIN chain = 1..Len(chain) /\ Len(chain) \in Nat \ {0}
      BY <2>1, <3>1, ChainFacts
    <3>3. ASSUME NEW x \in Mentioned', Height(x) > Height(c) PROVE x[2] >= c[2]
      <4>1. x \in Mentioned \/ x \in ChainBlocks \/ x = NoBlock
        <5>1. ChainBlocks' = ChainBlocks  BY <2>1 DEF ChainBlocks
        <5>2. QED BY <3>3, <5>1, Origin
      <4>2. x \in Cursors /\ Known(x)
        <5>1. \A y \in ChainBlocks : y \in Mentioned  BY DEF Mentioned
        <5>2. QED BY <4>1, <5>1, MentionedFacts, CursorFacts, KnownFacts
      <4>3. x = NoBlock \/ Height(x) \in DOMAIN chain  BY <4>2 DEF Known
      <4>4. Height(x) \in Nat /\ Height(x) <= Len(chain)  BY <3>2, <4>2, <4>3, CursorFacts
      <4>5. QED BY <3>2, <3>3, <4>4
    <3>4. QED BY <3>3, Zenon DEF Topmost
  <2>3. (\A b \in blocks' : b \in blocks) /\ \A b \in {tip'} : Topmost(b)'  BY <2>1, <2>2
  <2>4. ops \subseteq ops' /\ \A o \in ops' : o \in ops  BY <2>1
  <2>5. \A b \in CursorBlocks' : b \in CursorBlocks  BY <2>1, Zenon DEF CursorBlocks
  <2>6. \A b \in SavedBlocks' : b \in SavedBlocks  BY <2>1, Zenon DEF SavedBlocks
  <2>7. \A b \in SavedBlocks : Kept(b)' => Kept(b)  BY <1>3, <2>1
  <2>8. UNCHANGED <<chain, fork>>  BY <2>1
  <2>9. QED BY <2>3, <2>4, <2>5, <2>6, <2>7, <2>8, OneBatchKept, Zenon
<1>6. CASE PutTip
  <2>1. /\ tip' = NoBlock /\ blocks' = blocks \union {tip} /\ UNCHANGED <<chain, fork, ops, saved, cursors>>
        /\ tip \notin blocks /\ (\E i \in DOMAIN saved : saved[i] = tip) => "revived" \in past'
    BY <1>6, Zenon DEF PutTip, chainVars, sessionVars
  <2>2. tip \in SavedBlocks => tip \in blocks  BY <1>1, <2>1, Zenon DEF SavedBlocks
  <2>3. \A b \in SavedBlocks : Kept(b)' => Kept(b)
    <3>1. \A b : OnChain(b)' => OnChain(b)  BY <2>1, Zenon DEF OnChain
    <3>2. QED BY <1>1, <2>1, <2>2, <3>1, Zenon DEF Kept
  <2>4. (\A b \in blocks' : b \in blocks \/ b = tip) /\ \A b \in {tip'} : Topmost(b)'  BY <1>2, <2>1, Zenon
  <2>5. ops \subseteq ops' /\ \A o \in ops' : o \in ops  BY <2>1
  <2>6. \A b \in CursorBlocks' : b \in CursorBlocks  BY <2>1, Zenon DEF CursorBlocks
  <2>7. \A b \in SavedBlocks' : b \in SavedBlocks  BY <2>1, Zenon DEF SavedBlocks
  <2>8. UNCHANGED <<chain, fork>>  BY <2>1
  <2>9. QED BY <2>3, <2>4, <2>5, <2>6, <2>7, <2>8, OneBatchKept, Zenon
<1>7. CASE OtherAccountStores
  <2>1. PICK h \in DOMAIN chain :
          blocks' = blocks \union {chain[h]} /\ (chain[h][2] > 0 => "branchStored" \in past')
    BY <1>7 DEF OtherAccountStores
  <2>2. account.trouble = "stores" /\ UNCHANGED <<chain, fork, ops, saved, cursors, tip>>
    BY <1>7 DEF OtherAccountStores, Trouble, chainVars, sessionVars, tipVars
  <2>3. chain[h][2] = 0
    <3>1. chain[h][2] \in Nat  BY ChainFacts, CursorFacts
    <3>2. ~(chain[h][2] > 0)  BY <1>1, <2>1, Zenon
    <3>3. QED BY <3>1, <3>2
  <2>4. \A b \in SavedBlocks : Kept(b)' => Kept(b)
    <3>1. \A b : OnChain(b)' => OnChain(b)  BY <2>2, Zenon DEF OnChain
    <3>2. OnChain(chain[h])  BY Zenon DEF OnChain
    <3>3. QED BY <1>1, <2>1, <2>2, <2>3, <3>1, <3>2, Zenon DEF Kept
  <2>5. (\A b \in blocks' : b \in blocks \/ Placed(b)') /\ \A b \in {tip'} : b = tip
    BY <2>1, <2>2, <2>3, Zenon DEF Placed
  <2>6. ops \subseteq ops' /\ \A o \in ops' : o \in ops  BY <2>2
  <2>7. \A b \in CursorBlocks' : b \in CursorBlocks  BY <2>2, Zenon DEF CursorBlocks
  <2>8. \A b \in SavedBlocks' : b \in SavedBlocks  BY <2>2, Zenon DEF SavedBlocks
  <2>9. UNCHANGED <<chain, fork>>  BY <2>2
  <2>10. QED BY <2>4, <2>5, <2>6, <2>7, <2>8, <2>9, OneBatchKept, Zenon
<1>8. CASE EndsSession
  <2>1. /\ UNCHANGED <<chain, fork, blocks, ops, saved>> /\ cursors' = <<>>
        /\ tip' = tip \/ tip' = NoBlock
    BY <1>8, EndFacts
  <2>2. DOMAIN cursors' = {}  BY <2>1
  <2>3. \A b \in CursorBlocks' : FALSE  BY <2>2, Zenon DEF CursorBlocks
  <2>4. \A b \in SavedBlocks' : b \in SavedBlocks  BY <2>1, Zenon DEF SavedBlocks
  <2>5. \A b \in SavedBlocks : Kept(b)' => Kept(b)  BY <1>3, <2>1
  <2>6. (\A b \in blocks' : b \in blocks) /\ \A b \in {tip'} : b = tip \/ Topmost(b)'  BY <1>2, <2>1, Zenon
  <2>7. ops \subseteq ops' /\ \A o \in ops' : o \in ops  BY <2>1
  <2>8. UNCHANGED <<chain, fork>>  BY <2>1
  <2>9. QED BY <2>3, <2>4, <2>5, <2>6, <2>7, <2>8, OneBatchKept, Zenon
<1>9. CASE Configure
  <2>1. account.trouble = "resize"  BY <1>9 DEF Configure, Trouble
  <2>2. QED BY <2>1, AccountFacts, Zenon DEF TypesInv
<1>10. CASE ObtainToken \/ StoreRecovered \/ StoreState
  <2>1. UNCHANGED <<chain, fork, blocks, ops, tip>> /\ (saved' = saved \/ saved' = cursors)
    BY <1>10 DEF ObtainToken, StoreRecovered, StoreState, chainVars, dbVars, tipVars
  <2>2. \A b \in CursorBlocks' : b \in CursorBlocks \/ b = NoBlock
    <3>1. CASE cursors' = cursors  BY <3>1, Zenon DEF CursorBlocks
    <3>2. CASE cursors' = Append(cursors, NoBlock)
      <4>1. cursors \in Seq(Cursors) /\ NoBlock \in Cursors  BY TypeFacts, CursorFacts
      <4>2. \A i \in DOMAIN cursors' : (i \in DOMAIN cursors /\ cursors'[i] = cursors[i]) \/ cursors'[i] = NoBlock
        BY <3>2, <4>1
      <4>3. QED BY <4>2, Zenon DEF CursorBlocks
    <3>3. cursors' = cursors \/ cursors' = Append(cursors, NoBlock)
      BY <1>10 DEF ObtainToken, StoreRecovered, StoreState, Enter
    <3>4. QED BY <3>1, <3>2, <3>3
  <2>3. \A b \in CursorBlocks' : b \in CursorBlocks \/ Ready(b)'
    BY <1>2, <2>2, Zenon DEF Ready, Covered
  <2>4. \A b \in SavedBlocks' : b \in SavedBlocks \/ b \in CursorBlocks
    BY <2>1, Zenon DEF SavedBlocks, CursorBlocks
  <2>5. \A b \in SavedBlocks : Kept(b)' => Kept(b)  BY <1>3, <2>1
  <2>6. (\A b \in blocks' : b \in blocks) /\ \A b \in {tip'} : b = tip  BY <2>1
  <2>7. ops \subseteq ops' /\ \A o \in ops' : o \in ops  BY <2>1
  <2>8. UNCHANGED <<chain, fork>>  BY <2>1
  <2>9. QED BY <2>3, <2>4, <2>5, <2>6, <2>7, <2>8, OneBatchKept, Zenon
<1>11. QED BY <1>4, <1>5, <1>6, <1>7, <1>8, <1>9, <1>10

\* A page makes its own blocks ready.
LEMMA OneBatchPage ==
  ASSUME TypesInv, TypesInv', Next, account.isETH, OneBatch, StorePage \/ StoreMempoolPage
  PROVE  OneBatch'
<1>1. /\ pc = "fetch" /\ UNCHANGED <<account, half, chain, fork, saved, tip>>
      /\ blocks' = blocks \union Fetched /\ ops \subseteq ops' /\ (\A o \in ops' : o \in ops \/ o[1] \in Fetched)
      /\ \A t \in Txs : t[1] \in Fetched /\ t[2] \in In(batch) => t \in ops'
      /\ DOMAIN cursors' = DOMAIN cursors
      /\ \A i \in DOMAIN cursors : cursors'[i] = cursors[i] \/ cursors'[i] \in Fetched
  BY PageStep, Zenon
<1>2. batch = 1 /\ CursorBlocks = {Here}  BY <1>1, OneCursor
<1>3. Covered(In(batch), Here)
  <2>1. Ready(Here)  BY <1>2, Zenon DEF OneBatch
  <2>2. QED BY <1>2, <2>1, Zenon DEF Ready
<1>4. \A b \in Fetched : Ready(b)'
  <2>1. In(1)' = In(1) /\ In(batch) = In(1)  BY <1>1, <1>2, ReadyKept, Zenon
  <2>2. \A b \in Fetched :
          \A t \in Txs : t[2] \in In(1) /\ (\E g \in DOMAIN chain : g < Height(b) /\ t[1] = chain[g]) => t \in ops'
    BY <1>3, <2>1, PageCovers, Zenon
  <2>3. Txs' = Txs  BY <1>1, Zenon DEF Txs
  <2>4. QED BY <1>1, <2>1, <2>2, <2>3, Zenon DEF Ready, Covered
<1>5. \A o \in ops' : o \in ops \/ Ready(o[1])'  BY <1>1, <1>4, Zenon
<1>6. \A b \in CursorBlocks' : b \in CursorBlocks \/ Ready(b)'
  <2>1. \A b \in CursorBlocks' : b \in CursorBlocks \/ b \in Fetched
    BY <1>1, Zenon DEF CursorBlocks
  <2>2. QED BY <1>4, <2>1, Zenon
<1>7. \A b \in SavedBlocks' : b \in SavedBlocks  BY <1>1, Zenon DEF SavedBlocks
<1>8. \A b \in SavedBlocks : Kept(b)' => Kept(b) \/ Ready(b)'
  <2>1. \A b : OnChain(b)' => OnChain(b)  BY <1>1, Zenon DEF OnChain
  <2>2. QED BY <1>1, <1>4, <2>1, Zenon DEF Kept
<1>9. (\A b \in blocks' : b \in blocks \/ Placed(b)') /\ \A b \in {tip'} : b = tip
  <2>1. ASSUME NEW b \in Fetched PROVE Placed(b)'
    <3>1. PICK a \in In(batch) : <<b, a>> \in Txs  BY <1>1, FetchedFacts, Zenon
    <3>2. <<b, a>>[1] = b /\ <<b, a>>[2] = a  OBVIOUS
    <3>3. <<b, a>> \in ops'  BY <1>1, <3>1, <3>2, Zenon
    <3>4. \E o \in ops' : o[1] = b  BY <3>2, <3>3, Zenon
    <3>5. QED BY <3>4, Zenon DEF Placed
  <2>2. QED BY <1>1, <2>1, Zenon
<1>10. UNCHANGED <<chain, fork>>  BY <1>1
<1>11. QED BY <1>1, <1>5, <1>6, <1>7, <1>8, <1>9, <1>10, OneBatchKept, Zenon

\* What a step that deletes the blocks from height h on owes it.
LEMMA OneBatchDeletes ==
  ASSUME TypesInv, TypesInv', Next, account.isETH, OneBatch, UNCHANGED <<chain, fork, saved, tip>>,
         NEW h \in Nat, DeleteFrom(h),
         \A b \in CursorBlocks' : Ready(b)',
         \A b \in SavedBlocks : Kept(b)' => b \in blocks' \/ Ready(b)'
  PROVE  OneBatch'
<1>1. account' = account  BY History
<1>2. /\ blocks' \subseteq blocks /\ ops' \subseteq ops
      /\ \A b \in blocks : b \in blocks' <=> Height(b) < h
      /\ \A o \in ops : o \in ops' <=> Height(o[1]) < h
  BY DeleteFacts, Zenon
<1>3. \A b \in blocks : b \in Cursors /\ Height(b) \in Nat  BY OpFacts, CursorFacts
<1>4. \A b \in blocks' : Ready(b) => Ready(b)'
  <2>1. ASSUME NEW b \in blocks', Ready(b) PROVE Ready(b)'
    <3>1. b \in Cursors /\ Height(b) \in Nat /\ Height(b) < h  BY <1>2, <1>3, <2>1
    <3>2. Height(b) <= h  BY <3>1
    <3>3. UNCHANGED chain  OBVIOUS
    <3>4. QED BY <1>1, <2>1, <3>1, <3>2, <3>3, ReadyKept, Zenon
  <2>2. QED BY <2>1
<1>5. \A o \in ops' : Ready(o[1])'
  <2>1. \A o \in ops : o[1] \in blocks  BY OpFacts
  <2>2. \A o \in ops' : o[1] \in blocks'  BY <1>2, <2>1, Zenon
  <2>3. QED BY <1>2, <1>4, <2>2, Zenon DEF OneBatch
<1>6. \A b \in SavedBlocks' : Kept(b)' => Ready(b)'
  <2>1. \A b \in SavedBlocks' : b \in SavedBlocks  BY Zenon DEF SavedBlocks
  <2>2. \A b \in blocks' : Kept(b)  BY <1>2, Zenon DEF Kept
  <2>3. QED BY <1>4, <2>1, <2>2, Zenon DEF OneBatch
<1>7. \A b \in Mentioned : Topmost(b) => Topmost(b)'
  <2>1. UNCHANGED <<chain, fork>>  OBVIOUS
  <2>2. QED BY <2>1, Origin, TopmostKept
<1>8. \A b \in blocks' : Placed(b)'
  <2>1. ASSUME NEW b \in blocks' PROVE Placed(b)'
    <3>1. b \in blocks  BY <1>2, <2>1
    <3>2. Placed(b) /\ b \in Mentioned  BY <3>1, Zenon DEF OneBatch, Mentioned
    <3>3. CASE b = NoBlock \/ b[2] = 0  BY <3>3, Zenon DEF Placed
    <3>4. CASE Topmost(b)  BY <3>2, <3>4, <1>7, Zenon DEF Placed
    <3>5. CASE \E o \in ops : o[1] = b
      BY <1>2, <2>1, <3>1, <3>5, Zenon DEF Placed
    <3>6. QED BY <3>2, <3>3, <3>4, <3>5, Zenon DEF Placed
  <2>2. QED BY <2>1
<1>9. \A b \in {tip'} : Topmost(b)'
  <2>1. tip \in Mentioned  BY DEF Mentioned
  <2>2. QED BY <1>7, <2>1, Zenon DEF OneBatch
<1>10. QED BY <1>5, <1>6, <1>8, <1>9, Zenon DEF OneBatch

\* Recovery falls back to a block that is ready.
LEMMA OneBatchRecover ==
  ASSUME TypesInv, TypesInv', Next, account.isETH, OneBatch, BlockNotFound \/ ServerError
  PROVE  OneBatch'
<1>1. Recover  BY DEF BlockNotFound, ServerError
<1>2. /\ pc = "fetch" /\ Here # NoBlock /\ Height(Here) \in Nat
      /\ UNCHANGED <<account, half, chain, fork, saved, tip>>
      /\ DeleteFrom(Height(Here)) /\ DOMAIN cursors' = DOMAIN cursors
  BY <1>1, RecoverFacts, Zenon DEF Here
<1>3. PICK b : /\ b \in Cursors /\ Known(b) /\ b \in blocks' \union {NoBlock}
               /\ \A i \in DOMAIN cursors : cursors'[i] = IF Height(cursors[i]) > Height(b) THEN b ELSE cursors[i]
  BY <1>1, RecoverFacts, Zenon DEF Here
<1>4. /\ blocks' \subseteq blocks /\ ops' \subseteq ops
      /\ \A x \in blocks : x \in blocks' <=> Height(x) < Height(Here)
      /\ \A o \in ops : o \in ops' <=> Height(o[1]) < Height(Here)
  BY <1>2, DeleteFacts, Zenon
<1>5. Here \in Cursors /\ Known(Here) /\ Here[2] \in Nat /\ Height(Here) # 0 /\ Here \in Mentioned /\ Ready(Here)
  <2>1. batch \in DOMAIN cursors /\ CursorBlocks = {Here}  BY <1>2, TypeFacts, OneCursor
  <2>2. Here \in Cursors /\ Known(Here)  BY <2>1, TypeFacts, KnownFacts DEF Here
  <2>3. Here \in Mentioned /\ Ready(Here)  BY <2>1, Zenon DEF OneBatch, Mentioned
  <2>4. QED BY <1>2, <2>2, <2>3, CursorFacts
<1>6. Height(b) < Height(Here) /\ Height(b) \in Nat /\ b[2] \in Nat
  <2>1. Height(b) \in Nat /\ b[2] \in Nat /\ (b = NoBlock => Height(b) = 0)  BY <1>3, CursorFacts
  <2>2. CASE b = NoBlock  BY <1>2, <1>5, <2>1, <2>2
  <2>3. CASE b \in blocks'  BY <1>4, <2>1, <2>3
  <2>4. QED BY <1>3, <2>2, <2>3
<1>7. \A c \in CursorBlocks' : c = b
  <2>1. \A i \in DOMAIN cursors : cursors[i] = Here
    BY <1>2, OneCursor DEF Here
  <2>2. Height(Here) > Height(b)  BY <1>2, <1>6
  <2>3. \A i \in DOMAIN cursors : cursors'[i] = b  BY <1>3, <2>1, <2>2, Zenon
  <2>4. QED BY <1>2, <2>3, Zenon DEF CursorBlocks
<1>8. Ready(b)'
  <2>1. CASE b = NoBlock  BY <1>2, <2>1, ReadyKept, Zenon
  <2>2. CASE \E o \in ops : o[1] = b
    <3>1. Ready(b)  BY <2>2, Zenon DEF OneBatch
    <3>2. Height(b) <= Height(Here)  BY <1>2, <1>6
    <3>3. UNCHANGED chain  BY <1>2
    <3>4. QED BY <1>2, <1>3, <3>1, <3>2, <3>3, ReadyKept, Zenon
  <2>3. CASE b[2] <= Here[2]
    <3>1. SUFFICES ASSUME NEW t \in Txs, t[2] \in In(1), NEW g \in DOMAIN chain,
                          g < Height(b), t[1] = chain[g], chain[g][2] <= b[2]
                   PROVE  t \in ops'
      <4>1. In(1)' = In(1) /\ Txs' = Txs /\ chain' = chain  BY <1>2, ReadyKept, Zenon DEF Txs
      <4>2. QED BY <4>1, Zenon DEF Ready, Covered
    <3>2. g \in Nat /\ chain[g][2] \in Nat /\ Height(t[1]) = g
      BY <3>1, ChainFacts, CursorFacts
    <3>3. g < Height(Here) /\ chain[g][2] <= Here[2]  BY <1>2, <1>5, <1>6, <2>3, <3>1, <3>2
    <3>4. t \in ops  BY <1>5, <3>1, <3>3, Zenon DEF Ready, Covered
    <3>5. QED BY <1>4, <3>2, <3>3, <3>4
  <2>4. CASE b \in blocks' /\ ~(b[2] <= Here[2])
    <3>1. Placed(b)  BY <1>4, <2>4, Zenon DEF OneBatch
    <3>2. b[2] # 0  BY <1>5, <1>6, <2>4
    <3>3. ~Topmost(b)
      <4>1. Height(Here) > Height(b) /\ ~(Here[2] >= b[2])  BY <1>2, <1>5, <1>6, <2>4
      <4>2. QED BY <1>5, <4>1, Zenon DEF Topmost
    <3>4. QED BY <2>1, <2>2, <3>1, <3>2, <3>3, Zenon DEF Placed
  <2>5. QED BY <1>3, <2>1, <2>3, <2>4
<1>9. \A c \in CursorBlocks' : Ready(c)'  BY <1>7, <1>8, Zenon
<1>10. \A s \in SavedBlocks : Kept(s)' => s \in blocks' \/ Ready(s)'
  <2>1. SUFFICES ASSUME NEW s \in SavedBlocks, Kept(s)', s \notin blocks' PROVE Ready(s)'  OBVIOUS
  <2>2. account.trouble = "stores" /\ s[2] = 0 /\ OnChain(s)
    <3>1. OnChain(s)' => OnChain(s)  BY <1>2, Zenon DEF OnChain
    <3>2. QED BY <1>2, <2>1, <3>1, Zenon DEF Kept
  <2>3. ~OnChain(Here)
    <3>1. ~ServerError  BY <2>2 DEF ServerError, Trouble
    <3>2. QED BY <3>1 DEF BlockNotFound, Here
  <2>4. Ready(s)  BY <2>2, Zenon DEF OneBatch, Kept
  <2>5. s \in Cursors /\ Height(s) \in Nat  BY MentionedFacts, CursorFacts DEF Mentioned
  <2>6. Height(s) <= Height(Here)
    <3>1. SUFFICES ASSUME Height(s) > Height(Here) PROVE FALSE  BY <1>2, <2>5
    <3>2. s # NoBlock  BY <1>2, <2>5, <3>1, CursorFacts
    <3>3. PICK k \in DOMAIN chain : chain[k] = s  BY <2>2, <3>2, Zenon DEF OnChain
    <3>4. k = Height(s)  BY <3>3, ChainFacts
    <3>5. Height(Here) \in DOMAIN chain /\ Here[2] <= chain[Height(Here)][2]  BY <1>2, <1>5 DEF Known
    <3>6. chain[Height(Here)][2] <= chain[k][2] /\ chain[Height(Here)][2] \in Nat
      BY <1>2, <2>5, <3>1, <3>3, <3>4, <3>5, ChainFacts, CursorFacts
    <3>7. Here[2] = 0 /\ chain[Height(Here)][2] = 0  BY <1>5, <2>2, <3>3, <3>5, <3>6
    <3>8. chain[Height(Here)] = <<Height(Here), 0>>
      <4>1. chain[Height(Here)] = <<Height(Here), chain[Height(Here)][2]>>  BY <3>5, ChainFacts
      <4>2. QED BY <3>7, <4>1
    <3>9. Here = <<Height(Here), 0>>
      <4>1. Here = <<Height(Here), Here[2]>>  BY <1>5, CursorFacts
      <4>2. QED BY <3>7, <4>1
    <3>10. OnChain(Here)  BY <3>5, <3>8, <3>9, Zenon DEF OnChain
    <3>11. QED BY <2>3, <3>10
  <2>7. UNCHANGED chain  BY <1>2
  <2>8. QED BY <1>2, <2>4, <2>5, <2>6, <2>7, ReadyKept, Zenon
<1>11. UNCHANGED <<chain, fork, saved, tip>>  BY <1>2
<1>12. QED BY <1>2, <1>9, <1>10, <1>11, OneBatchDeletes, Zenon

\* A deletion by another account while no session runs keeps what an account
\* of one batch relies on.
LEMMA OneBatchOther ==
  ASSUME TypesInv, TypesInv', Next, account.isETH, OneBatch, Settled', OtherAccountRecovers
  PROVE  OneBatch'
<1>1. account' = account /\ past' \intersect {"revived", "branchStored", "deletedLive"} = {}
  BY History, Zenon DEF Settled
<1>2. PICK h \in 1..MaxHeight : DeleteFrom(h)  BY DEF OtherAccountRecovers
<1>3. /\ account.trouble = "deletes" /\ (pc # "off" => "deletedLive" \in past')
      /\ UNCHANGED <<chain, fork, saved, tip, cursors>>
  BY DEF OtherAccountRecovers, Trouble, chainVars, sessionVars, tipVars
<1>4. h \in Nat  OBVIOUS
<1>5. \A b \in CursorBlocks' : FALSE
  <2>1. pc = "off"  BY <1>1, <1>3, Zenon
  <2>2. cursors = <<>>  BY <2>1, Zenon DEF TypesInv, SessionInv
  <2>3. DOMAIN cursors' = {}  BY <1>3, <2>2
  <2>4. QED BY <2>3, Zenon DEF CursorBlocks
<1>6. \A b \in SavedBlocks : Kept(b)' => b \in blocks'
  BY <1>1, <1>3, Zenon DEF Kept
<1>7. UNCHANGED <<chain, fork, saved, tip>>  BY <1>3
<1>8. QED BY <1>2, <1>4, <1>5, <1>6, <1>7, OneBatchDeletes, Zenon

\* What an account of one batch relies on holds in every behaviour.
LEMMA OneBatchNext ==
  ASSUME TypesInv, TypesInv', OneBatchInv, [Next]_vars
  PROVE  OneBatchInv'
<1>1. CASE UNCHANGED vars
  <2>1. UNCHANGED <<account, half, chain, fork, blocks, ops, saved, cursors, tip, past>>
    BY <1>1 DEF vars, chainVars, dbVars, sessionVars, tipVars, ghosts
  <2>2. Settled' = Settled  BY <2>1 DEF Settled
  <2>3. Mentioned' = Mentioned /\ CursorBlocks' = CursorBlocks /\ SavedBlocks' = SavedBlocks
    BY <2>1 DEF Mentioned, ChainBlocks, CursorBlocks, SavedBlocks
  <2>4. \A b : (Topmost(b)' <=> Topmost(b)) /\ (OnChain(b)' <=> OnChain(b))
    BY <2>1, <2>3, Zenon DEF Topmost, OnChain
  <2>5. \A b : (Placed(b)' <=> Placed(b)) /\ (Kept(b)' <=> Kept(b))
    BY <2>1, <2>4, Zenon DEF Placed, Kept
  <2>6. In(1)' = In(1) /\ Txs' = Txs  BY <2>1, Zenon DEF In, Txs
  <2>7. \A b : Ready(b)' <=> Ready(b)  BY <2>1, <2>6, Zenon DEF Ready, Covered
  <2>8. OneBatch => OneBatch'  BY <2>1, <2>3, <2>4, <2>5, <2>7, Zenon DEF OneBatch
  <2>9. QED BY <2>1, <2>2, <2>8, Zenon DEF OneBatchInv
<1>2. CASE Next
  <2>1. SUFFICES ASSUME account.isETH, Settled' PROVE OneBatch'
    BY History, Zenon DEF OneBatchInv
  <2>2. OneBatch  BY <2>1, History, Zenon DEF OneBatchInv
  <2>3. CASE NewBlock \/ \E h \in 1..MaxHeight : Reorganize(h)
    <3>1. Grows /\ ChainChanged
      <4>1. CASE NewBlock  BY <4>1, NewBlockGrows, Zenon DEF NewBlock
      <4>2. CASE \E h \in 1..MaxHeight : Reorganize(h)
        BY <4>2, ReorganizeGrows, Zenon DEF Reorganize
      <4>3. QED BY <2>3, <4>1, <4>2
    <3>2. QED BY <1>2, <2>1, <2>2, <3>1, OneBatchChain
  <2>4. CASE StorePage \/ StoreMempoolPage  BY <1>2, <2>1, <2>2, <2>4, OneBatchPage
  <2>5. CASE BlockNotFound \/ ServerError  BY <1>2, <2>1, <2>2, <2>5, OneBatchRecover
  <2>6. CASE OtherAccountRecovers  BY <1>2, <2>1, <2>2, <2>6, OneBatchOther
  <2>7. CASE \/ Start \/ FetchTip \/ PutTip \/ OtherAccountStores \/ EndsSession \/ Configure
             \/ ObtainToken \/ StoreRecovered \/ StoreState
    BY <1>2, <2>1, <2>2, <2>7, OneBatchAround
  <2>8. QED BY <1>2, <2>3, <2>4, <2>5, <2>6, <2>7, Steps, Zenon
<1>3. QED BY <1>1, <1>2

---------------------------------------------------------------------------
(* An account of several batches skips no transaction.                     *)

\* Without a reorganization, everything known is on the chain.
LEMMA OneBranch ==
  ASSUME TypesInv, fork = 0
  PROVE  /\ \A b \in Cursors : Known(b) => OnChain(b)
         /\ \A b \in Cursors : Known(b) /\ b # NoBlock => Height(b) \in DOMAIN chain /\ chain[Height(b)] = b
         /\ \A h \in DOMAIN chain : chain[h][2] = 0
<1>1. \A h \in DOMAIN chain : chain[h][2] = 0 /\ chain[h] = <<h, chain[h][2]>>  BY ChainFacts
<1>2. ASSUME NEW b \in Cursors, Known(b), b # NoBlock
      PROVE  Height(b) \in DOMAIN chain /\ chain[Height(b)] = b
  <2>1. Height(b) \in DOMAIN chain /\ b[2] <= chain[Height(b)][2]  BY <1>2 DEF Known
  <2>2. b = <<Height(b), b[2]>> /\ b[2] \in Nat  BY <1>2, CursorFacts
  <2>3. b[2] = 0  BY <1>1, <2>1, <2>2
  <2>4. QED BY <1>1, <2>1, <2>2, <2>3
<1>3. ASSUME NEW b \in Cursors, Known(b) PROVE OnChain(b)
  BY <1>2, <1>3, Zenon DEF OnChain
<1>4. QED BY <1>1, <1>2, <1>3, Zenon

\* Nothing is before the genesis.
LEMMA NothingBefore ==
  ASSUME TypesInv, TypesInv'
  PROVE  \A A : Covered(A, NoBlock) /\ Covered(A, NoBlock)'
<1>1. \A h \in DOMAIN chain : ~(h < Height(NoBlock))  BY ChainFacts, CursorFacts
<1>2. \A h \in DOMAIN chain' : ~(h < Height(NoBlock))
  <2>1. chain' \in Seq(Blocks)  BY Zenon DEF TypesInv, TypeOK
  <2>2. DOMAIN chain' = 1..Len(chain') /\ Len(chain') \in Nat  BY <2>1
  <2>3. QED BY <2>2, CursorFacts
<1>3. QED BY <1>1, <1>2, Zenon DEF Covered

\* What batches have stored, and why their last cursor moved, is kept by a
\* step that deletes nothing.
LEMMA StoredKept ==
  ASSUME TypesInv, TypesInv', account' = account, fork' = 0, Grows \/ UNCHANGED <<chain, fork>>,
         ops \subseteq ops', blocks \subseteq blocks'
  PROVE  \A s \in Seq(Cursors) : (\A i \in DOMAIN s : Known(s[i])) =>
           \A n : (Stored(s, n) => Stored(s, n)') /\ (Moved(s, n) => Moved(s, n)')
<1>1. \A A : \A b \in Cursors : Known(b) /\ Covered(A, b) => Covered(A, b)'  BY CoveredGrows
<1>2. \A h \in DOMAIN chain : h \in DOMAIN chain' /\ chain'[h] = chain[h]
  <2>1. CASE UNCHANGED <<chain, fork>>  BY <2>1
  <2>2. CASE Grows
    <3>1. fork \in Nat /\ Len(chain) \in Nat /\ DOMAIN chain = 1..Len(chain)  BY ChainFacts, BoundsAssumption
    <3>2. chain' \in Seq(Blocks) /\ Len(chain') >= Len(chain)  BY <2>2, Zenon DEF Grows
    <3>3. \A h \in DOMAIN chain : h \in DOMAIN chain'  BY <3>1, <3>2
    <3>4. ~(fork' > fork)  BY <3>1
    <3>5. QED BY <2>2, <3>3, <3>4, Zenon DEF Grows
  <2>3. QED BY <2>1, <2>2
<1>3. ASSUME NEW s \in Seq(Cursors), \A i \in DOMAIN s : Known(s[i]), NEW n, Stored(s, n)
      PROVE  Stored(s, n)'
  <2>1. ASSUME NEW i \in DOMAIN s PROVE Covered(Of(n, i), s[i])' /\ s[i] \in blocks' \union {NoBlock}
    <3>1. s[i] \in Cursors  BY <1>3, <2>1
    <3>2. Known(s[i]) /\ Covered(Of(n, i), s[i]) /\ s[i] \in blocks \union {NoBlock}
      BY <1>3, <2>1, Zenon DEF Stored
    <3>3. QED BY <1>1, <3>1, <3>2
  <2>2. QED BY <2>1, Zenon DEF Stored
<1>4. ASSUME NEW s \in Seq(Cursors), NEW n, Moved(s, n) PROVE Moved(s, n)'
  BY <1>2, <1>4, Zenon DEF Moved, Txs
<1>5. QED BY <1>3, <1>4, Zenon

\* A session that has not begun has nothing to have stored.
LEMMA NothingStored ==
  ASSUME TypesInv, TypesInv'
  PROVE  /\ \A n : Stored(<<>>, n)' /\ Moved(<<>>, n)'
         /\ \A s \in Seq(Cursors) : (\A i \in DOMAIN s : s[i] = NoBlock) => \A n : Stored(s, n)' /\ Moved(s, n)'
<1>1. \A s \in Seq(Cursors) : s # <<>> => Len(s) \in DOMAIN s  OBVIOUS
<1>2. ASSUME NEW s \in Seq(Cursors), \A i \in DOMAIN s : s[i] = NoBlock, NEW n PROVE Stored(s, n)' /\ Moved(s, n)'
  <2>1. s # <<>> => s[Len(s)] = NoBlock  BY <1>1, <1>2
  <2>2. Moved(s, n)'  BY <2>1, Zenon DEF Moved
  <2>3. ASSUME NEW i \in DOMAIN s PROVE Covered(Of(n, i), s[i])' /\ s[i] \in blocks' \union {NoBlock}
    <3>1. s[i] = NoBlock  BY <1>2, <2>3
    <3>2. Covered(Of(n, i), NoBlock)'  BY NothingBefore, Zenon
    <3>3. QED BY <3>1, <3>2
  <2>4. QED BY <2>2, <2>3, Zenon DEF Stored
<1>3. <<>> \in Seq(Cursors) /\ \A i \in DOMAIN <<>> : FALSE  OBVIOUS
<1>4. QED BY <1>2, <1>3, Zenon

\* The assumptions of the lemmas about an account of several batches.
Several == TypesInv /\ TypesInv' /\ Next /\ ~account.isETH /\ Settled' /\ Batches

\* What is true of an account of several batches before and after a step.
LEMMA SeveralFacts ==
  ASSUME Several
  PROVE  /\ account' = account /\ fork = 0 /\ fork' = 0 /\ past \subseteq past'
         /\ "torn" \notin past' /\ "deleted" \notin past' /\ "resizedEarly" \notin past'
         /\ cursors \in Seq(Cursors) /\ saved \in Seq(Cursors)
         /\ \A i \in DOMAIN cursors : Known(cursors[i])
         /\ \A i \in DOMAIN saved : Known(saved[i])
<1>1. account' = account /\ past \subseteq past' /\ Settled  BY History, Zenon DEF Several
<1>2. /\ fork = 0 /\ fork' = 0
      /\ past' \intersect {"torn", "deleted", "resizedEarly"} = {}
  BY <1>1, Zenon DEF Several, Settled
<1>3. "torn" \notin past' /\ "deleted" \notin past' /\ "resizedEarly" \notin past'  BY <1>2
<1>4. QED BY <1>1, <1>2, <1>3, TypeFacts, KnownFacts, Zenon DEF Several

\* Steps that leave its operations and cursors alone keep what an account of
\* several batches relies on.
LEMMA BatchesAround ==
  ASSUME Several, NewBlock \/ FetchTip \/ PutTip \/ OtherAccountStores \/ Configure
  PROVE  Batches'
<1>1. TypesInv /\ TypesInv' /\ Batches  BY DEF Several
<1>2. Grows \/ UNCHANGED <<chain, fork>>
  <2>1. CASE NewBlock  BY <1>1, <2>1, NewBlockGrows
  <2>2. CASE FetchTip \/ PutTip \/ OtherAccountStores \/ Configure
    BY <2>2 DEF FetchTip, PutTip, OtherAccountStores, Configure, chainVars
  <2>3. QED BY <2>1, <2>2
<1>3. ops \subseteq ops' /\ blocks \subseteq blocks'
  BY DEF NewBlock, ChainChanged, FetchTip, PutTip, OtherAccountStores, Configure, dbVars
<1>4. UNCHANGED <<cursors, saved, savedHalf, pc, batch, had>> /\ (half' = half \/ pc = "off")
  BY DEF NewBlock, ChainChanged, FetchTip, PutTip, OtherAccountStores, Configure, dbVars, sessionVars
<1>5. \A s \in Seq(Cursors) : (\A i \in DOMAIN s : Known(s[i])) =>
        \A n : (Stored(s, n) => Stored(s, n)') /\ (Moved(s, n) => Moved(s, n)')
  BY <1>1, <1>2, <1>3, SeveralFacts, StoredKept, Zenon
<1>6. \A s \in {saved'}, n \in {savedHalf'} : Moved(s, n)' /\ (pc' # "recovered" => Stored(s, n)')
  BY <1>1, <1>4, <1>5, SeveralFacts, Zenon DEF Batches
<1>7. \A s \in {cursors'}, n \in {half'} : Stored(s, n)' /\ Moved(s, n)'
  <2>1. CASE half' = half  BY <1>1, <1>4, <1>5, <2>1, SeveralFacts, Zenon DEF Batches
  <2>2. CASE pc = "off"
    <3>1. cursors' = <<>>  BY <1>1, <1>4, <2>2, Zenon DEF TypesInv, SessionInv
    <3>2. QED BY <1>1, <3>1, NothingStored, Zenon
  <2>3. QED BY <1>4, <2>1, <2>2
<1>8. past \subseteq past'  BY SeveralFacts
<1>9. QED BY <1>1, <1>4, <1>6, <1>7, <1>8, Zenon DEF Batches

\* When every saved block is in the database, the saved cursors are the ones
\* of the session; another size starts over.
LEMMA BatchesStart ==
  ASSUME Several, Start
  PROVE  Batches'
<1>1. TypesInv /\ TypesInv' /\ Batches  BY DEF Several
<1>2. /\ pc = "off" /\ pc' = "token" /\ UNCHANGED <<chain, fork, blocks, ops, saved, savedHalf, half>>
      /\ past' = IF saved # <<>> /\ savedHalf # half /\ "failed" \in past
                 THEN past \union {"resizedEarly"} ELSE past
  BY <1>1, StartFacts, Zenon
<1>3. \A s \in {saved}, n \in {savedHalf} : Moved(s, n) /\ Stored(s, n)
  BY <1>1, <1>2, Zenon DEF Batches
<1>4. \A s \in Seq(Cursors) : (\A i \in DOMAIN s : Known(s[i])) =>
        \A n : (Stored(s, n) => Stored(s, n)') /\ (Moved(s, n) => Moved(s, n)')
  <2>1. UNCHANGED <<chain, fork>> /\ ops \subseteq ops' /\ blocks \subseteq blocks'  BY <1>2
  <2>2. QED BY <1>1, <2>1, SeveralFacts, StoredKept, Zenon
<1>5. \A s \in {saved}, n \in {savedHalf} : Moved(s, n)' /\ Stored(s, n)'
  BY <1>3, <1>4, SeveralFacts, Zenon
<1>6. PICK b \in Cursors : 
        \/ (saved = <<>> \/ savedHalf = half) /\ cursors' = CheckReorganization(b)
        \/ saved # <<>> /\ savedHalf # half /\ cursors' \in Resized(CheckReorganization(b), savedHalf)
  BY <1>1, StartFacts, Zenon
<1> DEFINE state == CheckReorganization(b)
<1>7. state = saved
  <2>1. \A i \in DOMAIN saved : saved[i] \in blocks \/ saved[i] = NoBlock
    <3>1. PICK s : s = saved  OBVIOUS
    <3>2. \A i \in DOMAIN s : s[i] \in blocks \union {NoBlock}  BY <1>3, <3>1, Zenon DEF Stored
    <3>3. QED BY <3>1, <3>2
  <2>2. \A j \in Failed : j \in DOMAIN saved /\ saved[j] \notin blocks  BY Zenon DEF Failed
  <2>3. \A i : ~Restarts(i)  BY <2>1, <2>2, Zenon DEF Restarts
  <2>4. /\ state \in Seq(Cursors) /\ Len(state) = Len(saved) /\ DOMAIN state = DOMAIN saved
        /\ \A i \in DOMAIN saved : state[i] = IF Restarts(i) THEN b ELSE saved[i]
    BY <1>1, CheckFacts, Zenon
  <2> HIDE DEF state
  <2>5. \A i \in DOMAIN saved : state[i] = saved[i]  BY <2>3, <2>4, Zenon
  <2>6. saved \in Seq(Cursors)  BY SeveralFacts
  <2>7. \A s, t \in Seq(Cursors) : Len(s) = Len(t) /\ (\A i \in DOMAIN t : s[i] = t[i]) => s = t  OBVIOUS
  <2>8. QED BY <2>4, <2>5, <2>6, <2>7, Zenon
<1>8. "failed" \notin past /\ saved # <<>> => saved[Len(saved)] = NoBlock
  BY <1>1, <1>2, Zenon DEF Batches
<1> HIDE DEF state
<1>9. \A s \in {cursors'}, n \in {half'} : Stored(s, n)' /\ Moved(s, n)'
  <2>1. CASE saved = <<>> /\ cursors' = state
    BY <1>1, <1>7, <2>1, NothingStored, Zenon
  <2>2. CASE savedHalf = half /\ cursors' = state
    BY <1>2, <1>5, <1>7, <2>2, Zenon
  <2>3. CASE saved # <<>> /\ savedHalf # half /\ cursors' \in Resized(state, savedHalf)
    <3>1. "failed" \notin past
      <4>1. "resizedEarly" \notin past'  BY SeveralFacts
      <4>2. QED BY <1>2, <2>3, <4>1
    <3>2. saved[Len(saved)] = NoBlock /\ Len(saved) \in DOMAIN saved
      BY <1>1, <1>8, <2>3, <3>1, TypeFacts
    <3>3. savedHalf \in Sizes  BY <1>1, <2>3, Zenon DEF TypesInv, SessionInv
    <3>4. cursors' \in Resized(saved, savedHalf) /\ saved \in Seq(Cursors)
      BY <1>7, <2>3, SeveralFacts
    <3>5. /\ cursors' \in Seq(Cursors)
          /\ \E d \in Lowest(saved) : \A i \in DOMAIN cursors' : cursors'[i] = d
          /\ Lowest(saved) \subseteq {saved[j] : j \in DOMAIN saved}
      BY ONLY <1>1, <3>3, <3>4, ResizedFacts
    <3>6. \A d \in Lowest(saved) : d = NoBlock
      <4>1. ASSUME NEW j \in DOMAIN saved,
                   \A k \in DOMAIN saved : \/ Height(saved[j]) < Height(saved[k])
                                           \/ Height(saved[j]) = Height(saved[k]) /\ j <= k
            PROVE  saved[j] = NoBlock
        <5>1. saved[j] \in Cursors /\ Height(NoBlock) = 0  BY <1>1, <4>1, TypeFacts, CursorFacts
        <5>2. Height(saved[j]) < 0 \/ Height(saved[j]) = 0  BY <3>2, <4>1, <5>1
        <5>3. QED BY <5>1, <5>2, CursorFacts
      <4>2. QED BY <4>1, Zenon DEF Lowest
    <3>7. \A i \in DOMAIN cursors' : cursors'[i] = NoBlock  BY <3>5, <3>6, Zenon
    <3>8. QED BY <1>1, <3>5, <3>7, NothingStored, Zenon
  <2>4. QED BY <1>6, <2>1, <2>2, <2>3, Zenon DEF state
<1>10. \A s \in {saved'}, n \in {savedHalf'} : Moved(s, n)' /\ Stored(s, n)'
  BY <1>2, <1>5, Zenon
<1>11. "failed" \notin past' => "failed" \notin past  BY <1>2
<1>12. pc' = "token" /\ saved' = saved  BY <1>2
<1>13. pc' # "store" /\ pc' # "kill"  BY <1>2
<1>14. QED BY <1>8, <1>9, <1>10, <1>11, <1>12, <1>13, Zenon DEF Batches

\* A new batch resumes at the genesis.
LEMMA BatchesEnter ==
  ASSUME Several, ObtainToken \/ StoreRecovered \/ StoreState
  PROVE  Batches'
<1>1. TypesInv /\ TypesInv' /\ Batches  BY DEF Several
<1>2. /\ UNCHANGED <<chain, fork, blocks, ops, half, past>>
      /\ \/ saved' = saved /\ savedHalf' = savedHalf /\ pc # "recovered"
         \/ saved' = cursors /\ savedHalf' = half
  BY DEF ObtainToken, StoreRecovered, StoreState, chainVars, dbVars, ghosts
<1>3. \/ pc' = "fetch" /\ (cursors' = cursors \/ cursors' = Append(cursors, NoBlock))
      \/ pc = "store" /\ pc' = "kill" /\ ~More /\ UNCHANGED <<cursors, batch, done, had>>
  BY DEF ObtainToken, StoreRecovered, StoreState, Enter
<1>4. \A s \in Seq(Cursors) : (\A i \in DOMAIN s : Known(s[i])) =>
        \A n : (Stored(s, n) => Stored(s, n)') /\ (Moved(s, n) => Moved(s, n)')
  <2>1. UNCHANGED <<chain, fork>> /\ ops \subseteq ops' /\ blocks \subseteq blocks'  BY <1>2
  <2>2. QED BY <1>1, <2>1, SeveralFacts, StoredKept, Zenon
<1>5. \A s \in {cursors}, n \in {half} : Stored(s, n)' /\ Moved(s, n)'
  BY <1>1, <1>4, SeveralFacts, Zenon DEF Batches
<1>6. \A s \in {saved'}, n \in {savedHalf'} : Stored(s, n)' /\ Moved(s, n)'
  <2>1. CASE saved' = saved /\ savedHalf' = savedHalf /\ pc # "recovered"
    BY <1>1, <1>4, <2>1, SeveralFacts, Zenon DEF Batches
  <2>2. QED BY <1>2, <1>5, <2>1, Zenon
<1>7. \A s \in {cursors'}, n \in {half'} : Stored(s, n)' /\ Moved(s, n)'
  <2>1. CASE cursors' = cursors  BY <1>2, <1>5, <2>1, Zenon
  <2>2. CASE cursors' = Append(cursors, NoBlock)
    <3>1. ASSUME NEW s, s = Append(cursors, NoBlock), NEW n, n = half PROVE Stored(s, n)' /\ Moved(s, n)'
      <4>1. cursors \in Seq(Cursors) /\ NoBlock \in Cursors  BY SeveralFacts, CursorFacts
      <4>2. /\ s # <<>> /\ s[Len(s)] = NoBlock
            /\ \A i \in DOMAIN s : (i \in DOMAIN cursors /\ s[i] = cursors[i]) \/ s[i] = NoBlock
        BY <3>1, <4>1
      <4>3. Moved(s, n)'  BY <4>2, Zenon DEF Moved
      <4>4. ASSUME NEW i \in DOMAIN s PROVE Covered(Of(n, i), s[i])' /\ s[i] \in blocks' \union {NoBlock}
        <5>1. CASE i \in DOMAIN cursors /\ s[i] = cursors[i]
          <6>1. PICK c : c = cursors  OBVIOUS
          <6>2. Stored(c, n)'  BY <1>5, <3>1, <6>1
          <6>3. Covered(Of(n, i), c[i])' /\ c[i] \in blocks' \union {NoBlock}
            BY <5>1, <6>1, <6>2, Zenon DEF Stored
          <6>4. s[i] = c[i]  BY <5>1, <6>1
          <6>5. QED BY <6>3, <6>4
        <5>2. CASE s[i] = NoBlock
          <6>1. Covered(Of(n, i), NoBlock)'  BY <1>1, NothingBefore, Zenon
          <6>2. QED BY <5>2, <6>1
        <5>3. QED BY <4>2, <5>1, <5>2
      <4>5. QED BY <4>3, <4>4, Zenon DEF Stored
    <3>2. QED BY <1>2, <2>2, <3>1, Zenon
  <2>3. QED BY <1>3, <2>1, <2>2
<1>8. pc' = "kill" => batch' = Len(cursors') /\ batch' >= 2 /\ cursors'[batch'] = NoBlock
  <2>1. SUFFICES ASSUME pc = "store", ~More, UNCHANGED <<cursors, batch, done, had>>
                 PROVE  batch = Len(cursors) /\ batch >= 2 /\ cursors[batch] = NoBlock
    BY <1>3, Zenon
  <2>2. done /\ ~had /\ batch # 1  BY <2>1 DEF More, Several
  <2>3. batch \in DOMAIN cursors /\ batch \in Nat \ {0} /\ DOMAIN cursors = 1..Len(cursors) /\ Len(cursors) \in Nat
    BY <1>1, <2>1, TypeFacts
  <2>4. ~(batch < Len(cursors))  BY <1>1, <2>1, <2>2, Zenon DEF TypesInv, SessionInv
  <2>5. batch = Len(cursors) /\ batch >= 2  BY <2>2, <2>3, <2>4
  <2>6. cursors[batch] = NoBlock  BY <1>1, <2>1, <2>2, <2>5, Zenon DEF Batches
  <2>7. QED BY <2>5, <2>6
<1>9. pc' # "off" /\ pc' # "token" /\ pc' # "store" /\ pc' # "recovered"  BY <1>3
<1>10. QED BY <1>6, <1>7, <1>8, <1>9, Zenon DEF Batches

\* A page moves the cursor of its batch to a transaction of the batch; an
\* empty last batch leaves it at the genesis.
LEMMA BatchesPage ==
  ASSUME Several, StorePage \/ StoreMempoolPage
  PROVE  Batches'
<1>1. TypesInv /\ TypesInv' /\ Batches  BY DEF Several
<1>2. /\ pc = "fetch" /\ batch \in DOMAIN cursors /\ batch \in Nat \ {0} /\ Here \in Cursors
      /\ UNCHANGED <<account, half, chain, fork, saved, savedHalf, batch>>
      /\ blocks' = blocks \union Fetched /\ ops \subseteq ops'
      /\ pc' \in {"fetch", "store"} /\ (pc' = "store" => ~HasNext(batch, Here))
      /\ DOMAIN cursors' = DOMAIN cursors /\ Len(cursors') = Len(cursors)
      /\ \A i \in DOMAIN cursors : cursors'[i] = cursors[i] \/ (i = batch /\ cursors'[i] \in Fetched)
      /\ ~had' => ~had /\ Fetched = {} /\ cursors' = cursors
  BY <1>1, PageStep, Zenon
<1>3. \A s \in Seq(Cursors) : (\A i \in DOMAIN s : Known(s[i])) =>
        \A n : (Stored(s, n) => Stored(s, n)') /\ (Moved(s, n) => Moved(s, n)')
  <2>1. UNCHANGED <<chain, fork>> /\ ops \subseteq ops' /\ blocks \subseteq blocks'  BY <1>2
  <2>2. QED BY <1>1, <2>1, SeveralFacts, StoredKept, Zenon
<1>4. \A s \in {saved'}, n \in {savedHalf'} : Stored(s, n)' /\ Moved(s, n)'
  <2>1. pc # "recovered"  BY <1>2
  <2>2. QED BY <1>1, <1>2, <1>3, <2>1, SeveralFacts, Zenon DEF Batches
<1>5. PICK c : c = cursors  OBVIOUS
<1>6. PICK n : n = half  OBVIOUS
<1>7. PICK s : s = cursors'  OBVIOUS
<1>8. Stored(c, n) /\ Moved(c, n) /\ Stored(c, n)' /\ Moved(c, n)'
  BY <1>1, <1>3, <1>5, <1>6, SeveralFacts, Zenon DEF Batches
<1>9. Of(n, batch) = In(batch)  BY <1>6 DEF Of, In
<1>10. Covered(In(batch), Here)
  <2>1. Covered(Of(n, batch), c[batch])  BY <1>2, <1>5, <1>8, Zenon DEF Stored
  <2>2. QED BY <1>5, <1>9, <2>1 DEF Here
<1>11. ASSUME NEW b \in Fetched, NEW A, A = In(batch) PROVE Covered(A, b)'
  <2>1. \A t \in Txs : t[2] \in A /\ (\E g \in DOMAIN chain : g < Height(b) /\ t[1] = chain[g]) => t \in ops'
    BY <1>1, <1>10, <1>11, PageCovers, Zenon
  <2>2. Txs' = Txs  BY <1>2, Zenon DEF Txs
  <2>3. QED BY <1>2, <2>1, <2>2, Zenon DEF Covered
<1>12. Stored(s, n)'
  <2>1. ASSUME NEW i \in DOMAIN s PROVE Covered(Of(n, i), s[i])' /\ s[i] \in blocks' \union {NoBlock}
    <3>1. i \in DOMAIN cursors /\ (s[i] = c[i] \/ (i = batch /\ s[i] \in Fetched))
      BY <1>2, <1>5, <1>7, <2>1, Zenon
    <3>2. CASE s[i] = c[i]
      <4>1. Covered(Of(n, i), c[i])' /\ c[i] \in blocks' \union {NoBlock}
        BY <1>5, <1>8, <3>1, Zenon DEF Stored
      <4>2. QED BY <3>2, <4>1
    <3>3. CASE i = batch /\ s[i] \in Fetched
      <4>1. Of(n, i) = In(batch)  BY <1>9, <3>3
      <4>2. Covered(Of(n, i), s[i])'  BY <1>11, <3>3, <4>1
      <4>3. QED BY <1>2, <3>3, <4>2
    <3>4. QED BY <3>1, <3>2, <3>3
  <2>2. QED BY <2>1, Zenon DEF Stored
<1>13. Moved(s, n)'
  <2>1. s # <<>> /\ Len(s) = Len(c) /\ Len(s) \in DOMAIN s /\ c # <<>>
    <3>1. cursors \in Seq(Cursors) /\ cursors' \in Seq(Cursors)  BY <1>1, TypeFacts, Zenon DEF TypesInv, TypeOK
    <3>2. cursors # <<>> /\ cursors' # <<>> /\ Len(cursors') \in DOMAIN cursors'  BY <1>2, <3>1
    <3>3. QED BY <1>2, <1>5, <1>7, <3>2
  <2>2. CASE s[Len(s)] = c[Len(c)]
    BY <1>8, <2>1, <2>2, Zenon DEF Moved
  <2>3. CASE Len(s) = batch /\ s[Len(s)] \in Fetched
    <3>1. PICK h \in DOMAIN chain, a \in In(batch) :
            s[Len(s)] = chain[h] /\ Height(s[Len(s)]) = h /\ <<chain[h], a>> \in Txs
      BY <1>1, <1>2, <2>3, FetchedFacts, Zenon
    <3>2. <<chain[h], a>>[1] = chain[h] /\ <<chain[h], a>>[2] = a  OBVIOUS
    <3>3. h >= Height(s[Len(s)])
      <4>1. h \in Nat  BY <1>1, ChainFacts
      <4>2. QED BY <3>1, <4>1
    <3>4. a \in Of(n, Len(s))  BY <1>9, <2>3, <3>1
    <3>5. \E t \in Txs : t[1] = chain[h] /\ t[2] \in Of(n, Len(s))
      BY <3>1, <3>2, <3>4, Zenon
    <3>6. Txs' = Txs /\ chain' = chain  BY <1>2, Zenon DEF Txs
    <3>7. QED BY <3>3, <3>5, <3>6, Zenon DEF Moved
  <2>4. Len(s) \in DOMAIN cursors  BY <1>2, <1>7, <2>1
  <2>5. QED BY <1>2, <1>5, <1>7, <2>1, <2>2, <2>3, <2>4, Zenon
<1>14. pc' = "store" /\ batch' = Len(cursors') /\ ~had' => cursors'[batch'] = NoBlock
  <2>1. SUFFICES ASSUME pc' = "store", batch = Len(cursors), Fetched = {}, ~HasNext(batch, Here)
                 PROVE  Here = NoBlock
    BY <1>2, Zenon DEF Here
  <2>2. c # <<>> /\ c[Len(c)] = Here /\ Len(c) = batch
    <3>1. cursors # <<>>  BY <1>1, <1>2, TypeFacts
    <3>2. QED BY <1>5, <2>1, <3>1 DEF Here
  <2>3. \A h \in DOMAIN chain, a \in In(batch) : ~(h >= Height(Here) /\ <<chain[h], a>> \in Txs)
    <3>1. \A h \in Matching(batch, Here) : chain[h] \in Fetched  BY <1>1, <2>1, LowestFirst, Zenon DEF Fetched
    <3>2. Matching(batch, Here) = {}  BY <2>1, <3>1
    <3>3. QED BY <1>1, <3>2, MatchingFacts, Zenon
  <2>4. ASSUME NEW t \in Txs, NEW g \in DOMAIN chain, t[2] \in Of(n, Len(c)), t[1] = chain[g], g >= Height(Here)
        PROVE  FALSE
    <3>1. t = <<t[1], t[2]>>  BY <1>1, OpFacts
    <3>2. t[2] \in In(batch)  BY <1>9, <2>2, <2>4
    <3>3. <<chain[g], t[2]>> \in Txs  BY <2>4, <3>1
    <3>4. QED BY <2>3, <2>4, <3>2, <3>3
  <2>5. QED BY <1>8, <2>2, <2>4, Zenon DEF Moved
<1>15. \A x \in {cursors'}, m \in {half'} : Stored(x, m)' /\ Moved(x, m)'
  BY <1>2, <1>6, <1>7, <1>12, <1>13, Zenon
<1>16. pc' # "off" /\ pc' # "token" /\ pc' # "kill"  BY <1>2
<1>17. QED BY <1>4, <1>14, <1>15, <1>16, Zenon DEF Batches

\* Only an error makes such an account recover; its cursors go back to a block
\* below them.
LEMMA BatchesRecover ==
  ASSUME Several, BlockNotFound \/ ServerError
  PROVE  Batches' /\ ServerError
<1>1. TypesInv /\ TypesInv' /\ Batches  BY DEF Several
<1>2. Recover  BY DEF BlockNotFound, ServerError
<1>3. /\ pc = "fetch" /\ pc' = "recovered" /\ Here # NoBlock /\ Height(Here) \in Nat
      /\ UNCHANGED <<account, half, chain, fork, saved, savedHalf>>
      /\ DeleteFrom(Height(Here))
      /\ DOMAIN cursors' = DOMAIN cursors /\ Len(cursors') = Len(cursors)
  BY <1>1, <1>2, RecoverFacts, Zenon DEF Here
<1>4. PICK b : /\ b \in Cursors /\ b \in blocks' \union {NoBlock}
               /\ \A x \in blocks' : Height(x) <= Height(b)
               /\ \A i \in DOMAIN cursors : cursors'[i] = IF Height(cursors[i]) > Height(b) THEN b ELSE cursors[i]
  BY <1>1, <1>2, RecoverFacts, Zenon DEF Here
<1>5. /\ blocks' \subseteq blocks
      /\ \A x \in blocks : x \in blocks' <=> Height(x) < Height(Here)
      /\ \A o \in ops : o \in ops' <=> Height(o[1]) < Height(Here)
  BY <1>1, <1>3, DeleteFacts, Zenon
<1>6. ServerError
  <2>1. batch \in DOMAIN cursors  BY <1>1, <1>3, TypeFacts
  <2>2. Here \in Cursors /\ Known(Here)  BY <1>1, <2>1, TypeFacts, SeveralFacts DEF Here
  <2>3. fork = 0  BY SeveralFacts
  <2>4. OnChain(Here)  BY <1>1, <2>2, <2>3, OneBranch
  <2>5. QED BY <2>4 DEF BlockNotFound, Here
<1>7. Height(b) < Height(Here) /\ Height(b) \in Nat
  <2>1. Height(b) \in Nat /\ (b = NoBlock => Height(b) = 0)  BY <1>4, CursorFacts
  <2>2. Height(Here) # 0
    <3>1. Here \in Cursors  BY <1>1, <1>3, TypeFacts DEF Here
    <3>2. QED BY <1>3, <3>1, CursorFacts
  <2>3. CASE b = NoBlock  BY <1>3, <2>1, <2>2, <2>3
  <2>4. CASE b \in blocks'
    <3>1. Height(b) < Height(Here)  BY <1>5, <2>4
    <3>2. QED BY <2>1, <3>1
  <2>5. QED BY <1>4, <2>3, <2>4
<1>8. PICK c : c = cursors  OBVIOUS
<1>9. PICK n : n = half  OBVIOUS
<1>10. PICK s : s = cursors'  OBVIOUS
<1>11. Stored(c, n) /\ Moved(c, n)  BY <1>1, <1>8, <1>9, Zenon DEF Batches
<1>12. /\ DOMAIN s = DOMAIN c /\ Len(s) = Len(c) /\ c \in Seq(Cursors) /\ s \in Seq(Cursors)
       /\ \A i \in DOMAIN c : c[i] \in Cursors /\ Height(c[i]) \in Nat
       /\ \A i \in DOMAIN c : (Height(c[i]) > Height(b) /\ s[i] = b) \/ (~(Height(c[i]) > Height(b)) /\ s[i] = c[i])
  <2>1. cursors \in Seq(Cursors) /\ cursors' \in Seq(Cursors)  BY <1>1, TypeFacts, Zenon DEF TypesInv, TypeOK
  <2>2. \A i \in DOMAIN cursors : cursors[i] \in Cursors /\ Height(cursors[i]) \in Nat
    BY <1>1, TypeFacts, CursorFacts
  <2>3. QED BY <1>3, <1>4, <1>8, <1>10, <2>1, <2>2, Zenon
<1>13. Stored(s, n)'
  <2>1. ASSUME NEW i \in DOMAIN s PROVE Covered(Of(n, i), s[i])' /\ s[i] \in blocks' \union {NoBlock}
    <3>1. i \in DOMAIN c /\ Covered(Of(n, i), c[i]) /\ c[i] \in blocks \union {NoBlock}
      BY <1>11, <1>12, <2>1, Zenon DEF Stored
    <3>2. PICK A : A = Of(n, i)  OBVIOUS
    <3>3. Height(s[i]) <= Height(c[i]) /\ Height(s[i]) <= Height(b) /\ Height(s[i]) \in Nat /\ s[i] \in Cursors
      BY <1>4, <1>7, <1>12, <3>1
    <3>4. Covered(A, s[i])'
      <4>1. SUFFICES ASSUME NEW t \in Txs, t[2] \in A, NEW g \in DOMAIN chain, g < Height(s[i]), t[1] = chain[g]
                     PROVE  t \in ops'
        <5>1. Txs' = Txs /\ chain' = chain  BY <1>3, Zenon DEF Txs
        <5>2. QED BY <5>1, Zenon DEF Covered
      <4>2. g \in Nat /\ chain[g][2] = 0 /\ Height(t[1]) = g
        BY <1>1, <4>1, SeveralFacts, OneBranch, ChainFacts
      <4>3. g < Height(c[i]) /\ g < Height(Here)
        BY <1>3, <1>7, <1>12, <3>1, <3>3, <4>1, <4>2
      <4>4. chain[g][2] <= c[i][2]
        <5>1. c[i][2] \in Nat  BY <1>12, <3>1, CursorFacts
        <5>2. QED BY <4>2, <5>1
      <4>5. t \in ops  BY <3>1, <3>2, <4>1, <4>3, <4>4, Zenon DEF Covered
      <4>6. QED BY <1>5, <4>2, <4>3, <4>5
    <3>5. s[i] \in blocks' \union {NoBlock}
      <4>1. CASE s[i] = b  BY <1>4, <4>1
      <4>2. CASE s[i] = c[i]
        <5>1. CASE c[i] = NoBlock  BY <4>2, <5>1
        <5>2. CASE c[i] \in blocks
          <6>1. Height(c[i]) < Height(Here)  BY <1>3, <1>7, <3>3, <4>2
          <6>2. QED BY <1>5, <4>2, <5>2, <6>1
        <5>3. QED BY <3>1, <5>1, <5>2
      <4>3. QED BY <1>12, <3>1, <4>1, <4>2
    <3>6. QED BY <3>2, <3>4, <3>5
  <2>2. QED BY <2>1, Zenon DEF Stored
<1>14. Moved(s, n)'
  <2>1. SUFFICES ASSUME s # <<>>, s[Len(s)] # NoBlock
                 PROVE  \E t \in Txs, g \in DOMAIN chain :
                          t[2] \in Of(n, Len(s)) /\ t[1] = chain[g] /\ g >= Height(s[Len(s)])
    <3>1. Txs' = Txs /\ chain' = chain  BY <1>3, Zenon DEF Txs
    <3>2. QED BY <3>1, Zenon DEF Moved
  <2>2. c # <<>> /\ Len(c) \in DOMAIN c /\ Len(c) = Len(s)  BY <1>12, <2>1
  <2>3. Height(s[Len(c)]) <= Height(c[Len(c)]) /\ Height(s[Len(c)]) \in Nat /\ Height(c[Len(c)]) \in Nat
    BY <1>7, <1>12, <2>2
  <2>4. c[Len(c)] # NoBlock
    <3>1. SUFFICES ASSUME c[Len(c)] = NoBlock PROVE s[Len(c)] = NoBlock  BY <2>1, <2>2
    <3>2. Height(c[Len(c)]) = 0  BY <3>1, CursorFacts
    <3>3. ~(Height(c[Len(c)]) > Height(b))  BY <1>7, <3>2
    <3>4. QED BY <1>12, <2>2, <3>1, <3>3
  <2>5. PICK t \in Txs, g \in DOMAIN chain : t[2] \in Of(n, Len(c)) /\ t[1] = chain[g] /\ g >= Height(c[Len(c)])
    BY <1>11, <2>2, <2>4, Zenon DEF Moved
  <2>6. g \in Nat  BY <1>1, ChainFacts
  <2>7. g >= Height(s[Len(c)])  BY <2>3, <2>5, <2>6
  <2>8. QED BY <2>2, <2>5, <2>7, Zenon
<1>15. \A x \in {cursors'}, m \in {half'} : Stored(x, m)' /\ Moved(x, m)'
  BY <1>3, <1>9, <1>10, <1>13, <1>14, Zenon
<1>16. \A x \in {saved'}, m \in {savedHalf'} : Moved(x, m)'
  <2>1. \A x \in {saved}, m \in {savedHalf} : Moved(x, m)  BY <1>1, Zenon DEF Batches
  <2>2. Txs' = Txs /\ chain' = chain  BY <1>3, Zenon DEF Txs
  <2>3. \A x, m : Moved(x, m) => Moved(x, m)'  BY <2>2, Zenon DEF Moved
  <2>4. QED BY <1>3, <2>1, <2>3, Zenon
<1>17. pc' # "off" /\ pc' # "token" /\ pc' # "kill" /\ pc' # "store"  BY <1>3
<1>18. Batches'  BY <1>3, <1>15, <1>16, <1>17, Zenon DEF Batches
<1>19. QED BY <1>6, <1>18

\* A session that succeeds leaves its last cursor at the genesis.
LEMMA BatchesEnd ==
  ASSUME Several, EndsSession
  PROVE  Batches'
<1>1. TypesInv /\ TypesInv' /\ Batches  BY DEF Several
<1>2. /\ pc' = "off" /\ cursors' = <<>>
      /\ UNCHANGED <<account, half, chain, fork, blocks, ops, saved, savedHalf>>
      /\ (KillSession /\ pc = "kill" /\ past' = past) \/ "failed" \in past'
      /\ pc = "recovered" => "torn" \in past'
  BY <1>1, EndFacts, Zenon
<1>3. pc # "recovered"  BY <1>2, SeveralFacts
<1>4. \A s \in Seq(Cursors) : (\A i \in DOMAIN s : Known(s[i])) =>
        \A n : (Stored(s, n) => Stored(s, n)') /\ (Moved(s, n) => Moved(s, n)')
  <2>1. UNCHANGED <<chain, fork>> /\ ops \subseteq ops' /\ blocks \subseteq blocks'  BY <1>2
  <2>2. QED BY <1>1, <2>1, SeveralFacts, StoredKept, Zenon
<1>5. \A s \in {saved'}, n \in {savedHalf'} : Stored(s, n)' /\ Moved(s, n)'
  BY <1>1, <1>2, <1>3, <1>4, SeveralFacts, Zenon DEF Batches
<1>6. \A s \in {cursors'}, n \in {half'} : Stored(s, n)' /\ Moved(s, n)'
  BY <1>1, <1>2, NothingStored, Zenon
<1>7. "failed" \notin past' => saved'[Len(saved')] = NoBlock
  <2>1. SUFFICES ASSUME pc = "kill" PROVE saved[Len(saved)] = NoBlock  BY <1>2
  <2>2. saved = cursors  BY <1>1, <2>1, Zenon DEF TypesInv, SessionInv
  <2>3. QED BY <1>1, <2>1, <2>2, Zenon DEF Batches
<1>8. pc' # "store" /\ pc' # "kill"  BY <1>2
<1>9. QED BY <1>5, <1>6, <1>7, <1>8, Zenon DEF Batches

\* What an account of several batches relies on holds in every behaviour.
LEMMA BatchesNext ==
  ASSUME TypesInv, TypesInv', BatchesInv, [Next]_vars
  PROVE  BatchesInv'
<1>1. CASE UNCHANGED vars
  <2>1. UNCHANGED <<account, half, chain, fork, blocks, ops, saved, savedHalf, cursors, pc, batch, had, past>>
    BY <1>1 DEF vars, chainVars, dbVars, sessionVars, tipVars, ghosts
  <2>2. Settled' = Settled /\ Txs' = Txs  BY <2>1 DEF Settled, Txs
  <2>3. \A s, n : (Stored(s, n) => Stored(s, n)') /\ (Moved(s, n) => Moved(s, n)')
    BY <2>1, <2>2, Zenon DEF Stored, Moved, Covered
  <2>4. Batches => Batches'  BY <2>1, <2>3, Zenon DEF Batches
  <2>5. QED BY <2>1, <2>2, <2>4, Zenon DEF BatchesInv
<1>2. CASE Next
  <2>1. SUFFICES ASSUME ~account.isETH, Settled' PROVE Batches'
    BY History, Zenon DEF BatchesInv
  <2>2. Several  BY <1>2, <2>1, History, Zenon DEF BatchesInv, Several
  <2>3. CASE NewBlock \/ FetchTip \/ PutTip \/ OtherAccountStores \/ Configure  BY <2>2, <2>3, BatchesAround
  <2>4. CASE \E h \in 1..MaxHeight : Reorganize(h)
    <3>1. fork = 0 /\ fork' = 0  BY <2>2, SeveralFacts
    <3>2. fork' = fork + 1  BY <2>4 DEF Reorganize
    <3>3. QED BY <3>1, <3>2
  <2>5. CASE OtherAccountRecovers
    <3>1. "deleted" \notin past'  BY <2>2, SeveralFacts
    <3>2. QED BY <2>5, <3>1 DEF OtherAccountRecovers
  <2>6. CASE Start  BY <2>2, <2>6, BatchesStart
  <2>7. CASE ObtainToken \/ StoreRecovered \/ StoreState  BY <2>2, <2>7, BatchesEnter
  <2>8. CASE StorePage \/ StoreMempoolPage  BY <2>2, <2>8, BatchesPage
  <2>9. CASE BlockNotFound \/ ServerError  BY <2>2, <2>9, BatchesRecover
  <2>10. CASE EndsSession  BY <2>2, <2>10, BatchesEnd
  <2>11. QED BY <1>2, <2>3, <2>4, <2>5, <2>6, <2>7, <2>8, <2>9, <2>10, Steps, Zenon
<1>3. QED BY <1>1, <1>2

\* Both kinds of accounts resume where everything before is stored.
LEMMA GapsClosed ==
  ASSUME TypesInv, OneBatchInv, BatchesInv
  PROVE  NoGapWhenSettled
<1>1. SUFFICES ASSUME Settled, NEW i \in DOMAIN cursors, OnChain(cursors[i]), cursors[i] # NoBlock,
                      NEW t \in Txs, t[2] \in In(i), t[2] \in Watched,
                      NEW g \in DOMAIN chain, g <= Height(cursors[i]) - 1, t[1] = chain[g]
               PROVE  t \in ops
  BY Zenon DEF NoGapWhenSettled, NoGap, NoGapBefore, Expected
<1>2. cursors[i] \in Cursors /\ Height(cursors[i]) \in Nat  BY <1>1, TypeFacts, CursorFacts
<1>3. PICK k \in DOMAIN chain : chain[k] = cursors[i]  BY <1>1, Zenon DEF OnChain
<1>4. k = Height(cursors[i])  BY <1>3, ChainFacts
<1>5. g \in Nat  BY ChainFacts
<1>6. g < Height(cursors[i]) /\ g <= k  BY <1>1, <1>2, <1>4, <1>5
<1>7. chain[g][2] <= cursors[i][2]  BY <1>3, <1>6, ChainFacts
<1>8. CASE account.isETH
  <2>1. i = 1  BY <1>1, <1>8, OneCursor
  <2>2. cursors[i] \in CursorBlocks  BY DEF CursorBlocks
  <2>3. Ready(cursors[i])  BY <1>1, <1>8, <2>2, Zenon DEF OneBatchInv, OneBatch
  <2>4. t[2] \in In(1)  BY <1>1, <2>1
  <2>5. QED BY <1>1, <1>6, <1>7, <2>3, <2>4, Zenon DEF Ready, Covered
<1>9. CASE ~account.isETH
  <2>1. Stored(cursors, half)  BY <1>1, <1>9, Zenon DEF BatchesInv, Batches
  <2>2. Covered(Of(half, i), cursors[i])  BY <1>1, <2>1, Zenon DEF Stored
  <2>3. t[2] \in Of(half, i)  BY <1>1 DEF Of, In
  <2>4. QED BY <1>1, <1>6, <1>7, <2>2, <2>3, Zenon DEF Covered
<1>10. QED BY <1>8, <1>9

---------------------------------------------------------------------------
(* A quiet session that succeeds has stored every transaction.             *)

\* What is whole stays whole while the chain and the batches stand still.
LEMMA WholeKept ==
  ASSUME UNCHANGED <<account, half, chain>>, ops \subseteq ops'
  PROVE  /\ \A i : (Whole(i) => Whole(i)') /\ (Empty(i) => Empty(i)')
         /\ WholeAccount => WholeAccount'
<1>1. Txs' = Txs /\ (\A i : In(i)' = In(i))  BY Zenon DEF Txs, In
<1>2. Watched' = Watched
  <2>1. In(1)' = In(1)  BY Zenon DEF In
  <2>2. QED BY <2>1 DEF Watched
<1>3. \A i : (Whole(i) => Whole(i)') /\ (Empty(i) => Empty(i)')
  <2>1. TAKE i
  <2>2. In(i)' = In(i)  BY Zenon DEF In
  <2>3. QED BY <1>1, <2>2, Zenon DEF Whole, Empty
<1>4. WholeAccount => WholeAccount'  BY <1>1, <1>2, Zenon DEF WholeAccount
<1>5. QED BY <1>3, <1>4

\* A step that leaves the session alone.
LEMMA QuietAround ==
  ASSUME TypesInv, Quiet, UNCHANGED <<account, chain, ops, cursors, pc, batch, had, succeeded>>,
         half' = half \/ (pc = "off" /\ account.trouble = "resize")
  PROVE  Quiet'
<1>1. CASE half' = half
  <2>1. UNCHANGED <<account, half, chain>> /\ ops \subseteq ops'  BY <1>1
  <2>2. \A i : (Whole(i) => Whole(i)') /\ (Empty(i) => Empty(i)')  BY <2>1, WholeKept
  <2>3. WholeAccount => WholeAccount'  BY <2>1, WholeKept
  <2>4. QED BY <2>2, <2>3, Zenon DEF Quiet
<1>2. CASE pc = "off" /\ account.trouble = "resize"
  <2>1. ~account.isETH  BY <1>2, AccountFacts, Zenon DEF TypesInv
  <2>2. Watched' = Addresses /\ Watched = Addresses /\ Txs' = Txs  BY <2>1 DEF Watched, Txs
  <2>3. WholeAccount => WholeAccount'  BY <2>2, Zenon DEF WholeAccount
  <2>4. pc' # "store" /\ pc' # "kill" /\ pc' # "recovered" /\ pc' # "fetch"  BY <1>2
  <2>5. QED BY <1>2, <2>3, <2>4, Zenon DEF Quiet
<1>3. QED BY <1>1, <1>2

\* A session that enters a batch has left those before it.
LEMMA QuietEnter ==
  ASSUME TypesInv, Quiet \/ ObtainToken, ObtainToken \/ StoreRecovered \/ (StoreState /\ More)
  PROVE  Quiet'
<1>1. UNCHANGED <<account, half, chain, ops, succeeded>> /\ pc' = "fetch"
  BY DEF ObtainToken, StoreRecovered, StoreState, Enter, chainVars, dbVars, ghosts
<1>2. SUFFICES ASSUME ~account.isETH PROVE \A i \in 1..(batch' - 1) : Whole(i)'
  <2>1. pc' # "store" /\ pc' # "kill" /\ pc' # "off" /\ pc' # "recovered"  BY <1>1
  <2>2. QED BY <1>1, <1>2, <2>1, Zenon DEF Quiet
<1>3. \A i : Whole(i) => Whole(i)'
  <2>1. UNCHANGED <<account, half, chain>> /\ ops \subseteq ops'  BY <1>1
  <2>2. QED BY <2>1, WholeKept
<1>4. CASE ObtainToken
  <2>1. batch' = 1  BY <1>4 DEF ObtainToken, Enter
  <2>2. QED BY <2>1
<1>5. CASE StoreRecovered /\ Quiet
  <2>1. pc = "recovered" /\ pc # "recovered"  BY <1>2, <1>5, Zenon DEF StoreRecovered, Quiet
  <2>2. QED BY <2>1
<1>6. CASE StoreState /\ More /\ Quiet
  <2>1. batch' = batch + 1 /\ pc = "store"  BY <1>6 DEF StoreState, Enter
  <2>2. batch \in Nat  BY <2>1, TypeFacts
  <2>3. \A i \in 1..(batch' - 1) : i \in 1..(batch - 1) \/ i = batch  BY <2>1, <2>2
  <2>4. \A i \in 1..(batch' - 1) : Whole(i)  BY <1>2, <1>6, <2>1, <2>3, Zenon DEF Quiet
  <2>5. QED BY <1>3, <2>4, Zenon
<1>7. QED BY <1>4, <1>5, <1>6

\* The last batch, looked at without a transaction, is empty.
LEMMA QuietKill ==
  ASSUME TypesInv, Quiet, StoreState, ~More
  PROVE  Quiet'
<1>1. /\ UNCHANGED <<account, half, chain, ops, cursors, batch, had>> /\ pc = "store" /\ pc' = "kill"
      /\ done' = done
  BY DEF StoreState, chainVars
<1>2. \A i : (Whole(i) => Whole(i)') /\ (Empty(i) => Empty(i)')
  <2>1. UNCHANGED <<account, half, chain>> /\ ops \subseteq ops'  BY <1>1
  <2>2. QED BY <2>1, WholeKept
<1>3. ~account.isETH => batch = Len(cursors) /\ ~had
  <2>1. SUFFICES ASSUME ~account.isETH PROVE batch = Len(cursors) /\ ~had  OBVIOUS
  <2>2. done /\ ~had /\ batch # 1  BY <2>1 DEF More
  <2>3. batch \in DOMAIN cursors /\ DOMAIN cursors = 1..Len(cursors) /\ Len(cursors) \in Nat
    BY <1>1, TypeFacts
  <2>4. ~(batch < Len(cursors))  BY <1>1, <2>2, Zenon DEF TypesInv, SessionInv
  <2>5. QED BY <2>2, <2>3, <2>4
<1>4. pc' # "off" /\ pc' # "recovered"  BY <1>1
<1>5. \A i \in {batch'} : Whole(i)'  BY <1>1, <1>2, Zenon DEF Quiet
<1>6. ~account.isETH => \A i \in {batch'} : Empty(i)'  BY <1>1, <1>2, <1>3, Zenon DEF Quiet
<1>7. ~account.isETH => \A i \in 1..(batch' - 1) : Whole(i)'  BY <1>1, <1>2, Zenon DEF Quiet
<1>8. QED BY <1>1, <1>4, <1>5, <1>6, <1>7, Zenon DEF Quiet

\* After its last page a batch is whole; an empty one has nothing on the chain.
LEMMA QuietPage ==
  ASSUME TypesInv, Quiet, StorePage \/ StoreMempoolPage, Covered(In(batch), Here),
         ~account.isETH => Batches'
  PROVE  Quiet'
<1>1. /\ pc = "fetch" /\ batch \in DOMAIN cursors /\ batch \in Nat \ {0} /\ Here \in Cursors
      /\ UNCHANGED <<account, half, chain, batch>> /\ ops \subseteq ops'
      /\ pc' \in {"fetch", "store"} /\ (pc' = "store" => ~HasNext(batch, Here))
      /\ Len(cursors') = Len(cursors)
      /\ ~had' => Fetched = {} /\ cursors' = cursors
  BY PageStep, Zenon
<1>2. \A i : (Whole(i) => Whole(i)') /\ (Empty(i) => Empty(i)')
  <2>1. UNCHANGED <<account, half, chain>> /\ ops \subseteq ops'  BY <1>1
  <2>2. QED BY <2>1, WholeKept
<1>3. pc' = "store" => \A i \in {batch'} : Whole(i)'
  <2>1. SUFFICES ASSUME pc' = "store", NEW i, i = batch PROVE Whole(i)'  BY <1>1
  <2>2. \A t \in Txs : t[2] \in In(i) /\ (\E g \in DOMAIN chain : t[1] = chain[g]) => t \in ops'
    BY <2>1, PageCovers, Zenon
  <2>3. Txs' = Txs /\ In(i)' = In(i)  BY <1>1, Zenon DEF Txs, In
  <2>4. QED BY <1>1, <2>2, <2>3, Zenon DEF Whole
<1>4. ~account.isETH => \A i \in 1..(batch' - 1) : Whole(i)'
  BY <1>1, <1>2, Zenon DEF Quiet
<1>5. ~account.isETH /\ pc' = "store" /\ batch' = Len(cursors') /\ ~had' => \A i \in {batch'} : Empty(i)'
  <2>1. SUFFICES ASSUME ~account.isETH, pc' = "store", batch' = Len(cursors'), ~had', NEW i, i = batch
                 PROVE  Empty(i)'
    BY <1>1
  <2>2. cursors'[batch'] = NoBlock  BY <2>1, Zenon DEF Batches
  <2>3. Here = NoBlock  BY <1>1, <2>1, <2>2, Zenon DEF Here
  <2>4. \A h \in Matching(batch, Here) : chain[h] \in Fetched  BY <1>1, <2>1, LowestFirst, Zenon DEF Fetched
  <2>5. Matching(batch, Here) = {}  BY <1>1, <2>1, <2>4
  <2>6. \A h \in DOMAIN chain, a \in In(batch) : <<chain[h], a>> \notin Txs
    <3>1. \A h \in DOMAIN chain : h >= Height(Here)  BY <2>3, ChainFacts, CursorFacts
    <3>2. QED BY <2>5, <3>1, MatchingFacts, Zenon
  <2>7. ASSUME NEW t \in Txs, t[2] \in In(i), NEW g \in DOMAIN chain, t[1] = chain[g] PROVE FALSE
    <3>1. t = <<t[1], t[2]>>  BY OpFacts
    <3>2. <<chain[g], t[2]>> \in Txs  BY <2>7, <3>1
    <3>3. QED BY <2>1, <2>6, <2>7, <3>2
  <2>8. Txs' = Txs /\ In(i)' = In(i)  BY <1>1, Zenon DEF Txs, In
  <2>9. QED BY <1>1, <2>7, <2>8, Zenon DEF Empty
<1>6. pc' # "off" /\ pc' # "recovered" /\ pc' # "kill"  BY <1>1
<1>7. QED BY <1>1, <1>3, <1>4, <1>5, <1>6, Zenon DEF Quiet

\* The batches before the last one, and the empty one, are the whole account:
\* no batch between was left out.
LEMMA QuietSuccessful ==
  ASSUME TypesInv, Quiet, pc = "kill", Settled, BatchesInv
  PROVE  WholeAccount
<1>1. batch \in DOMAIN cursors /\ batch \in Nat \ {0}  BY TypeFacts
<1>2. CASE account.isETH
  <2>1. batch = 1  BY <1>2, OneCursor
  <2>2. Watched = In(1)  BY <1>2 DEF Watched
  <2>3. Whole(1)  BY <2>1, Zenon DEF Quiet
  <2>4. QED BY <2>2, <2>3, Zenon DEF Whole, WholeAccount
<1>3. CASE ~account.isETH
  <2>1. /\ \A i \in 1..(batch - 1) : Whole(i)
        /\ Empty(batch) /\ batch >= 2
    BY <1>3, Zenon DEF Quiet, BatchesInv, Batches
  <2>2. half \in Nat \ {0} /\ fork = 0  BY <1>3, TypeFacts DEF Settled
  <2>3. SUFFICES ASSUME NEW t \in Txs, NEW g \in DOMAIN chain, t[1] = chain[g] PROVE t \in ops
    BY Zenon DEF WholeAccount
  <2>4. t[2] \in Addresses /\ t[2] \in Nat \ {0} /\ t[2] <= LastAddress /\ LastAddress \in Nat
    BY OpFacts, BoundsAssumption DEF Addresses
  <2> DEFINE n == (batch - 1) * half
  <2>5. n \in Nat /\ n >= 1 /\ n + half = batch * half /\ batch - 1 \in Nat \ {0}
    <3>1. \A i, m \in Nat \ {0} : i * m \in Nat /\ i * m >= 1  OBVIOUS
    <3>2. batch - 1 \in Nat \ {0}  BY <1>1, <2>1
    <3>3. (batch - 1) * half + half = batch * half
      <4>1. \A i, m \in Nat : (i + 1) * m = i * m + m  OBVIOUS
      <4>2. batch = (batch - 1) + 1  BY <1>1
      <4>3. QED BY <2>2, <3>2, <4>1, <4>2
    <3>4. QED BY <2>2, <3>1, <3>2, <3>3
  <2>6. CASE t[2] <= n
    <3> DEFINE i == (t[2] - 1) \div half
    <3>1. t[2] - 1 \in Nat /\ t[2] - 1 < n  BY <2>4, <2>5, <2>6
    <3>2. i \in Nat /\ i * half <= t[2] - 1 /\ t[2] - 1 < (i + 1) * half
      <4>1. \A x \in Nat, m \in Nat \ {0} : x \div m \in Nat /\ (x \div m) * m <= x /\ x < (x \div m + 1) * m
        OBVIOUS
      <4>2. QED BY <2>2, <3>1, <4>1
    <3> HIDE DEF i
    <3>3. i < batch - 1
      <4>1. SUFFICES ASSUME i >= batch - 1 PROVE FALSE  BY <1>1, <3>2
      <4>2. \A x, y, m \in Nat : x >= y => x * m >= y * m  OBVIOUS
      <4>3. i * half >= n  BY <2>2, <2>5, <3>2, <4>1, <4>2
      <4>4. i * half \in Nat  BY <2>2, <3>2
      <4>5. QED BY <2>5, <3>1, <3>2, <4>3, <4>4
    <3>4. i + 1 \in 1..(batch - 1)  BY <1>1, <3>2, <3>3
    <3>5. t[2] \in In(i + 1)
      <4>1. (i + 1) - 1 = i /\ i * half \in Nat /\ (i + 1) * half \in Nat  BY <2>2, <3>2
      <4>2. t[2] > i * half /\ t[2] <= (i + 1) * half  BY <2>4, <3>1, <3>2, <4>1
      <4>3. QED BY <2>4, <4>1, <4>2 DEF In
    <3>6. QED BY <2>1, <2>3, <3>4, <3>5, Zenon DEF Whole
  <2>7. CASE t[2] > n
    <3>1. batch \in 2..LastAddress
      <4>1. \A x, m \in Nat \ {0} : x <= x * m  OBVIOUS
      <4>2. batch - 1 <= n  BY <2>2, <2>5, <4>1
      <4>3. QED BY <1>1, <2>1, <2>4, <2>5, <2>7, <4>2
    <3>2. half \in IF account.trouble = "resize" THEN Sizes ELSE {account.half}
      BY TypeFacts, Zenon DEF TypesInv, SessionInv
    <3>3. t[1][2] = 0 /\ Height(t[1]) = g /\ g \in Nat  BY <2>2, <2>3, OneBranch, ChainFacts
    <3>4. PICK u \in Txs : /\ u[2] > (batch - 1) * half /\ u[2] <= batch * half
                           /\ u[1][2] = 0 /\ Height(u[1]) <= Height(t[1])
      <4>1. account \in Scenarios  BY TypeFacts
      <4>2. QED BY <1>3, <2>3, <2>7, <3>1, <3>2, <3>3, <4>1, OrderAssumption, Zenon DEF Txs
    <3>5. u[1] \in Blocks /\ u[1] \in Cursors  BY OpFacts, CursorFacts
    <3>6. Height(u[1]) \in Nat \ {0} /\ u[1] = <<Height(u[1]), 0>>
      <4>1. u[1] # NoBlock /\ Height(u[1]) \in Nat /\ (u[1] = NoBlock <=> Height(u[1]) = 0) /\ u[1] = <<Height(u[1]), u[1][2]>>
        BY <3>5, CursorFacts
      <4>2. QED BY <3>4, <4>1
    <3>7. Height(u[1]) \in DOMAIN chain
      <4>1. DOMAIN chain = 1..Len(chain) /\ Len(chain) \in Nat  BY ChainFacts
      <4>2. QED BY <2>3, <3>3, <3>4, <3>6, <4>1
    <3>8. chain[Height(u[1])] = u[1]
      <4>1. chain[Height(u[1])] = <<Height(u[1]), chain[Height(u[1])][2]>> /\ chain[Height(u[1])][2] = 0
        BY <2>2, <3>7, OneBranch, ChainFacts
      <4>2. QED BY <3>6, <4>1
    <3>9. u[2] \in In(batch)
      <4>1. u[2] \in Addresses  BY OpFacts
      <4>2. QED BY <3>4, <4>1 DEF In
    <3>10. QED BY <2>1, <3>4, <3>7, <3>8, <3>9, Zenon DEF Empty
  <2>8. QED BY <2>4, <2>5, <2>6, <2>7
<1>4. QED BY <1>2, <1>3

\* What a quiet session has fetched, in every behaviour.
LEMMA QuietNext ==
  ASSUME TypesInv, TypesInv', GapInv, BatchesInv', [Next]_vars
  PROVE  QuietInv'
<1>1. OneBatchInv /\ BatchesInv /\ QuietInv  BY DEF GapInv
<1>2. CASE UNCHANGED vars
  <2>1. /\ UNCHANGED <<account, chain, ops, cursors, pc, batch, had, succeeded>>
        /\ UNCHANGED <<half, fork, quiet, past>>
    BY <1>2 DEF vars, chainVars, dbVars, sessionVars, tipVars, ghosts
  <2>2. Settled' = Settled  BY <2>1 DEF Settled
  <2>3. Quiet => Quiet'  BY <2>1, QuietAround, Zenon
  <2>4. QED BY <1>1, <2>1, <2>2, <2>3, Zenon DEF QuietInv
<1>3. CASE Next
  <2>1. SUFFICES ASSUME Settled', quiet' PROVE Quiet'  BY Zenon DEF QuietInv
  <2>2. Settled /\ account' = account  BY <2>1, History
  <2>4. CASE NewBlock \/ (\E h \in 1..MaxHeight : Reorganize(h)) \/ ServerError \/ OtherAccountRecovers
    BY <2>1, <2>4 DEF NewBlock, Reorganize, ChainChanged, ServerError, OtherAccountRecovers
  <2>5. CASE Start
    <3>1. pc' = "token"  BY <2>5 DEF Start
    <3>2. pc' # "off" /\ pc' # "store" /\ pc' # "kill" /\ pc' # "recovered" /\ pc' # "fetch"  BY <3>1
    <3>3. QED BY <3>2, Zenon DEF Quiet
  <2>6. CASE ~Start /\ ~NewBlock /\ ~(\E h \in 1..MaxHeight : Reorganize(h)) /\ ~ServerError /\ ~OtherAccountRecovers
    <3>1. quiet
      <4>1. CASE FetchTip \/ PutTip \/ OtherAccountStores \/ Configure \/ ObtainToken \/ StoreRecovered \/ StoreState
        BY <2>1, <4>1 DEF FetchTip, PutTip, OtherAccountStores, Configure, ObtainToken, StoreRecovered, StoreState, ghosts
      <4>2. CASE StorePage \/ StoreMempoolPage  BY <2>1, <4>2, PageStep, Zenon
      <4>3. CASE BlockNotFound  BY <2>1, <4>3 DEF BlockNotFound
      <4>4. CASE EndsSession  BY <2>1, <4>4, EndFacts, Zenon
      <4>5. QED BY <1>3, <2>6, <4>1, <4>2, <4>3, <4>4, Steps, Zenon
    <3>2. Quiet  BY <1>1, <2>2, <3>1, Zenon DEF QuietInv
    <3>3. CASE FetchTip \/ PutTip \/ OtherAccountStores \/ Configure
      <4>1. /\ UNCHANGED <<account, chain, ops, cursors, pc, batch, had, succeeded>>
            /\ half' = half \/ (pc = "off" /\ account.trouble = "resize")
        BY <3>3 DEF FetchTip, PutTip, OtherAccountStores, Configure, Trouble, chainVars, dbVars, sessionVars, ghosts
      <4>2. QED BY <3>2, <4>1, QuietAround, Zenon
    <3>4. CASE ObtainToken \/ StoreRecovered \/ (StoreState /\ More)  BY <3>2, <3>4, QuietEnter, Zenon
    <3>5. CASE StoreState /\ ~More  BY <3>2, <3>5, QuietKill, Zenon
    <3>6. CASE StorePage \/ StoreMempoolPage
      <4>1. pc = "fetch" /\ batch \in DOMAIN cursors  BY <3>6, PageStep, Zenon
      <4>2. CASE account.isETH
        <5>1. batch = 1 /\ CursorBlocks = {Here}  BY <4>1, <4>2, OneCursor
        <5>2. Ready(Here)  BY <1>1, <2>2, <4>2, <5>1, Zenon DEF OneBatchInv, OneBatch
        <5>3. Covered(In(batch), Here)  BY <5>1, <5>2, Zenon DEF Ready
        <5>4. QED BY <3>2, <3>6, <4>2, <5>3, QuietPage, Zenon
      <4>3. CASE ~account.isETH
        <5>1. Stored(cursors, half)  BY <1>1, <2>2, <4>3, Zenon DEF BatchesInv, Batches
        <5>2. Covered(Of(half, batch), Here)  BY <4>1, <5>1, Zenon DEF Stored, Here
        <5>3. Of(half, batch) = In(batch)  BY DEF Of, In
        <5>4. Covered(In(batch), Here)  BY <5>2, <5>3
        <5>5. Batches'  BY <2>1, <2>2, <4>3, Zenon DEF BatchesInv
        <5>6. QED BY <3>2, <3>6, <5>4, <5>5, QuietPage, Zenon
      <4>4. QED BY <4>2, <4>3
    <3>7. CASE BlockNotFound
      <4>1. CASE account.isETH
        <5>1. pc' = "recovered"  BY <3>7 DEF BlockNotFound, Recover
        <5>2. pc' # "off" /\ pc' # "store" /\ pc' # "kill" /\ account'.isETH  BY <2>2, <4>1, <5>1
        <5>3. QED BY <5>2, Zenon DEF Quiet
      <4>2. CASE ~account.isETH
        <5>1. Several  BY <1>1, <1>3, <2>1, <2>2, <4>2, Zenon DEF Several, BatchesInv
        <5>2. ServerError  BY <3>7, <5>1, BatchesRecover, Zenon
        <5>3. QED BY <2>6, <5>2
      <4>3. QED BY <4>1, <4>2
    <3>8. CASE EndsSession
      <4>1. /\ pc' = "off" /\ UNCHANGED <<account, half, chain, ops>>
            /\ (pc = "kill" /\ succeeded' = TRUE) \/ succeeded' = FALSE
        BY <3>8, EndFacts, Zenon
      <4>2. pc' # "store" /\ pc' # "kill" /\ pc' # "recovered" /\ pc' # "fetch"  BY <4>1
      <4>3. CASE pc = "kill"
        <5>1. WholeAccount  BY <1>1, <2>2, <3>2, <4>3, QuietSuccessful
        <5>2. UNCHANGED <<account, half, chain>> /\ ops \subseteq ops'  BY <4>1
        <5>3. WholeAccount'  BY <5>1, <5>2, WholeKept
        <5>4. QED BY <4>2, <5>3, Zenon DEF Quiet
      <4>4. CASE succeeded' = FALSE  BY <4>2, <4>4, Zenon DEF Quiet
      <4>5. QED BY <4>1, <4>3, <4>4
    <3>9. QED BY <1>3, <2>6, <3>3, <3>4, <3>5, <3>6, <3>7, <3>8, Steps, Zenon
  <2>7. QED BY <2>4, <2>5, <2>6, Zenon
<1>4. QED BY <1>2, <1>3

\* Nothing is stored at first, and nothing before it is missing.
LEMMA InitGap ==
  ASSUME Init
  PROVE  GapInv
<1>1. /\ blocks = {} /\ ops = {} /\ saved = <<>> /\ cursors = <<>> /\ pc = "off" /\ batch = 0
      /\ tip = NoBlock /\ quiet = FALSE /\ TypesInv
  BY InitTypes DEF Init
<1>2. OneBatch
  <2>1. DOMAIN cursors = {} /\ DOMAIN saved = {}  BY <1>1
  <2>2. CursorBlocks = {} /\ SavedBlocks = {}  BY <2>1, Zenon DEF CursorBlocks, SavedBlocks
  <2>3. Topmost(tip)
    <3>1. \A x \in Mentioned : x[2] \in Nat  BY <1>1, MentionedFacts, CursorFacts
    <3>2. tip[2] = 0  BY <1>1, CursorFacts
    <3>3. \A x \in Mentioned : x[2] >= tip[2]  BY <3>1, <3>2
    <3>4. QED BY <3>3, Zenon DEF Topmost
  <2>4. QED BY <1>1, <2>2, <2>3, Zenon DEF OneBatch
<1>3. Batches
  <2>1. \A n : Stored(<<>>, n) /\ Moved(<<>>, n)
    <3>1. \A i \in DOMAIN <<>> : FALSE  OBVIOUS
    <3>2. QED BY <3>1, Zenon DEF Stored, Moved
  <2>2. pc # "store" /\ pc # "kill"  BY <1>1
  <2>3. QED BY <1>1, <2>1, <2>2, Zenon DEF Batches
<1>4. QED BY <1>1, <1>2, <1>3, Zenon DEF GapInv, OneBatchInv, BatchesInv, QuietInv

\* No transaction before a cursor is missing and, when a session has just
\* succeeded, none at all: the invariant behind the next two theorems.
THEOREM GapHolds == SafetySpec => [](TypesInv /\ GapInv)
<1>1. Init => TypesInv /\ GapInv  BY InitTypes, InitGap
<1>2. TypesInv /\ GapInv /\ [Next]_vars => (TypesInv /\ GapInv)'
  <2>1. SUFFICES ASSUME TypesInv, GapInv, [Next]_vars PROVE (TypesInv /\ GapInv)'  OBVIOUS
  <2>2. TypesInv'  BY <2>1, NextTypes
  <2>3. OneBatchInv'  BY <2>1, <2>2, OneBatchNext DEF GapInv
  <2>4. BatchesInv'  BY <2>1, <2>2, BatchesNext DEF GapInv
  <2>5. QuietInv'  BY <2>1, <2>2, <2>4, QuietNext
  <2>6. QED BY <2>2, <2>3, <2>4, <2>5, Zenon DEF GapInv
<1>3. QED BY <1>1, <1>2, PTL DEF SafetySpec

\* No batch skips a transaction, in every behaviour: whatever fails or
\* crashes, a settled account resumes where everything before is stored.
THEOREM NoGapHolds == Spec => []NoGapWhenSettled
<1>1. TypesInv /\ GapInv => NoGapWhenSettled  BY GapsClosed DEF GapInv
<1>2. QED BY <1>1, GapHolds, PTL DEF Spec

\* A session that succeeds while the chain stands still leaves no transaction
\* of the chain unstored.
THEOREM CompleteHolds == Spec => []CompleteWhenQuiet
<1>1. TypesInv /\ GapInv => CompleteWhenQuiet
  <2>1. SUFFICES ASSUME GapInv, pc = "off", succeeded, quiet, Settled
                 PROVE  Expected(Watched, Len(chain)) \subseteq ops
    BY Zenon DEF CompleteWhenQuiet, QuietSuccess
  <2>2. WholeAccount  BY <2>1, Zenon DEF GapInv, QuietInv, Quiet
  <2>3. \A t \in Expected(Watched, Len(chain)) : t \in ops
    BY <2>2, Zenon DEF WholeAccount, Expected
  <2>4. QED BY <2>3
<1>2. QED BY <1>1, GapHolds, PTL DEF Spec
---------------------------------------------------------------------------
(* An account of one batch leaves no operation of an orphaned block.       *)

\* What the operations and the cursor of an account of one batch are.
LEMMA RepairFacts ==
  ASSUME TypesInv, account.isETH
  PROVE  /\ \A c \in {Reached[i] : i \in DOMAIN Reached} : c \in Cursors /\ Known(c) /\ Height(c) \in Nat
         /\ \A o \in ops : o[1] \in blocks /\ o[1] \in Cursors /\ Known(o[1]) /\ o[1] # NoBlock
                           /\ Height(o[1]) \in Nat /\ Height(o[1]) # 0
         /\ \A b \in blocks \union {tip} : b \in Cursors /\ Known(b) /\ Height(b) \in Nat
         /\ NoBlock \in Cursors /\ Height(NoBlock) = 0 /\ OnChain(NoBlock)
<1>1. \A c \in {saved[i] : i \in DOMAIN saved} : c \in Cursors /\ Known(c) /\ Height(c) \in Nat
  BY TypeFacts, KnownFacts, CursorFacts
<1>2. \A c \in {cursors[i] : i \in DOMAIN cursors} : c \in Cursors /\ Known(c) /\ Height(c) \in Nat
  BY TypeFacts, KnownFacts, CursorFacts
<1>3. \A c \in {Reached[i] : i \in DOMAIN Reached} : c \in Cursors /\ Known(c) /\ Height(c) \in Nat
  <2>1. CASE pc = "off"
    <3>1. Reached = saved  BY <2>1, Zenon DEF Reached
    <3>2. QED BY <1>1, <3>1
  <2>2. CASE pc # "off"
    <3>1. Reached = cursors  BY <2>2, Zenon DEF Reached
    <3>2. QED BY <1>2, <3>1
  <2>3. QED BY <2>1, <2>2
<1>4. \A b \in blocks : b \in Blocks /\ Known(b)  BY OpFacts, KnownFacts
<1>5. \A b \in Blocks : b \in Cursors /\ b # NoBlock /\ Height(b) \in Nat /\ Height(b) # 0  BY CursorFacts
<1>6. \A o \in ops : o[1] \in blocks  BY OpFacts
<1>7. tip \in Cursors /\ Known(tip) /\ Height(tip) \in Nat  BY TypeFacts, KnownFacts, CursorFacts
<1>8. NoBlock \in Cursors /\ Height(NoBlock) = 0 /\ OnChain(NoBlock)  BY CursorFacts DEF OnChain
<1>9. QED BY <1>3, <1>4, <1>5, <1>6, <1>7, <1>8, Zenon

\* What a step that moves neither the chain nor the cursor owes.
LEMMA RepairKept ==
  ASSUME Repairable, UNCHANGED chain, Reached' = Reached, ops' \subseteq ops,
         \A b \in blocks' \union {tip'} :
           \/ b \in blocks \union {tip} \union {NoBlock}
           \/ \A c \in {Reached[i] : i \in DOMAIN Reached}, o \in ops :
                Stale(o) /\ Height(b) >= Height(o[1]) => Height(b) >= Height(c),
         quiet' /\ (pc' \in {"store", "kill"} \/ (pc' = "off" /\ succeeded')) =>
           quiet /\ (pc \in {"store", "kill"} \/ (pc = "off" /\ succeeded))
  PROVE  Repairable'
<1>1. \A b : OnChain(b)' <=> OnChain(b)  BY Zenon DEF OnChain
<1>2. \A o : Stale(o)' <=> Stale(o)  BY <1>1, Zenon DEF Stale
<1>3. Reached' = <<>> => ops' = {}  BY Zenon DEF Repairable
<1>4. \A c \in {Reached[i] : i \in DOMAIN Reached}' : Below(c)'
  <2>1. SUFFICES ASSUME NEW c \in {Reached[i] : i \in DOMAIN Reached} PROVE Below(c)'
    <3>1. {Reached[i] : i \in DOMAIN Reached}' = {Reached[i] : i \in DOMAIN Reached}  OBVIOUS
    <3>2. QED BY <2>1, <3>1, Zenon
  <2>2. Below(c)  BY Zenon DEF Repairable
  <2>3. \A o \in ops' : Height(o[1]) <= Height(c)  BY <2>2, Zenon DEF Below
  <2>4. ASSUME NEW o \in ops', Stale(o)'
        PROVE  /\ ~OnChain(c)'
               /\ \A p \in ops' : ~Stale(p)' => Height(p[1]) < Height(o[1])
               /\ \A b \in blocks' \union {tip'} :
                    b # NoBlock /\ OnChain(b)' /\ Height(b) >= Height(o[1]) => Height(b) >= Height(c)
    <3>1. o \in ops /\ Stale(o)  BY <1>2, <2>4, Zenon
    <3>2. /\ ~OnChain(c)
          /\ \A p \in ops : ~Stale(p) => Height(p[1]) < Height(o[1])
          /\ \A b \in blocks \union {tip} :
               b # NoBlock /\ OnChain(b) /\ Height(b) >= Height(o[1]) => Height(b) >= Height(c)
      BY <2>2, <3>1, Zenon DEF Below
    <3>3. \A b \in blocks' \union {tip'} :
            b \in blocks \union {tip} \/ b = NoBlock \/ (Height(b) >= Height(o[1]) => Height(b) >= Height(c))
      BY <3>1, Zenon
    <3>4. QED BY <1>1, <1>2, <3>2, <3>3, Zenon
  <2>5. QED BY <2>3, <2>4, Zenon DEF Below
<1>5. quiet' /\ (pc' \in {"store", "kill"} \/ (pc' = "off" /\ succeeded')) => \A o \in ops' : ~Stale(o)'
  BY <1>2, Zenon DEF Repairable
<1>6. QED BY <1>3, <1>4, <1>5, Zenon DEF Repairable

\* A reorganization that orphans a block leaves nothing known above it on the
\* chain.
LEMMA RepairChain ==
  ASSUME TypesInv, account.isETH, Repairable, Grows, ChainChanged
  PROVE  Repairable'
<1>1. UNCHANGED <<blocks, ops, tip>> /\ Reached' = Reached /\ ~quiet'
  BY DEF ChainChanged, dbVars, sessionVars, tipVars, Reached
<1>2. DOMAIN chain = 1..Len(chain) /\ DOMAIN chain' = 1..Len(chain') /\ fork \in Nat /\ fork' \in Nat
      /\ Len(chain) \in Nat /\ Len(chain') \in Nat /\ Len(chain) <= Len(chain')
  <2>1. chain' \in Seq(Blocks)  BY DEF Grows
  <2>2. fork \in Nat /\ fork' \in Nat  BY ChainFacts, BoundsAssumption DEF Grows
  <2>3. Len(chain') >= Len(chain) BY DEF Grows
  <2>4. QED BY <2>1, <2>2, <2>3, ChainFacts
<1>3. \A h \in DOMAIN chain' : Height(chain'[h]) = h /\ chain'[h][2] \in 0..fork'
  <2>1. ASSUME NEW h \in DOMAIN chain' PROVE Height(chain'[h]) = h /\ chain'[h][2] \in 0..fork'
    <3>1. chain'[h] = <<h, chain'[h][2]>> /\ chain'[h][2] \in 0..fork'  BY Zenon DEF Grows, ChainInv
    <3>2. chain'[h][1] = h  BY <3>1
    <3>3. QED BY <3>1, <3>2 DEF Height
  <2>2. QED BY <2>1
<1>4. \A g, h \in DOMAIN chain' : g <= h => chain'[g][2] <= chain'[h][2]  BY Zenon DEF Grows, ChainInv
<1>5. \A b \in Cursors : Known(b) /\ OnChain(b)' /\ b # NoBlock =>
        Height(b) \in DOMAIN chain /\ chain'[Height(b)] = b /\ b[2] <= fork
  <2>1. SUFFICES ASSUME NEW b \in Cursors, Known(b), OnChain(b)', b # NoBlock
                 PROVE  Height(b) \in DOMAIN chain /\ chain'[Height(b)] = b /\ b[2] <= fork
    OBVIOUS
  <2>2. PICK h \in DOMAIN chain' : chain'[h] = b  BY <2>1, Zenon DEF OnChain
  <2>3. Height(b) = h  BY <1>3, <2>2, Zenon
  <2>4. h \in DOMAIN chain /\ b[2] <= chain[h][2]  BY <2>1, <2>3, Zenon DEF Known
  <2>5. chain[h][2] \in 0..fork /\ b[2] \in Nat  BY <2>4, ChainFacts, CursorFacts
  <2>6. b[2] <= fork  BY <1>2, <2>4, <2>5
  <2>7. QED BY <2>2, <2>3, <2>4, <2>6
<1>6. \A b \in Cursors : Known(b) /\ OnChain(b)' => OnChain(b)
  <2>1. SUFFICES ASSUME NEW b \in Cursors, Known(b), OnChain(b)', b # NoBlock PROVE OnChain(b)
    BY Zenon DEF OnChain
  <2>2. Height(b) \in DOMAIN chain /\ chain'[Height(b)] = b /\ b[2] <= fork  BY <1>5, <2>1, Zenon
  <2>3. chain'[Height(b)] = chain[Height(b)] \/ (chain'[Height(b)][2] = fork' /\ fork' > fork)
    BY <2>2, Zenon DEF Grows
  <2>4. b[2] \in Nat  BY CursorFacts
  <2>5. chain'[Height(b)] = chain[Height(b)]  BY <1>2, <2>2, <2>3, <2>4
  <2>6. QED BY <2>2, <2>5, Zenon DEF OnChain
\* o's block is replaced: so are all the known blocks above it.
<1>7. ASSUME NEW o \in ops, ~Stale(o), Stale(o)', NEW b \in Cursors, Known(b), b # NoBlock,
             Height(b) >= Height(o[1])
      PROVE  ~OnChain(b)'
  <2>1. SUFFICES ASSUME OnChain(b)' PROVE FALSE  OBVIOUS
  <2>2. o[1] \in Cursors /\ Known(o[1]) /\ o[1] # NoBlock  BY RepairFacts
  <2>3. OnChain(o[1])  BY <1>7, Zenon DEF Stale
  <2>4. PICK g \in DOMAIN chain : chain[g] = o[1]  BY <2>2, <2>3, Zenon DEF OnChain
  <2>5. Height(o[1]) = g  BY <2>4, ChainFacts
  <2>6. g \in DOMAIN chain'  BY <1>2
  <2>7. chain'[g] # chain[g]
    <3>1. ~(OnChain(o[1])')  BY <1>7, Zenon DEF Stale
    <3>2. QED BY <2>4, <2>6, <3>1, Zenon DEF OnChain
  <2>8. chain'[g][2] = fork' /\ fork' > fork  BY <2>7, Zenon DEF Grows
  <2>9. Height(b) \in DOMAIN chain /\ chain'[Height(b)] = b /\ b[2] <= fork  BY <1>5, <1>7, <2>1, Zenon
  <2>10. Height(b) \in DOMAIN chain' /\ g <= Height(b)  BY <1>2, <1>7, <2>5, <2>9
  <2>11. chain'[g][2] <= b[2]  BY <1>4, <2>6, <2>9, <2>10, Zenon
  <2>12. b[2] \in Nat  BY CursorFacts
  <2>13. QED BY <1>2, <2>8, <2>9, <2>11, <2>12
<1>8. ASSUME NEW c \in {Reached[i] : i \in DOMAIN Reached} PROVE Below(c)'
  <2>1. Below(c) /\ c \in Cursors /\ Known(c) /\ Height(c) \in Nat  BY RepairFacts, Zenon DEF Repairable
  <2>2. \A o \in ops : Height(o[1]) <= Height(c)  BY <2>1, Zenon DEF Below
  <2>3. ASSUME NEW o \in ops, Stale(o)'
        PROVE  /\ ~OnChain(c)'
               /\ \A p \in ops : ~Stale(p)' => Height(p[1]) < Height(o[1])
               /\ \A b \in blocks \union {tip} :
                    b # NoBlock /\ OnChain(b)' /\ Height(b) >= Height(o[1]) => Height(b) >= Height(c)
    <3>1. \A p \in ops : p[1] \in Cursors /\ Known(p[1]) /\ p[1] # NoBlock
                         /\ Height(p[1]) \in Nat /\ Height(p[1]) # 0
      BY RepairFacts
    <3>2. \A b \in blocks \union {tip} : b \in Cursors /\ Known(b)  BY RepairFacts
    <3>3. CASE Stale(o)
      <4>1. /\ ~OnChain(c)
            /\ \A p \in ops : ~Stale(p) => Height(p[1]) < Height(o[1])
            /\ \A b \in blocks \union {tip} :
                 b # NoBlock /\ OnChain(b) /\ Height(b) >= Height(o[1]) => Height(b) >= Height(c)
        BY <2>1, <3>3, Zenon DEF Below
      <4>2. \A p \in ops : ~Stale(p)' => ~Stale(p)  BY <1>6, <3>1, Zenon DEF Stale
      <4>3. QED BY <1>6, <2>1, <3>2, <4>1, <4>2, Zenon
    <3>4. CASE ~Stale(o)
      <4>1. \A b \in Cursors : Known(b) /\ b # NoBlock /\ Height(b) >= Height(o[1]) => ~OnChain(b)'
        BY <1>7, <2>3, <3>4, Zenon
      <4>2. c # NoBlock /\ Height(c) >= Height(o[1])  BY <2>1, <2>2, <3>1, CursorFacts
      <4>3. \A p \in ops : ~Stale(p)' => Height(p[1]) < Height(o[1])
        <5>1. SUFFICES ASSUME NEW p \in ops, OnChain(p[1])' PROVE Height(p[1]) < Height(o[1])
          BY Zenon DEF Stale
        <5>2. ~(Height(p[1]) >= Height(o[1]))  BY <3>1, <4>1, <5>1, Zenon
        <5>3. QED BY <3>1, <5>2
      <4>4. QED BY <2>1, <3>2, <4>1, <4>2, <4>3, Zenon
    <3>5. QED BY <3>3, <3>4
  <2>4. UNCHANGED <<blocks, ops, tip>>  BY <1>1
  <2>5. QED BY <2>2, <2>3, <2>4, Zenon DEF Below
<1>9. Reached' = <<>> => ops' = {}  BY <1>1, Zenon DEF Repairable
<1>10. \A c \in {Reached[i] : i \in DOMAIN Reached}' : Below(c)'
  <2>1. {Reached[i] : i \in DOMAIN Reached}' = {Reached[i] : i \in DOMAIN Reached}  BY <1>1
  <2>2. QED BY <1>8, <2>1, Zenon
<1>11. QED BY <1>1, <1>9, <1>10, Zenon DEF Repairable

\* Wherever a session starts from, it comes past the orphaned blocks before a
\* block of the chain.
LEMMA RepairStart ==
  ASSUME TypesInv, Start, account.isETH, Repairable
  PROVE  Repairable'
<1>1. pc = "off" /\ pc' = "token" /\ UNCHANGED <<chain, blocks, ops, tip>>  BY StartFacts, Zenon
<1>2. Reached = saved /\ Reached' = cursors'  BY <1>1 DEF Reached
<1>3. ~(pc' \in {"store", "kill"} \/ (pc' = "off" /\ succeeded'))  BY <1>1
<1>4. CASE saved = <<>> /\ cursors' = <<>>
  <2>1. ops' = {}  BY <1>1, <1>2, <1>4, Zenon DEF Repairable
  <2>2. \A c \in {Reached[i] : i \in DOMAIN Reached}' : FALSE
    <3>1. DOMAIN Reached' = {}  BY <1>2, <1>4
    <3>2. QED BY <3>1
  <2>3. QED BY <1>3, <2>1, <2>2, Zenon DEF Repairable
<1>5. CASE DOMAIN saved = {1} /\ DOMAIN cursors' = {1}
  <2>1. PICK s : s = saved[1]  OBVIOUS
  <2>2. PICK c : c = cursors'[1]  OBVIOUS
  <2>3. Below(s) /\ Height(s) \in Nat
    <3>1. s \in {Reached[i] : i \in DOMAIN Reached}  BY <1>2, <1>5, <2>1
    <3>2. QED BY <3>1, RepairFacts, Zenon DEF Repairable
  <2>4. Below(c)
    <3>1. c = s \/ ((c = NoBlock \/ \E o \in ops : c = o[1]) /\ \A o \in ops : Height(o[1]) <= Height(c))
      <4>1. saved # <<>>  BY <1>5
      <4>2. QED BY <2>1, <2>2, <4>1, OneStart, Zenon
    <3>2. CASE c = s  BY <2>3, <3>2
    <3>3. CASE (c = NoBlock \/ \E o \in ops : c = o[1]) /\ \A o \in ops : Height(o[1]) <= Height(c)
      <4>1. SUFFICES ASSUME NEW o \in ops, Stale(o)
                     PROVE  /\ ~OnChain(c)
                            /\ \A p \in ops : ~Stale(p) => Height(p[1]) < Height(o[1])
                            /\ \A b \in blocks \union {tip} :
                                 b # NoBlock /\ OnChain(b) /\ Height(b) >= Height(o[1]) => Height(b) >= Height(c)
        BY <3>3, Zenon DEF Below
      <4>2. Height(o[1]) \in Nat /\ Height(o[1]) # 0 /\ Height(o[1]) <= Height(c)  BY <3>3, RepairFacts
      <4>3. \A p \in ops : ~Stale(p) => Height(p[1]) < Height(o[1])  BY <2>3, <4>1, Zenon DEF Below
      <4>4. PICK p \in ops : c = p[1]
        <5>1. c # NoBlock  BY <4>2, CursorFacts
        <5>2. QED BY <3>3, <5>1
      <4>5. Height(c) \in Nat /\ Height(c) <= Height(s)
        <5>1. Height(p[1]) \in Nat  BY RepairFacts
        <5>2. Height(p[1]) <= Height(s)  BY <2>3, Zenon DEF Below
        <5>3. QED BY <4>4, <5>1, <5>2
      <4>6. ~OnChain(c)
        <5>1. ~(Height(p[1]) < Height(o[1]))  BY <4>2, <4>4, <4>5
        <5>2. Stale(p)  BY <4>3, <5>1, Zenon
        <5>3. QED BY <4>4, <5>2, Zenon DEF Stale
      <4>7. \A b \in blocks \union {tip} :
              b # NoBlock /\ OnChain(b) /\ Height(b) >= Height(o[1]) => Height(b) >= Height(c)
        <5>1. \A b \in blocks \union {tip} :
                b # NoBlock /\ OnChain(b) /\ Height(b) >= Height(o[1]) => Height(b) >= Height(s)
          BY <2>3, <4>1, Zenon DEF Below
        <5>2. \A b \in blocks \union {tip} : Height(b) \in Nat  BY RepairFacts
        <5>3. \A b \in blocks \union {tip} : Height(b) >= Height(s) => Height(b) >= Height(c)
          BY <2>3, <4>5, <5>2
        <5>4. QED BY <5>1, <5>3, Zenon
      <4>8. QED BY <4>3, <4>6, <4>7
    <3>4. QED BY <3>1, <3>2, <3>3
  <2>5. Below(c)'
    <3>1. \A b : OnChain(b)' <=> OnChain(b)  BY <1>1, Zenon DEF OnChain
    <3>2. \A o : Stale(o)' <=> Stale(o)  BY <3>1, Zenon DEF Stale
    <3>3. QED BY <1>1, <2>4, <3>1, <3>2, Zenon DEF Below
  <2>6. \A d \in {Reached[i] : i \in DOMAIN Reached}' : d = c
    <3>1. DOMAIN Reached' = {1} /\ Reached'[1] = c  BY <1>2, <1>5, <2>2
    <3>2. QED BY <3>1
  <2>7. Reached' # <<>>
    <3>1. DOMAIN Reached' = {1}  BY <1>2, <1>5
    <3>2. QED BY <3>1
  <2>8. QED BY <1>3, <2>5, <2>6, <2>7, Zenon DEF Repairable
<1>6. QED BY <1>4, <1>5, OneStart, Zenon

\* A page is answered only when the cursor is on the chain: nothing is stale.
LEMMA RepairPage ==
  ASSUME TypesInv, StorePage, account.isETH, Repairable
  PROVE  Repairable'
<1>1. /\ pc = "fetch" /\ batch \in DOMAIN cursors /\ Here \in Cursors /\ OnChain(Here)
      /\ UNCHANGED chain /\ pc' \in {"fetch", "store"}
      /\ \A o \in ops' : o \in ops \/ o[1] \in Fetched
      /\ DOMAIN cursors' = DOMAIN cursors /\ Len(cursors') = Len(cursors)
      /\ Fetched # {} => cursors'[batch] \in Fetched /\ \A b \in Fetched : Height(b) <= Height(cursors'[batch])
      /\ Fetched = {} => cursors' = cursors
  BY PageStep, Zenon
<1>2. Reached = cursors /\ Reached' = cursors'  BY <1>1 DEF Reached
<1>3. batch = 1 /\ CursorBlocks = {Here} /\ Here = cursors[1] /\ DOMAIN cursors = {1}
  <2>1. batch = 1 /\ CursorBlocks = {Here}  BY <1>1, OneCursor
  <2>2. DOMAIN cursors = {1}  BY <1>1, <2>1, OneCursor
  <2>3. QED BY <2>1, <2>2 DEF Here
<1>4. Below(Here)
  <2>1. Here \in {Reached[i] : i \in DOMAIN Reached}  BY <1>2, <1>3
  <2>2. QED BY <2>1, Zenon DEF Repairable
<1>5. \A o \in ops : ~Stale(o)  BY <1>1, <1>4, Zenon DEF Below
<1>6. \A b : OnChain(b)' <=> OnChain(b)  BY <1>1, Zenon DEF OnChain
<1>7. \A o \in ops' : ~Stale(o)'
  <2>1. \A b \in Fetched : OnChain(b)  BY <1>1, FetchedFacts, Zenon
  <2>2. QED BY <1>1, <1>5, <1>6, <2>1, Zenon DEF Stale
<1>8. PICK c : c = cursors'[1]  OBVIOUS
<1>9. \A o \in ops' : Height(o[1]) <= Height(c)
  <2>1. CASE Fetched = {}
    <3>1. c = Here  BY <1>1, <1>3, <1>8, <2>1
    <3>2. QED BY <1>1, <1>4, <2>1, <3>1, Zenon DEF Below
  <2>2. CASE Fetched # {}
    <3>1. c \in Fetched /\ \A b \in Fetched : Height(b) <= Height(c)  BY <1>1, <1>3, <1>8, <2>2
    <3>2. Height(c) >= Height(Here) /\ Height(c) \in Nat
      <4>1. PICK h \in DOMAIN chain : Height(c) = h /\ h >= Height(Here)  BY <1>1, <3>1, FetchedFacts, Zenon
      <4>2. QED BY <4>1, ChainFacts
    <3>3. \A o \in ops : Height(o[1]) <= Height(Here) /\ Height(o[1]) \in Nat
      BY <1>4, RepairFacts, Zenon DEF Below
    <3>4. Height(Here) \in Nat  BY <1>1, CursorFacts
    <3>5. \A o \in ops : Height(o[1]) <= Height(c)  BY <3>2, <3>3, <3>4
    <3>6. QED BY <1>1, <3>1, <3>5, Zenon
  <2>3. QED BY <2>1, <2>2
<1>10. Below(c)'  BY <1>7, <1>9, Zenon DEF Below
<1>11. \A d \in {Reached[i] : i \in DOMAIN Reached}' : d = c
  <2>1. DOMAIN Reached' = {1} /\ Reached'[1] = c  BY <1>1, <1>2, <1>3, <1>8
  <2>2. QED BY <2>1
<1>12. Reached' # <<>>
  <2>1. DOMAIN Reached' = {1}  BY <1>1, <1>2, <1>3
  <2>2. QED BY <2>1
<1>13. QED BY <1>7, <1>10, <1>11, <1>12, Zenon DEF Repairable

\* Recovery does not fall back to a block of the chain from above an orphaned
\* operation.
LEMMA RepairRecover ==
  ASSUME TypesInv, Recover, account.isETH, Repairable
  PROVE  Repairable'
<1>1. /\ pc = "fetch" /\ pc' = "recovered" /\ Here # NoBlock /\ Height(Here) \in Nat
      /\ UNCHANGED <<chain, tip>> /\ DeleteFrom(Height(Here)) /\ DOMAIN cursors' = DOMAIN cursors
  BY RecoverFacts, Zenon DEF Here
<1>2. PICK b : /\ b \in Cursors /\ b \in blocks' \union {NoBlock}
               /\ \A x \in blocks' : Height(x) <= Height(b)
               /\ \A i \in DOMAIN cursors : cursors'[i] = IF Height(cursors[i]) > Height(b) THEN b ELSE cursors[i]
  BY RecoverFacts, Zenon
<1>3. /\ blocks' \subseteq blocks /\ ops' \subseteq ops /\ ops' \subseteq blocks' \X Addresses
      /\ \A x \in blocks : x \in blocks' <=> Height(x) < Height(Here)
  BY <1>1, DeleteFacts, Zenon
<1>4. Reached = cursors /\ Reached' = cursors'  BY <1>1 DEF Reached
<1>5. batch = 1 /\ Here = cursors[1] /\ DOMAIN cursors = {1}
  <2>1. batch = 1 /\ batch \in DOMAIN cursors  BY <1>1, OneCursor, TypeFacts
  <2>2. DOMAIN cursors = {1}  BY <2>1, OneCursor
  <2>3. QED BY <2>1, <2>2 DEF Here
<1>6. Height(b) < Height(Here) /\ Height(b) \in Nat
  <2>1. Height(b) \in Nat /\ (b = NoBlock => Height(b) = 0)  BY <1>2, CursorFacts
  <2>2. Height(Here) # 0
    <3>1. Here \in Cursors  BY <1>5, TypeFacts
    <3>2. QED BY <1>1, <3>1, CursorFacts
  <2>3. CASE b = NoBlock  BY <1>1, <2>1, <2>2, <2>3
  <2>4. CASE b \in blocks'  BY <1>3, <2>1, <2>4
  <2>5. QED BY <1>2, <2>3, <2>4
<1>7. cursors'[1] = b
  <2>1. Height(cursors[1]) > Height(b)  BY <1>1, <1>5, <1>6
  <2>2. QED BY <1>2, <1>5, <2>1, Zenon
<1>8. Below(Here)
  <2>1. Here \in {Reached[i] : i \in DOMAIN Reached}  BY <1>4, <1>5
  <2>2. QED BY <2>1, Zenon DEF Repairable
<1>9. \A x : OnChain(x)' <=> OnChain(x)  BY <1>1, Zenon DEF OnChain
<1>10. \A o \in ops' : Height(o[1]) <= Height(b)
  <2>1. \A o \in ops' : o[1] \in blocks'  BY <1>3
  <2>2. QED BY <1>2, <2>1, Zenon
<1>11. ASSUME NEW o \in ops', Stale(o)'
       PROVE  /\ ~OnChain(b)'
              /\ \A p \in ops' : ~Stale(p)' => Height(p[1]) < Height(o[1])
              /\ \A x \in blocks' \union {tip'} :
                   x # NoBlock /\ OnChain(x)' /\ Height(x) >= Height(o[1]) => Height(x) >= Height(b)
  <2>1. o \in ops /\ Stale(o)  BY <1>3, <1>9, <1>11, Zenon DEF Stale
  <2>2. /\ \A p \in ops : ~Stale(p) => Height(p[1]) < Height(o[1])
        /\ \A x \in blocks \union {tip} :
             x # NoBlock /\ OnChain(x) /\ Height(x) >= Height(o[1]) => Height(x) >= Height(Here)
    BY <1>8, <2>1, Zenon DEF Below
  <2>3. \A x \in blocks \union {tip} : Height(x) \in Nat  BY RepairFacts
  <2>4. Height(o[1]) \in Nat /\ Height(o[1]) # 0 /\ Height(o[1]) <= Height(b)
    BY <1>10, <1>11, <2>1, RepairFacts
  <2>5. ~OnChain(b)
    <3>1. b # NoBlock  BY <1>6, <2>4, CursorFacts
    <3>2. b \in blocks  BY <1>2, <1>3, <3>1, Zenon
    <3>3. Height(b) >= Height(o[1]) /\ ~(Height(b) >= Height(Here))  BY <1>1, <1>6, <2>4
    <3>4. QED BY <2>2, <3>1, <3>2, <3>3, Zenon
  <2>6. \A x \in blocks \union {tip} : Height(x) >= Height(Here) => Height(x) >= Height(b)
    BY <1>1, <1>6, <2>3
  <2>7. \A x \in blocks' \union {tip'} : x \in blocks \union {tip}  BY <1>1, <1>3
  <2>8. \A p \in ops' : p \in ops /\ (~Stale(p)' => ~Stale(p))  BY <1>3, <1>9, Zenon DEF Stale
  <2>9. QED BY <1>9, <2>2, <2>5, <2>6, <2>7, <2>8, Zenon
<1>12. Below(b)'  BY <1>10, <1>11, Zenon DEF Below
<1>13. \A d \in {Reached[i] : i \in DOMAIN Reached}' : d = b
  <2>1. DOMAIN Reached' = {1} /\ Reached'[1] = b  BY <1>1, <1>4, <1>5, <1>7
  <2>2. QED BY <2>1
<1>14. Reached' # <<>>
  <2>1. DOMAIN Reached' = {1}  BY <1>1, <1>4, <1>5
  <2>2. QED BY <2>1
<1>15. ~(pc' \in {"store", "kill"} \/ (pc' = "off" /\ succeeded'))  BY <1>1
<1>16. QED BY <1>12, <1>13, <1>14, <1>15, Zenon DEF Repairable

\* The steps that leave the cursor, and operations but for a deletion, alone.
LEMMA RepairAround ==
  ASSUME TypesInv, account.isETH, Repairable,
         past' \intersect {"mempool", "branchStored", "failed"} = {},
         \/ FetchTip \/ PutTip \/ EndsSession \/ ObtainToken \/ StoreRecovered \/ StoreState
         \/ OtherAccountStores \/ OtherAccountRecovers
  PROVE  Repairable'
<1>1. \A b \in blocks \union {tip} : b \in blocks \union {tip} \union {NoBlock}  OBVIOUS
<1>2. CASE FetchTip
  <2>1. /\ UNCHANGED <<chain, blocks, ops, saved, cursors, pc, quiet, succeeded>> /\ tip' = chain[Len(chain)]
    BY <1>2 DEF FetchTip, chainVars, dbVars, sessionVars, ghosts
  <2>2. Reached' = Reached  BY <2>1 DEF Reached
  <2>3. \A c \in {Reached[i] : i \in DOMAIN Reached} : Height(tip') >= Height(c)
    <3>1. Height(tip') = Len(chain) /\ Len(chain) \in Nat /\ DOMAIN chain = 1..Len(chain)  BY <2>1, ChainFacts
    <3>2. ASSUME NEW c \in {Reached[i] : i \in DOMAIN Reached} PROVE Height(tip') >= Height(c)
      <4>1. c \in Cursors /\ Known(c) /\ Height(c) \in Nat  BY RepairFacts
      <4>2. c = NoBlock \/ Height(c) \in DOMAIN chain  BY <4>1, Zenon DEF Known
      <4>3. c = NoBlock => Height(c) = 0  BY CursorFacts
      <4>4. QED BY <3>1, <4>1, <4>2, <4>3
    <3>3. QED BY <3>2
  <2>4. \A b \in blocks' \union {tip'} :
          \/ b \in blocks \union {tip} \union {NoBlock}
          \/ \A c \in {Reached[i] : i \in DOMAIN Reached}, o \in ops :
               Stale(o) /\ Height(b) >= Height(o[1]) => Height(b) >= Height(c)
    <3>1. \A b \in blocks' \union {tip'} : b \in blocks \/ b = tip'  BY <2>1
    <3>2. QED BY <2>3, <3>1, Zenon
  <2>5. ops' \subseteq ops  BY <2>1
  <2>6. QED BY <2>1, <2>2, <2>4, <2>5, RepairKept, Zenon
<1>3. CASE PutTip
  <2>1. /\ UNCHANGED <<chain, ops, saved, cursors, pc, quiet, succeeded>>
        /\ tip' = NoBlock /\ blocks' = blocks \union {tip}
    BY <1>3 DEF PutTip, chainVars, sessionVars
  <2>2. Reached' = Reached  BY <2>1 DEF Reached
  <2>3. \A b \in blocks' \union {tip'} : b \in blocks \union {tip} \union {NoBlock}  BY <2>1
  <2>4. ops' \subseteq ops  BY <2>1
  <2>5. QED BY <2>1, <2>2, <2>3, <2>4, RepairKept, Zenon
<1>4. CASE EndsSession
  <2>1. /\ pc' = "off" /\ UNCHANGED <<chain, blocks, ops, saved, quiet>> /\ (tip' = tip \/ tip' = NoBlock)
        /\ pc = "kill"
    BY <1>4, EndFacts, Zenon
  <2>2. Reached' = Reached
    <3>1. saved = cursors  BY <2>1, Zenon DEF TypesInv, SessionInv
    <3>2. QED BY <2>1, <3>1 DEF Reached
  <2>3. \A b \in blocks' \union {tip'} : b \in blocks \union {tip} \union {NoBlock}  BY <2>1
  <2>4. ops' \subseteq ops /\ UNCHANGED chain  BY <2>1
  <2>5. quiet' => quiet /\ pc \in {"store", "kill"}  BY <2>1
  <2>6. QED BY <2>2, <2>3, <2>4, <2>5, RepairKept, Zenon
<1>5. CASE ObtainToken \/ StoreRecovered
  <2>1. /\ UNCHANGED <<chain, blocks, ops, tip>> /\ pc \in {"token", "recovered"} /\ pc' = "fetch"
    BY <1>5 DEF ObtainToken, StoreRecovered, Enter, chainVars, dbVars, tipVars
  <2>2. Reached = cursors /\ Reached' = cursors'  BY <2>1 DEF Reached
  <2>3. cursors' = IF 1 > Len(cursors) THEN Append(cursors, NoBlock) ELSE cursors
    <3>1. CASE ObtainToken  BY <3>1 DEF ObtainToken, Enter
    <3>2. CASE StoreRecovered
      <4>1. batch = 1 /\ cursors' = IF batch > Len(cursors) THEN Append(cursors, NoBlock) ELSE cursors
        BY <3>2, OneCursor DEF StoreRecovered, Enter
      <4>2. QED BY <4>1
    <3>3. QED BY <1>5, <3>1, <3>2
  <2>4. ~(pc' \in {"store", "kill"} \/ (pc' = "off" /\ succeeded'))  BY <2>1
  <2>5. CASE 1 > Len(cursors)
    <3>1. cursors = <<>>  BY <2>5, TypeFacts
    <3>2. ops' = {}  BY <2>1, <2>2, <3>1, Zenon DEF Repairable
    <3>3. Reached' # <<>>
      <4>1. cursors' = <<NoBlock>>  BY <2>3, <3>1
      <4>2. QED BY <2>2, <4>1
    <3>4. \A c \in {Reached[i] : i \in DOMAIN Reached}' : Below(c)'  BY <3>2, Zenon DEF Below
    <3>5. QED BY <2>4, <3>3, <3>4, Zenon DEF Repairable
  <2>6. CASE ~(1 > Len(cursors))
    <3>1. Reached' = Reached /\ ops' \subseteq ops /\ UNCHANGED chain  BY <2>1, <2>2, <2>3, <2>6
    <3>2. \A b \in blocks' \union {tip'} : b \in blocks \union {tip} \union {NoBlock}  BY <2>1
    <3>3. QED BY <2>4, <3>1, <3>2, RepairKept, Zenon
  <2>7. QED BY <2>5, <2>6
<1>6. CASE StoreState
  <2>1. ~More  BY DEF More
  <2>2. /\ UNCHANGED <<chain, blocks, ops, cursors, tip, quiet>> /\ pc = "store" /\ pc' = "kill"
    BY <1>6, <2>1 DEF StoreState, chainVars, tipVars, ghosts
  <2>3. Reached' = Reached /\ ops' \subseteq ops  BY <2>2 DEF Reached
  <2>4. \A b \in blocks' \union {tip'} : b \in blocks \union {tip} \union {NoBlock}  BY <2>2
  <2>5. quiet' => quiet /\ pc \in {"store", "kill"}  BY <2>2
  <2>6. QED BY <2>2, <2>3, <2>4, <2>5, RepairKept, Zenon
<1>7. CASE OtherAccountStores
  <2>1. PICK h \in DOMAIN chain : /\ blocks' = blocks \union {chain[h]}
                                  /\ past' = past \union (IF chain[h][2] > 0 THEN {"branchStored"} ELSE {})
    BY <1>7 DEF OtherAccountStores
  <2>2. UNCHANGED <<chain, ops, saved, cursors, pc, tip, quiet, succeeded>>
    BY <1>7 DEF OtherAccountStores, chainVars, sessionVars, tipVars
  <2>3. Reached' = Reached /\ ops' \subseteq ops  BY <2>2 DEF Reached
  <2>4. chain[h][2] = 0
    <3>1. ~(chain[h][2] > 0)  BY <2>1
    <3>2. chain[h][2] \in 0..fork /\ fork \in Nat  BY ChainFacts, BoundsAssumption
    <3>3. QED BY <3>1, <3>2
  \* What is below a block of the first branch is of that branch.
  <2>5. ASSUME NEW o \in ops, Stale(o), Height(chain[h]) >= Height(o[1]) PROVE FALSE
    <3>1. o[1] \in Cursors /\ Known(o[1]) /\ o[1] # NoBlock  BY RepairFacts
    <3>2. PICK g : g = Height(o[1])  OBVIOUS
    <3>3. g \in DOMAIN chain /\ o[1][2] <= chain[g][2]  BY <3>1, <3>2, Zenon DEF Known
    <3>4. g <= h  BY <2>5, <3>2, <3>3, ChainFacts
    <3>5. chain[g][2] <= 0 /\ chain[g][2] \in 0..fork /\ fork \in Nat /\ o[1][2] \in Nat
      BY <2>4, <3>1, <3>3, <3>4, ChainFacts, CursorFacts, BoundsAssumption
    <3>6. chain[g][2] = 0 /\ o[1][2] = 0  BY <3>3, <3>5
    <3>7. chain[g] = <<g, 0>>
      <4>1. chain[g] = <<g, chain[g][2]>>  BY <3>3, ChainFacts
      <4>2. QED BY <3>6, <4>1
    <3>8. o[1] = <<g, 0>>
      <4>1. o[1] = <<o[1][1], o[1][2]>> /\ Height(o[1]) = o[1][1]  BY <3>1, CursorFacts
      <4>2. QED BY <3>2, <3>6, <4>1
    <3>9. QED BY <2>5, <3>3, <3>7, <3>8, Zenon DEF Stale, OnChain
  <2>6. \A b \in blocks' \union {tip'} :
          \/ b \in blocks \union {tip} \union {NoBlock}
          \/ \A c \in {Reached[i] : i \in DOMAIN Reached}, o \in ops :
               Stale(o) /\ Height(b) >= Height(o[1]) => Height(b) >= Height(c)
    <3>1. \A b \in blocks' \union {tip'} : b \in blocks \union {tip} \/ b = chain[h]  BY <2>1, <2>2
    <3>2. QED BY <2>5, <3>1, Zenon
  <2>7. QED BY <2>2, <2>3, <2>6, RepairKept, Zenon
<1>8. CASE OtherAccountRecovers
  <2>1. PICK h \in 1..MaxHeight : DeleteFrom(h)  BY <1>8 DEF OtherAccountRecovers
  <2>2. UNCHANGED <<chain, saved, cursors, pc, tip>> /\ ~quiet'
    BY <1>8 DEF OtherAccountRecovers, chainVars, sessionVars, tipVars
  <2>3. blocks' \subseteq blocks /\ ops' \subseteq ops
    <3>1. h \in Nat  OBVIOUS
    <3>2. QED BY <2>1, <3>1, DeleteFacts, Zenon
  <2>4. Reached' = Reached  BY <2>2 DEF Reached
  <2>5. \A b \in blocks' \union {tip'} : b \in blocks \union {tip} \union {NoBlock}  BY <2>2, <2>3
  <2>6. QED BY <2>2, <2>3, <2>4, <2>5, RepairKept, Zenon
<1>9. QED BY <1>2, <1>3, <1>4, <1>5, <1>6, <1>7, <1>8

\* What an account of one batch needs to be repaired holds in every behaviour.
LEMMA StaleNext ==
  ASSUME TypesInv, StaleInv, [Next]_vars
  PROVE  StaleInv'
<1>1. CASE UNCHANGED vars
  <2>1. UNCHANGED <<account, chain, blocks, ops, saved, cursors, pc, tip, quiet, succeeded, past>>
    BY <1>1 DEF vars, chainVars, dbVars, sessionVars, tipVars, ghosts
  <2>2. Reached' = Reached /\ ops' \subseteq ops  BY <2>1 DEF Reached
  <2>3. \A b \in blocks' \union {tip'} : b \in blocks \union {tip} \union {NoBlock}  BY <2>1
  <2>4. Repairable => Repairable'  BY <2>1, <2>2, <2>3, RepairKept, Zenon
  <2>5. QED BY <2>1, <2>4, Zenon DEF StaleInv
<1>2. CASE Next
  <2>1. SUFFICES ASSUME account.isETH, past' \intersect {"mempool", "branchStored", "failed"} = {}
                 PROVE  Repairable'
    BY History, Zenon DEF StaleInv
  <2>2. Repairable
    <3>1. past \intersect {"mempool", "branchStored", "failed"} = {}
      <4>1. past \subseteq past'  BY History
      <4>2. QED BY <2>1, <4>1
    <3>2. QED BY <2>1, <3>1, Zenon DEF StaleInv
  <2>3. CASE NewBlock \/ \E h \in 1..MaxHeight : Reorganize(h)
    <3>1. Grows /\ ChainChanged
      <4>1. CASE NewBlock  BY <4>1, NewBlockGrows, Zenon DEF NewBlock
      <4>2. CASE \E h \in 1..MaxHeight : Reorganize(h)
        BY <4>2, ReorganizeGrows, Zenon DEF Reorganize
      <4>3. QED BY <2>3, <4>1, <4>2
    <3>2. QED BY <2>1, <2>2, <3>1, RepairChain
  <2>4. CASE Start  BY <2>1, <2>2, <2>4, RepairStart
  <2>5. CASE StorePage  BY <2>1, <2>2, <2>5, RepairPage
  <2>6. CASE StoreMempoolPage
    <3>1. "mempool" \in past'  BY <2>6 DEF StoreMempoolPage
    <3>2. QED BY <2>1, <3>1
  <2>7. CASE BlockNotFound \/ ServerError
    <3>1. Recover  BY <2>7 DEF BlockNotFound, ServerError
    <3>2. QED BY <2>1, <2>2, <3>1, RepairRecover
  <2>8. CASE \/ FetchTip \/ PutTip \/ EndsSession \/ ObtainToken \/ StoreRecovered \/ StoreState
             \/ OtherAccountStores \/ OtherAccountRecovers
    BY <2>1, <2>2, <2>8, RepairAround
  <2>9. CASE Configure
    <3>1. account.trouble = "resize"  BY <2>9 DEF Configure, Trouble
    <3>2. QED BY <2>1, <3>1, AccountFacts, Zenon DEF TypesInv
  <2>10. QED BY <1>2, <2>3, <2>4, <2>5, <2>6, <2>7, <2>8, <2>9, Steps, Zenon
<1>3. QED BY <1>1, <1>2

\* An account of one batch whose sessions were not cut short resumes above its
\* orphaned operations or on an orphaned block, so that recovery comes past
\* them: nothing known of the chain lies in between.
THEOREM StaleHolds == SafetySpec => [](TypesInv /\ StaleInv)
<1>1. Init => TypesInv  BY InitTypes
<1>2. Init => StaleInv
  <2>1. SUFFICES ASSUME Init PROVE Repairable  BY Zenon DEF StaleInv
  <2>2. ops = {} /\ saved = <<>> /\ pc = "off" /\ cursors = <<>>  BY <2>1 DEF Init
  <2>3. Reached = <<>>  BY <2>2 DEF Reached
  <2>4. \A c : Below(c)  BY <2>2, Zenon DEF Below
  <2>5. QED BY <2>2, <2>4, Zenon DEF Repairable
<1>3. TypesInv /\ StaleInv /\ [Next]_vars => (TypesInv /\ StaleInv)'  BY NextTypes, StaleNext
<1>4. QED BY <1>1, <1>2, <1>3, PTL DEF SafetySpec

\* A session of such an account that succeeds with the chain still leaves no
\* operation of an orphaned block.
THEOREM NoStaleHolds == Spec => []NoStaleOperation
<1>1. TypesInv /\ StaleInv => NoStaleOperation
  <2>1. SUFFICES ASSUME StaleInv, account.isETH, past \intersect {"mempool", "branchStored"} = {},
                        QuietSuccess, "failed" \notin past, NEW o \in ops
                 PROVE  OnChain(o[1])
    BY Zenon DEF NoStaleOperation, EveryOrphanDeleted
  <2>2. past \intersect {"mempool", "branchStored", "failed"} = {}  BY <2>1
  <2>3. Repairable  BY <2>1, <2>2, Zenon DEF StaleInv
  <2>4. ~Stale(o)  BY <2>1, <2>3, Zenon DEF Repairable, QuietSuccess
  <2>5. QED BY <2>4, Zenon DEF Stale
<1>2. QED BY <1>1, StaleHolds, PTL DEF Spec

---------------------------------------------------------------------------
(* Each step of a session brings its end closer.                           *)

\* Less is the order of the natural numbers, as the library's theorems take it.
Less == {ss \in Nat \X Nat : ss[1] < ss[2]}

\* A set of natural numbers has a least one.
LEMMA Least ==
  ASSUME NEW S \in SUBSET Nat, S # {}
  PROVE  \E m \in S : \A n \in S : m <= n
<1>1. IsWellFoundedOn(Less, Nat)  BY NatLessThanWellFounded DEF OpToRel, Less
<1>2. PICK m \in S : \A n \in S : <<n, m>> \notin Less  BY <1>1, WFMin, Zenon
<1>3. \A n \in S : ~(n < m)
  <2>1. \A n \in S : <<n, m>> \in Nat \X Nat /\ <<n, m>>[1] = n /\ <<n, m>>[2] = m  OBVIOUS
  <2>2. QED BY <1>2, <2>1 DEF Less
<1>4. QED BY <1>3

\* A page that is not the last has a block above the one asked for: it has room
\* for the two lowest.
LEMMA PageAdvances ==
  ASSUME TypesInv, NEW i, NEW from \in Cursors, HasNext(i, from)
  PROVE  \E b \in Page(i, from) : b \in Cursors /\ Height(b) > Height(from)
<1> DEFINE M == Matching(i, from)
           below(h) == {f \in M : f < h}
<1>1. IsFiniteSet(M) /\ \A h \in M : h \in DOMAIN chain /\ h \in Nat /\ h >= Height(from)
  BY MatchingFacts, Zenon
<1>2. PageLimit \in Nat /\ PageLimit >= 2  BY PageLimitAssumption
<1>3. Page(i, from) = {chain[h] : h \in {g \in M : Cardinality(below(g)) < PageLimit}}  BY DEF Page
<1>4. Cardinality(M) > PageLimit /\ Cardinality(M) \in Nat
  BY <1>1, FS_CardinalityType DEF HasNext
<1> HIDE DEF M
<1>5. M \in SUBSET Nat  BY <1>1
<1>6. M # {}
  <2>1. Cardinality({}) = 0  BY FS_EmptySet
  <2>2. QED BY <1>2, <1>4, <2>1
<1>7. PICK l \in M : \A n \in M : l <= n  BY <1>5, <1>6, Least
<1>8. M \ {l} # {} /\ M \ {l} \in SUBSET Nat
  <2>1. Cardinality(M \ {l}) = Cardinality(M) - 1  BY <1>1, FS_RemoveElement
  <2>2. Cardinality({}) = 0  BY FS_EmptySet
  <2>3. M \ {l} # {}
    <3>1. Cardinality(M \ {l}) # 0  BY <1>2, <1>4, <2>1
    <3>2. QED BY <2>2, <3>1
  <2>4. QED BY <1>5, <2>3
<1>9. PICK m \in M \ {l} : \A n \in M \ {l} : m <= n  BY <1>8, Least
<1>10. below(m) = {l}
  <2>1. l < m  BY <1>5, <1>7, <1>9
  <2>2. \A n \in M : n < m => n = l  BY <1>5, <1>9
  <2>3. QED BY <2>1, <2>2
<1>11. Cardinality(below(m)) < PageLimit
  <2>1. Cardinality({l}) = 1  BY FS_Singleton
  <2>2. QED BY <1>2, <1>10, <2>1
<1> HIDE DEF below
<1>12. chain[m] \in Page(i, from)  BY <1>3, <1>9, <1>11
<1>13. Height(chain[m]) = m /\ chain[m] \in Cursors  BY <1>1, <1>9, ChainFacts
<1>14. m > Height(from)
  <2>1. Height(from) \in Nat  BY CursorFacts
  <2>2. QED BY <1>1, <1>5, <1>7, <1>9, <2>1
<1>15. QED BY <1>12, <1>13, <1>14

\* The stages in their order.
LEMMA StageFacts ==
  /\ Stage["token"] = 0 /\ Stage["recovered"] = 1 /\ Stage["fetch"] = 2
  /\ Stage["store"] = 3 /\ Stage["kill"] = 4 /\ Stage["off"] = 5
BY DEF Stage

\* Cursors that are where they were, or on the chain, are on no higher orphaned
\* block.
LEMMA NoHigher ==
  ASSUME TypesInv, TypesInv', UNCHANGED chain,
         \A i \in DOMAIN cursors' :
           OnChain(cursors'[i]) \/ (i \in DOMAIN cursors /\ cursors'[i] = cursors[i])
  PROVE  \A g \in Orphaned' : \E h \in Orphaned : g <= h
<1>1. \A i \in DOMAIN cursors : Height(cursors[i]) \in Nat  BY TypeFacts, CursorFacts
<1>2. PICK s : s = cursors'  OBVIOUS
<1>3. \A b : OnChain(b)' <=> OnChain(b)  BY Zenon DEF OnChain
<1>4. \A g \in Orphaned' : \E i \in DOMAIN s : g = Height(s[i]) /\ ~OnChain(s[i])'  BY <1>2, Zenon DEF Orphaned
<1>5. \A g \in Orphaned' : \E i \in DOMAIN cursors : g = Height(cursors[i]) /\ ~OnChain(cursors[i])
  BY <1>2, <1>3, <1>4, Zenon
<1>6. \A i \in DOMAIN cursors : ~OnChain(cursors[i]) => Height(cursors[i]) \in Orphaned  BY Zenon DEF Orphaned
<1>7. QED BY <1>1, <1>5, <1>6

\* Recovery goes back below an orphaned cursor with all the others.
LEMMA CloserRecover ==
  ASSUME TypesInv, BlockNotFound
  PROVE  GoesBack
<1>1. Recover /\ ~OnChain(Here)  BY DEF BlockNotFound, Here
<1>2. /\ pc = "fetch" /\ Here # NoBlock /\ Height(Here) \in Nat /\ UNCHANGED chain
      /\ DeleteFrom(Height(Here)) /\ DOMAIN cursors' = DOMAIN cursors
  BY <1>1, RecoverFacts, Zenon DEF Here
<1>3. PICK b : /\ b \in Cursors /\ b \in blocks' \union {NoBlock}
               /\ \A i \in DOMAIN cursors : cursors'[i] = IF Height(cursors[i]) > Height(b) THEN b ELSE cursors[i]
  BY <1>1, RecoverFacts, Zenon
<1>4. batch \in DOMAIN cursors /\ Here \in Cursors /\ \A i \in DOMAIN cursors : Height(cursors[i]) \in Nat
  BY <1>2, TypeFacts, CursorFacts DEF Here
<1>5. Height(b) < Height(Here) /\ Height(b) \in Nat
  <2>1. Height(b) \in Nat /\ (b = NoBlock => Height(b) = 0) /\ Height(Here) # 0  BY <1>2, <1>3, <1>4, CursorFacts
  <2>2. CASE b = NoBlock  BY <1>2, <2>1, <2>2
  <2>3. CASE b \in blocks'
    <3>1. \A x \in blocks : x \in blocks' <=> Height(x) < Height(Here)  BY <1>2, DeleteFacts, Zenon
    <3>2. blocks' \subseteq blocks  BY <1>2, DeleteFacts, Zenon
    <3>3. QED BY <2>1, <2>3, <3>1, <3>2
  <2>4. QED BY <1>3, <2>2, <2>3
<1>6. PICK s : s = cursors'  OBVIOUS
<1>7. \A i \in DOMAIN s : Height(s[i]) < Height(Here)
  <2>1. SUFFICES ASSUME NEW i \in DOMAIN s PROVE Height(s[i]) < Height(Here)  OBVIOUS
  <2>2. i \in DOMAIN cursors /\ Height(cursors[i]) \in Nat  BY <1>2, <1>4, <1>6
  <2>3. s[i] = IF Height(cursors[i]) > Height(b) THEN b ELSE cursors[i]  BY <1>3, <1>6, <2>2, Zenon
  <2>4. QED BY <1>2, <1>5, <2>2, <2>3
<1>8. \A g \in Orphaned' : g < Height(Here)
  <2>1. \A g \in Orphaned' : \E i \in DOMAIN s : g = Height(s[i])  BY <1>6, Zenon DEF Orphaned
  <2>2. QED BY <1>7, <2>1, Zenon
<1>9. Height(Here) \in Orphaned  BY <1>1, <1>4, Zenon DEF Orphaned, Here
<1>10. QED BY <1>8, <1>9 DEF GoesBack

\* A page that is not the last moves its cursor on.
LEMMA CloserPage ==
  ASSUME TypesInv, TypesInv', StorePage
  PROVE  GoesOn
<1>1. /\ pc = "fetch" /\ batch \in DOMAIN cursors /\ Here \in Cursors /\ UNCHANGED <<chain, batch>>
      /\ pc' \in {"fetch", "store"} /\ (pc' = "store" => ~HasNext(batch, Here))
      /\ DOMAIN cursors' = DOMAIN cursors
      /\ \A i \in DOMAIN cursors : cursors'[i] = cursors[i] \/ cursors'[i] \in Fetched
      /\ Fetched # {} => \A b \in Fetched : Height(b) <= Height(cursors'[batch])
      /\ Fetched # {} => cursors'[batch] \in Fetched
  BY PageStep, Zenon
<1>2. \A g \in Orphaned' : \E h \in Orphaned : g <= h
  <2>1. \A b \in Fetched : OnChain(b)  BY <1>1, FetchedFacts, Zenon
  <2>2. UNCHANGED chain  BY <1>1
  <2>3. \A i \in DOMAIN cursors' : OnChain(cursors'[i]) \/ (i \in DOMAIN cursors /\ cursors'[i] = cursors[i])
    BY <1>1, <2>1, Zenon
  <2>4. QED BY <2>2, <2>3, NoHigher
<1>3. CASE pc' = "store"
  <2>1. Stage[pc'] > Stage[pc]  BY <1>1, <1>3, StageFacts
  <2>2. QED BY <1>1, <1>2, <2>1, Zenon DEF GoesOn
<1>4. CASE pc' = "fetch"
  <2>1. HasNext(batch, Here)  BY <1>4 DEF StorePage, PutPage, Here
  <2>2. PICK b \in Fetched : b \in Cursors /\ Height(b) > Height(Here)
    BY <1>1, <2>1, PageAdvances, Zenon DEF Fetched
  <2>3. PICK c : c = cursors'[batch]  OBVIOUS
  <2>4. Height(b) <= Height(c) /\ c \in Fetched  BY <1>1, <2>2, <2>3, Zenon
  <2>5. Height(b) \in Nat /\ Height(Here) \in Nat /\ Height(c) \in Nat
    <3>1. c \in Cursors  BY <1>1, <2>4, FetchedFacts
    <3>2. QED BY <1>1, <2>2, <3>1, CursorFacts
  <2>6. Height(c) > Height(Here)  BY <2>2, <2>4, <2>5
  <2>7. Height(cursors'[batch]) > Height(cursors[batch])  BY <2>3, <2>6 DEF Here
  <2>8. pc' = pc /\ batch' = batch  BY <1>1, <1>4
  <2>9. QED BY <1>2, <2>7, <2>8, Zenon DEF GoesOn
<1>5. QED BY <1>1, <1>3, <1>4

\* Before its first batch a session is in none.
FirstInv == pc \in {"off", "token"} => batch = 0

\* So it is in every behaviour.
THEOREM FirstHolds == SafetySpec => []FirstInv
<1>1. Init => FirstInv  BY DEF Init, FirstInv
<1>2. FirstInv /\ [Next]_vars => FirstInv'
  <2>1. SUFFICES ASSUME FirstInv, [Next]_vars, pc' \in {"off", "token"} PROVE batch' = 0  BY DEF FirstInv
  <2>2. CASE UNCHANGED vars  BY <2>1, <2>2 DEF vars, sessionVars, FirstInv
  <2>3. CASE NewBlock \/ (\E h \in 1..MaxHeight : Reorganize(h)) \/ FetchTip \/ PutTip \/ OtherAccountStores
             \/ OtherAccountRecovers \/ Configure
    BY <2>1, <2>3 DEF NewBlock, Reorganize, ChainChanged, FetchTip, PutTip, OtherAccountStores,
                      OtherAccountRecovers, Configure, sessionVars, FirstInv
  <2>4. CASE Start  BY <2>1, <2>4 DEF Start, FirstInv
  <2>5. CASE ObtainToken \/ StoreRecovered  BY <2>1, <2>5 DEF ObtainToken, StoreRecovered, Enter
  <2>6. CASE StorePage \/ StoreMempoolPage  BY <2>1, <2>6 DEF StorePage, StoreMempoolPage, PutPage
  <2>7. CASE StoreState  BY <2>1, <2>7 DEF StoreState, Enter
  <2>8. CASE BlockNotFound \/ ServerError  BY <2>1, <2>8 DEF BlockNotFound, ServerError, Recover
  <2>9. CASE EndsSession
    BY <2>1, <2>9 DEF EndsSession, KillSession, Fail, Crash, EndSession
  <2>10. QED BY <2>1, <2>2, <2>3, <2>4, <2>5, <2>6, <2>7, <2>8, <2>9, Steps, Zenon
<1>3. QED BY <1>1, <1>2, PTL DEF SafetySpec

\* Entering a batch adds at most a cursor at the genesis.
LEMMA CloserEnter ==
  ASSUME TypesInv, TypesInv', FirstInv, ObtainToken \/ StoreRecovered \/ (StoreState /\ More)
  PROVE  GoesOn
<1>1. PICK i \in 1..(Len(cursors) + 1) :
        /\ Enter(i, cursors) /\ UNCHANGED chain
        /\ i > batch \/ (i = batch /\ pc = "recovered")
  <2>1. CASE ObtainToken
    <3>1. Enter(1, cursors) /\ UNCHANGED chain /\ 1 \in 1..(Len(cursors) + 1)
      BY <2>1, TypeFacts DEF ObtainToken, chainVars
    <3>2. 1 > batch  BY <2>1 DEF ObtainToken, FirstInv
    <3>3. QED BY <3>1, <3>2
  <2>2. CASE StoreRecovered
    <3>1. pc = "recovered" /\ Enter(batch, cursors) /\ UNCHANGED chain
      BY <2>2 DEF StoreRecovered, chainVars
    <3>2. batch \in 1..(Len(cursors) + 1)  BY <3>1, TypeFacts
    <3>3. QED BY <3>1, <3>2
  <2>3. CASE StoreState /\ More
    <3>1. pc = "store" /\ Enter(batch + 1, cursors) /\ UNCHANGED chain
      BY <2>3 DEF StoreState, chainVars
    <3>2. batch + 1 \in 1..(Len(cursors) + 1) /\ batch + 1 > batch  BY <3>1, TypeFacts
    <3>3. QED BY <3>1, <3>2
  <2>4. QED BY <2>1, <2>2, <2>3
<1>2. cursors \in Seq(Cursors) /\ DOMAIN cursors = 1..Len(cursors)  BY TypeFacts
<1>3. /\ batch' = i /\ pc' = "fetch"
      /\ \A j \in DOMAIN cursors : cursors'[j] = cursors[j]
      /\ \A j \in DOMAIN cursors' : j \in DOMAIN cursors \/ cursors'[j] = NoBlock
  BY <1>1, <1>2, EnterFacts, Zenon
<1>4. \A g \in Orphaned' : \E h \in Orphaned : g <= h
  <2>1. \A j \in DOMAIN cursors' : OnChain(cursors'[j]) \/ (j \in DOMAIN cursors /\ cursors'[j] = cursors[j])
    BY <1>3, Zenon DEF OnChain
  <2>2. UNCHANGED chain  BY <1>1
  <2>3. QED BY <2>1, <2>2, NoHigher
<1>5. batch' > batch \/ (batch' = batch /\ Stage[pc'] > Stage[pc])
  <2>1. Stage["fetch"] > Stage["recovered"]  BY StageFacts
  <2>2. QED BY <1>1, <1>3, <2>1, Zenon
<1>6. QED BY <1>4, <1>5, Zenon DEF GoesOn

\* What TLC checks as SessionEnds rests on this, for all instances: orphaned
\* heights, batches, stages and blocks are bounded, so that no session goes on
\* for ever while the chain stands still.
THEOREM CloserHolds == Spec => ComesCloser
<1>1. TypesInv /\ TypesInv' /\ FirstInv /\ SessionStep => GoesBack \/ GoesOn
  <2>1. SUFFICES ASSUME TypesInv, TypesInv', FirstInv, SessionStep PROVE GoesBack \/ GoesOn  OBVIOUS
  <2>2. CASE BlockNotFound  BY <2>1, <2>2, CloserRecover
  <2>3. CASE StorePage  BY <2>1, <2>3, CloserPage
  <2>4. CASE ObtainToken \/ StoreRecovered \/ (StoreState /\ More)  BY <2>1, <2>4, CloserEnter
  <2>5. CASE StoreState /\ ~More
    <3>1. pc = "store" /\ pc' = "kill" /\ UNCHANGED <<chain, cursors, batch>>
      BY <2>5 DEF StoreState, chainVars
    <3>2. \A g \in Orphaned' : \E h \in Orphaned : g <= h
      <4>1. \A i \in DOMAIN cursors' : OnChain(cursors'[i]) \/ (i \in DOMAIN cursors /\ cursors'[i] = cursors[i])
        BY <3>1
      <4>2. UNCHANGED chain  BY <3>1
      <4>3. QED BY <2>1, <4>1, <4>2, NoHigher
    <3>3. Stage[pc'] > Stage[pc]  BY <3>1, StageFacts
    <3>4. QED BY <3>1, <3>2, <3>3, Zenon DEF GoesOn
  <2>6. CASE KillSession
    <3>1. pc' = "off" /\ cursors' = <<>> /\ UNCHANGED chain
      BY <2>6 DEF KillSession, EndSession, chainVars
    <3>2. \A g \in Orphaned' : \E h \in Orphaned : g <= h
      <4>1. DOMAIN cursors' = {}  BY <3>1
      <4>2. \A i \in DOMAIN cursors' : OnChain(cursors'[i]) \/ (i \in DOMAIN cursors /\ cursors'[i] = cursors[i])
        BY <4>1
      <4>3. UNCHANGED chain  BY <3>1
      <4>4. QED BY <2>1, <4>2, <4>3, NoHigher
    <3>3. QED BY <3>1, <3>2, Zenon DEF GoesOn
  <2>7. QED BY <2>1, <2>2, <2>3, <2>4, <2>5, <2>6, Zenon DEF SessionStep
<1>2. TypesInv /\ [Next]_vars => TypesInv'  BY NextTypes
<1>3. QED BY <1>1, <1>2, TypesHold, FirstHolds, PTL DEF Spec, SafetySpec, ComesCloser

=============================================================================
