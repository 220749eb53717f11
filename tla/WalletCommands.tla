--------------------------- MODULE WalletCommands ---------------------------
(***************************************************************************)
(* The commands add, list, sync and build over the wallet database, run    *)
(* any number of times, one after the other or at the same time in         *)
(* processes of their own.  Every run opens the pool, which migrates the   *)
(* database (Migrations), and then makes its calls one by one, each        *)
(* waiting for the last (CliRuntime has the waiting).  Any call may fail,  *)
(* and the process may be killed between any two.                          *)
(*                                                                         *)
(* The calls are the library's, which is not in the repository: they are   *)
(* taken to read or write the database at one moment each, a wallet's      *)
(* name being its key (WALLET_ALREADY_EXISTS).  The content of the         *)
(* database is the sequence of its wallets, in the order getWallets lists  *)
(* them.                                                                   *)
(***************************************************************************)
EXTENDS Migrations, Sequences

CONSTANTS
  Processes,
  Names,    \* names of wallets
  Limit     \* of wallets that are asked for, 1000 in the code

ASSUME LimitAssumption == Limit \in Nat \ {0}
ASSUME NoContentAssumption == NoContent = <<>>

VARIABLES
  proc,       \* [process -> the command it runs and where it is in it]
  halfAdded   \* names whose wallet an add left behind between its two calls
              \* that write

vars == <<db, file, wrapped, step, torn, repeated, proc, halfAdded>>

Commands == {"add", "list", "sync", "build"}
Wallets == db.content
NameAt(i) == Wallets[i].name
Has(name) == \E i \in DOMAIN Wallets : NameAt(i) = name
HasAccount(name) == \E i \in DOMAIN Wallets : NameAt(i) = name /\ Wallets[i].account

Min2(a, b) == IF a < b THEN a ELSE b

\* Where a process is, and what it said when it ended.
Running == {"opened", "checked", "created", "listing", "wallet", "account"}
Places == Running \union {"idle", "open", "migrating"}
Outcomes == {"nothing", "added", "exists", "none", "listed", "done", "refused", "failed"}
Fresh(cmd, name) ==
  [at |-> "idle", cmd |-> cmd, name |-> name, seen |-> <<>>, listed |-> 0, outcome |-> "nothing"]

Init ==
  /\ InitSchema
  /\ \E name \in Names : proc = [p \in Processes |-> Fresh("list", name)]
  /\ halfAdded = {}

---------------------------------------------------------------------------
(* Mutated forms of definitions below, one plausible mistake each.         *)
GetsAnyAccount(name) == Has(name)         \* a wallet for an account

---------------------------------------------------------------------------
(* A process starts, opens the pool and ends.                              *)

GoTo(p, at) == proc' = [proc EXCEPT ![p].at = at]
Finish(p, outcome) == proc' = [proc EXCEPT ![p].at = "idle", ![p].outcome = outcome]
SameData == UNCHANGED <<schemaVars, halfAdded>>

Start(p, cmd, name) ==
  /\ proc[p].at = "idle"
  /\ proc' = [proc EXCEPT ![p] = [Fresh(cmd, name) EXCEPT !.at = "open"]]
  /\ SameData

\* SQLite lets one process migrate at a time.
OpenPool(p) ==
  /\ proc[p].at = "open" /\ BeginMigrate
  /\ GoTo(p, "migrating")
  /\ UNCHANGED halfAdded

MigratePool(p) ==
  /\ proc[p].at = "migrating"
  /\ \/ (Migrate \/ UpdateVersion) /\ UNCHANGED proc
     \/ MigrateReturns /\ GoTo(p, "opened")
  /\ UNCHANGED halfAdded

\* Killed, or a call fails and the exception goes through main.
Die(p) ==
  /\ proc[p].at # "idle"
  /\ Finish(p, "failed")
  /\ halfAdded' = IF proc[p].at = "created" THEN halfAdded \union {proc[p].name} ELSE halfAdded
  /\ IF proc[p].at = "migrating" THEN Interrupted ELSE UNCHANGED schemaVars

---------------------------------------------------------------------------
(* add: getWallets, createWallet, newAccountWithExtendedKeyInfo.           *)

Listed == SubSeq([i \in DOMAIN Wallets |-> NameAt(i)], 1, Min2(Len(Wallets), Limit))
Stored(wallets) ==
  /\ db' = [db EXCEPT !.content = wallets]
  /\ file' = db'
  /\ UNCHANGED <<wrapped, step, torn, repeated>>

CheckName(p) ==
  /\ proc[p].at = "opened" /\ proc[p].cmd = "add"
  /\ IF \E i \in DOMAIN Listed : Listed[i] = proc[p].name
     THEN Finish(p, "exists")
     ELSE GoTo(p, "checked")
  /\ SameData

Taken(p, name) == Has(name)

CreateWallet(p) ==
  /\ proc[p].at = "checked"
  /\ IF Taken(p, proc[p].name)
     THEN Finish(p, "failed") /\ SameData
     ELSE /\ \E bitcoin \in BOOLEAN :
               Stored(Append(Wallets, [name |-> proc[p].name, bitcoin |-> bitcoin, account |-> FALSE]))
          /\ GoTo(p, "created")
          /\ halfAdded' = halfAdded \ {proc[p].name}

CreateAccount(p) ==
  /\ proc[p].at = "created"
  /\ Stored([i \in DOMAIN Wallets |->
               IF NameAt(i) = proc[p].name THEN [Wallets[i] EXCEPT !.account = TRUE] ELSE Wallets[i]])
  /\ Finish(p, "added")
  /\ UNCHANGED halfAdded

---------------------------------------------------------------------------
(* list: getWallets, then getAccount(0) of each.                           *)

ReadWallets(p) ==
  /\ proc[p].at = "opened" /\ proc[p].cmd = "list"
  /\ proc' = [proc EXCEPT ![p].seen = Listed,
                          ![p].at = IF Listed = <<>> THEN "idle" ELSE "listing",
                          ![p].outcome = IF Listed = <<>> THEN "none" ELSE @]
  /\ SameData

GetsAccount(name) == HasAccount(name)

PrintNext(p) ==
  /\ proc[p].at = "listing" /\ proc[p].listed < Len(proc[p].seen)
  /\ IF GetsAccount(proc[p].seen[proc[p].listed + 1])
     THEN proc' = [proc EXCEPT ![p].listed = @ + 1]
     ELSE Finish(p, "failed")
  /\ SameData

ListEnds(p) ==
  /\ proc[p].at = "listing" /\ proc[p].listed = Len(proc[p].seen)
  /\ Finish(p, "listed")
  /\ SameData

---------------------------------------------------------------------------
(* sync and build: getWallet, getAccount(0), and what they do with it.     *)

IsBitcoin(name) == \E i \in DOMAIN Wallets : NameAt(i) = name /\ Wallets[i].bitcoin

GetWallet(p) ==
  /\ proc[p].at = "opened" /\ proc[p].cmd \in {"sync", "build"}
  /\ CASE ~Has(proc[p].name) -> Finish(p, "failed")
       [] Has(proc[p].name) /\ proc[p].cmd = "build" /\ ~IsBitcoin(proc[p].name) -> Finish(p, "refused")
       [] OTHER -> GoTo(p, "wallet")
  /\ SameData

GetAccount(p) ==
  /\ proc[p].at = "wallet"
  /\ IF GetsAccount(proc[p].name) THEN GoTo(p, "account") ELSE Finish(p, "failed")
  /\ SameData

UseAccount(p) ==
  /\ proc[p].at = "account"
  /\ Finish(p, "done")
  /\ SameData

Command(p) ==
  \/ CheckName(p) \/ CreateWallet(p) \/ CreateAccount(p)
  \/ ReadWallets(p) \/ PrintNext(p) \/ ListEnds(p)
  \/ GetWallet(p) \/ GetAccount(p) \/ UseAccount(p)

---------------------------------------------------------------------------
(* freshResetAll, by another program of the library, with no command       *)
(* running; what earlier runs said is then no longer about this database.  *)

BeginReset ==
  /\ \A p \in Processes : proc[p].at = "idle"
  /\ BeginRollback
  /\ \E name \in Names : proc' = [p \in Processes |-> Fresh("list", name)]
  /\ UNCHANGED halfAdded

Resetting == step.at \in {"rollback", "lower"}
Reset == Resetting /\ (RollbackStep \/ Interrupted) /\ UNCHANGED <<proc, halfAdded>>

Next ==
  \/ \E p \in Processes :
       \/ \E cmd \in Commands, name \in Names : Start(p, cmd, name)
       \/ OpenPool(p) \/ MigratePool(p) \/ Command(p) \/ Die(p)
  \/ BeginReset \/ Reset

Spec == Init /\ [][Next]_vars

---------------------------------------------------------------------------
\* Types; and a migration is some process's, one process's only.
TypeOK ==
  /\ SchemaTypeOK
  /\ Wallets \in Seq([name : Names, bitcoin : BOOLEAN, account : BOOLEAN])
  /\ proc \in [Processes -> [at : Places, cmd : Commands, name : Names, seen : Seq(Names),
                             listed : Nat, outcome : Outcomes]]
  /\ halfAdded \subseteq Names
  /\ step.at \in {"migrate", "update"} <=> \E p \in Processes : proc[p].at = "migrating"
  /\ \A p, q \in Processes : proc[p].at = "migrating" /\ proc[q].at = "migrating" => p = q
  /\ \A p \in Processes : proc[p].listed <= Len(proc[p].seen)

\* "Account `X` is already exists" (AddAccount.cpp:98): there is one, since
\* "we will create separate wallet for each account" (line 90).
Says(p, outcome) == proc[p].at = "idle" /\ proc[p].outcome = outcome
ExistsMeansAccount ==
  \A p \in Processes : Says(p, "exists") => HasAccount(proc[p].name)

\* That is not so, but it is for want of an add between its two calls, or of
\* one that ended there; and nothing else misleads.  The account that an add
\* reports, that sync and build have used, and all those that list has
\* printed are there, whatever the others did meanwhile.  A name has one
\* wallet, and one without an account is such an unfinished add's.  No
\* command ever finishes what one that ended began: its wallet stays without
\* an account until the database is reset.  No command runs on a schema older
\* than the library's.
Unfinished(name) ==
  name \in halfAdded \/ \E p \in Processes : proc[p].at = "created" /\ proc[p].name = name

OnlyUnfinishedMislead ==
  /\ \A p \in Processes :
       /\ Says(p, "added") \/ Says(p, "done") => HasAccount(proc[p].name)
       /\ Says(p, "exists") => HasAccount(proc[p].name) \/ Unfinished(proc[p].name)
       /\ Says(p, "listed") => \A i \in DOMAIN proc[p].seen : HasAccount(proc[p].seen[i])
       /\ proc[p].at \in Running => db.version >= CurrentVersion
  /\ \A i, j \in DOMAIN Wallets : NameAt(i) = NameAt(j) => i = j
  /\ \A i \in DOMAIN Wallets : ~Wallets[i].account => Unfinished(NameAt(i))
  /\ \A name \in halfAdded : ~HasAccount(name)
=============================================================================
