----------------------------- MODULE SyncEntry -----------------------------
(***************************************************************************)
(* The entry of AbstractBlockchainExplorerAccountSynchronizer: who may     *)
(* start a synchronization, which ProgressNotifier a caller is given and   *)
(* how the end of a session reaches it.  synchronizeAccount and the        *)
(* completion callback run under _lock, so each is one step; the last map  *)
(* of performSynchronization, which resets _currentAccount, does not take  *)
(* the lock.  What a session does in between is in SyncBatches.            *)
(***************************************************************************)
EXTENDS Naturals

CONSTANTS
  Callers,      \* threads calling synchronizeAccount
  Accounts,
  MaxSessions,  \* bound on the sessions started
  None

ASSUME BoundAssumption == MaxSessions \in Nat
ASSUME NoneAssumption == None \notin Accounts /\ None \notin Nat

\* The n-th session creates the n-th notifier.
Sessions == 1..MaxSessions

Results == {"success", "failure"}

VARIABLES
  currentAccount, \* _currentAccount
  notifier,       \* _notifier
  started,        \* sessions started so far
  account,        \* the account of each session
  phase,          \* "new", "running", "ended" (result known), "threw" or "over"
  result,         \* how each session ended
  told,           \* what each notifier's promise was completed with, by whom
  waits,          \* the notifier each caller waits for, 0 when it is not waiting
  threw,          \* the exception each caller's last call left with, or None
  crashed,        \* a null notifier was dereferenced
  raced           \* history: a session started before the callback of the last one

vars == <<currentAccount, notifier, started, account, phase, result, told,
          waits, threw, crashed, raced>>

Init ==
  /\ currentAccount = None
  /\ notifier = None
  /\ started = 0
  /\ account = [s \in Sessions |-> None]
  /\ phase = [s \in Sessions |-> "new"]
  /\ result = [s \in Sessions |-> None]
  /\ told = [s \in Sessions |-> None]
  /\ waits = [c \in Callers |-> 0]
  /\ threw = [c \in Callers |-> None]
  /\ crashed = FALSE
  /\ raced = FALSE

---------------------------------------------------------------------------
Exceptions == {"in_use", "not_started"}

\* What a call by a caller that is not waiting returns or throws.
Free(c) == ~crashed /\ waits[c] = 0
Return(c, n) == waits' = [waits EXCEPT ![c] = n] /\ threw' = [threw EXCEPT ![c] = None]
Throw(c, e) == threw' = [threw EXCEPT ![c] = e] /\ UNCHANGED waits

\* Sessions whose completion callback has not run.
Open == {s \in Sessions : phase[s] \in {"running", "ended"}}

(* Mutated forms, one plausible mistake each. *)

\* No fresh notifier: the previous session's is handed out.
AcquireStale(a) == currentAccount = None /\ currentAccount' = a /\ notifier' = started
\* The account is tested but not taken.
AcquireNothing(a) ==
  currentAccount = None /\ notifier' = started + 1 /\ UNCHANGED currentAccount
\* The callback keeps the notifier it told.
KeepNotifier == currentAccount' = None /\ UNCHANGED notifier
\* The callback does not look at the result, or forgets the failures.
TellSuccess(s) ==
  told' = [told EXCEPT ![notifier] = [by |-> s, result |-> "success"]]
TellOnlySuccess(s) ==
  IF result[s] = "success" THEN TellSuccess(s) ELSE UNCHANGED told

---------------------------------------------------------------------------
\* synchronizeAccount on a free synchronizer makes a fresh notifier ...
Acquire(a) ==
  /\ currentAccount = None
  /\ currentAccount' = a
  /\ notifier' = started + 1

\* ... and starts a session, or leaves with the exception performSynchronization
\* throws before its first future (a database error, a batch size of zero).
Start(c, a) ==
  /\ Free(c) /\ started < MaxSessions
  /\ Acquire(a)
  /\ started' = started + 1
  /\ account' = [account EXCEPT ![started + 1] = a]
  /\ \/ phase' = [phase EXCEPT ![started + 1] = "running"] /\ Return(c, started + 1)
     \/ phase' = [phase EXCEPT ![started + 1] = "threw"] /\ Throw(c, "not_started")
  /\ raced' = (raced \/ \E s \in Sessions : phase[s] = "ended")
  /\ UNCHANGED <<result, told, crashed>>

\* The account is being synchronized: the caller shares its notifier.
Join(c, a) ==
  /\ Free(c) /\ currentAccount = a
  /\ Return(c, notifier)
  /\ UNCHANGED <<currentAccount, notifier, started, account, phase, result, told, crashed, raced>>

\* "This synchronizer is already in use"
Refuse(c, a) ==
  /\ Free(c) /\ currentAccount \notin {None, a}
  /\ Throw(c, "in_use")
  /\ UNCHANGED <<currentAccount, notifier, started, account, phase, result, told, crashed, raced>>

\* The caller's future is completed.
Receive(c) ==
  /\ ~crashed /\ waits[c] # 0 /\ told[waits[c]] # None
  /\ Return(c, 0)
  /\ UNCHANGED <<currentAccount, notifier, started, account, phase, result, told, crashed, raced>>

\* The last map of performSynchronization frees the synchronizer before the
\* notifier is told; its recover, on a failure, does not.
FreeAccount(r) ==
  IF r = "success" THEN currentAccount' = None ELSE UNCHANGED currentAccount

EndSession(s, r) ==
  /\ ~crashed /\ phase[s] = "running"
  /\ phase' = [phase EXCEPT ![s] = "ended"]
  /\ result' = [result EXCEPT ![s] = r]
  /\ FreeAccount(r)
  /\ UNCHANGED <<notifier, started, account, told, waits, threw, crashed, raced>>

\* The callback tells whatever notifier is current, then forgets it and
\* frees the synchronizer.
Tell(s) ==
  told' = [told EXCEPT ![notifier] = [by |-> s, result |-> result[s]]]
Release == currentAccount' = None /\ notifier' = None

OnComplete(s) ==
  /\ ~crashed /\ phase[s] = "ended"
  /\ phase' = [phase EXCEPT ![s] = "over"]
  /\ IF notifier = None
     THEN crashed' = TRUE /\ UNCHANGED <<told, notifier, currentAccount>>
     ELSE Tell(s) /\ Release /\ UNCHANGED crashed
  /\ UNCHANGED <<started, account, result, waits, threw, raced>>

Next ==
  \/ \E c \in Callers, a \in Accounts : Start(c, a) \/ Join(c, a) \/ Refuse(c, a)
  \/ \E c \in Callers : Receive(c)
  \/ \E s \in Sessions : (\E r \in Results : EndSession(s, r)) \/ OnComplete(s)

SafetySpec == Init /\ [][Next]_vars

\* A session ends (SyncBatches) and its callback, queued on the synchronizer's
\* context, runs; nothing makes a caller call.
Spec ==
  /\ SafetySpec
  /\ \A s \in Sessions : WF_vars(\E r \in Results : EndSession(s, r))
                         /\ WF_vars(OnComplete(s))

---------------------------------------------------------------------------
\* Types: the notifier handed out is always one of a session.
TypeOK ==
  /\ currentAccount \in Accounts \union {None}
  /\ notifier \in Sessions \union {None}
  /\ started \in 0..MaxSessions
  /\ account \in [Sessions -> Accounts \union {None}]
  /\ phase \in [Sessions -> {"new", "running", "ended", "threw", "over"}]
  /\ result \in [Sessions -> Results \union {None}]
  /\ told \in [Sessions -> [by : Sessions, result : Results] \union {None}]
  /\ waits \in [Callers -> 0..MaxSessions]
  /\ threw \in [Callers -> Exceptions \union {None}]
  /\ crashed \in BOOLEAN
  /\ raced \in BOOLEAN

\* A synchronizer in use hands out a notifier that is still to be told: no
\* caller is given none, or one whose promise is completed, and the callback
\* never completes a promise twice.
LiveNotifier ==
  /\ currentAccount # None => notifier # None
  /\ notifier # None => told[notifier] = None

\* Unless a session was started between the end of the last one and its
\* callback, there is one session at a time, it holds the synchronizer for its
\* account until it ends, and its callback finds its own notifier.
Exclusive ==
  ~raced =>
    /\ ~crashed
    /\ \A s, t \in Open : s = t
    /\ \A s \in Open : /\ notifier = s
                       /\ currentAccount = account[s] \/ result[s] = "success"

\* Unless a session was started in that window, what a caller is told of its
\* account is the result of its own session.
RightResult ==
  ~raced => \A s \in Sessions : told[s] # None => told[s] = [by |-> s, result |-> result[s]]

\* Every caller that is given a notifier is told, except after a session
\* started in that window, and except that the notifier left behind by a
\* session that threw at its start is never told.
EveryCallerTold ==
  \A c \in Callers, s \in Sessions :
    waits[c] = s ~> told[s] # None \/ raced \/ phase[s] = "threw"

\* "This synchronizer is already in use" (line 107): sessions for two accounts
\* never run together.
OneAccountAtATime ==
  \A s, t \in Sessions :
    phase[s] = "running" /\ phase[t] = "running" => account[s] = account[t]
===========================================================================
