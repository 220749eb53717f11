-------------------------- MODULE SyncEntryProofs --------------------------
(* Proofs about SyncEntry for any callers, accounts and number of          *)
(* sessions: what a session started in the window between the end of the   *)
(* last one and its callback is the only thing to break.                   *)
EXTENDS SyncEntry, TLAPS

\* Sessions are numbered as they start, and have a result once they ended.
SessionInv ==
  /\ notifier # None => notifier <= started
  /\ \A s \in Sessions :
       /\ phase[s] = "new" <=> s > started
       /\ phase[s] # "new" => account[s] \in Accounts
       /\ phase[s] \in {"new", "running"} => result[s] = None
       /\ phase[s] \in {"ended", "over"} => result[s] \in Results
       /\ s > started => told[s] = None

\* The session that runs holds the synchronizer, unless raced.
OwnerInv ==
  ~raced =>
    /\ ~crashed
    /\ \A s \in Open : notifier = s
    /\ \A s \in Sessions : phase[s] = "running" => currentAccount = account[s]
    /\ \A s \in Open : currentAccount = account[s] \/ result[s] = "success"

\* The inductive invariant.
IInv == TypeOK /\ SessionInv /\ LiveNotifier /\ OwnerInv /\ RightResult

USE BoundAssumption, NoneAssumption DEF Sessions, Results, Exceptions

\* The initial state satisfies the invariant.
LEMMA InitInv == Init => IInv
<1> SUFFICES ASSUME Init PROVE IInv
  OBVIOUS
<1>1. TypeOK
  <2>1. crashed \in BOOLEAN /\ raced \in BOOLEAN
    BY Zenon DEF Init
  <2>2. QED BY <2>1, SMT DEF Init, TypeOK
<1>2. SessionInv /\ LiveNotifier
  BY SMT DEF Init, SessionInv, LiveNotifier
<1>3. OwnerInv /\ RightResult
  BY SMT DEF Init, OwnerInv, RightResult, Open
<1>4. QED BY <1>1, <1>2, <1>3 DEF IInv

\* A session starting, whether or not it throws.
LEMMA StartInv ==
  ASSUME IInv, NEW c \in Callers, NEW a \in Accounts, Start(c, a)
  PROVE  IInv'
  <1> DEFINE s0 == started + 1
  <1>1. /\ s0 \in Sessions /\ ~crashed /\ currentAccount = None
        /\ currentAccount' = a /\ notifier' = s0 /\ started' = s0
        /\ account' = [account EXCEPT ![s0] = a]
        /\ raced' = (raced \/ \E s \in Sessions : phase[s] = "ended")
        /\ UNCHANGED <<result, told, crashed>>
    BY SMT DEF Start, Acquire, Free, IInv, TypeOK
  <1>2. PICK p \in {"running", "threw"} : phase' = [phase EXCEPT ![s0] = p]
    BY DEF Start
  <1>3. waits' \in [Callers -> 0..MaxSessions] /\ threw' \in [Callers -> Exceptions \union {None}]
    <2>1. CASE Return(c, s0)
      BY <1>1, <2>1, SMT DEF Return, IInv, TypeOK
    <2>2. CASE Throw(c, "not_started")
      BY <2>2, SMT DEF Throw, IInv, TypeOK
    <2>3. QED BY <2>1, <2>2 DEF Start
  <1>4. TypeOK'
    <2>1. raced' \in BOOLEAN /\ crashed' \in BOOLEAN
      BY <1>1, Zenon DEF IInv, TypeOK
    <2>2. QED BY <1>1, <1>2, <1>3, <2>1, SMT DEF IInv, TypeOK
  <1>5. SessionInv'
    BY <1>1, <1>2, SMT DEF IInv, TypeOK, SessionInv
  <1>6. LiveNotifier'
    BY <1>1, SMT DEF IInv, TypeOK, SessionInv, LiveNotifier
  <1>7. ASSUME ~raced' PROVE ~raced /\ Open = {}
    <2>1. ~raced /\ \A t \in Sessions : phase[t] # "ended"
      BY <1>1, <1>7, Zenon
    <2>2. ASSUME NEW t \in Sessions, phase[t] = "running" PROVE FALSE
      BY <1>1, <2>1, <2>2, SMT DEF IInv, SessionInv, OwnerInv
    <2>3. QED BY <2>1, <2>2 DEF Open
  <1>8. OwnerInv'
    <2>1. SUFFICES ASSUME ~raced' PROVE OwnerInv'
      BY DEF OwnerInv
    <2>2. \A t \in Sessions : phase'[t] \in {"running", "ended"} => t = s0
      <3>1. \A t \in Sessions : phase[t] \notin {"running", "ended"}
        BY <1>7, <2>1 DEF Open
      <3>2. \A t \in Sessions \ {s0} : phase'[t] = phase[t]
        BY <1>1, <1>2 DEF IInv, TypeOK
      <3>3. QED BY <3>1, <3>2
    <2>3. notifier' = s0 /\ currentAccount' = a /\ account'[s0] = a /\ ~crashed'
      BY <1>1, SMT DEF IInv, TypeOK
    <2>4. QED BY <2>2, <2>3 DEF OwnerInv, Open
  <1>9. RightResult'
    BY <1>1, <1>7, SMT DEF IInv, TypeOK, SessionInv, RightResult
  <1>10. QED BY <1>4, <1>5, <1>6, <1>8, <1>9 DEF IInv

\* A call that starts nothing, or its return, touches the caller only.
LEMMA CallerInv ==
  ASSUME IInv,
         waits' \in [Callers -> 0..MaxSessions],
         threw' \in [Callers -> Exceptions \union {None}],
         UNCHANGED <<currentAccount, notifier, started, account, phase, result, told, crashed, raced>>
  PROVE  IInv'
  <1>1. TypeOK'
    BY Zenon DEF IInv, TypeOK
  <1>2. SessionInv'
    BY Zenon DEF IInv, SessionInv
  <1>3. LiveNotifier'
    BY Zenon DEF IInv, LiveNotifier
  <1>4. OwnerInv'
    BY Zenon DEF IInv, OwnerInv, Open
  <1>5. RightResult'
    BY Zenon DEF IInv, RightResult
  <1>6. QED BY <1>1, <1>2, <1>3, <1>4, <1>5 DEF IInv

\* A session ending.
LEMMA EndInv ==
  ASSUME IInv, NEW s \in Sessions, NEW r \in Results, EndSession(s, r)
  PROVE  IInv'
  <1>1. /\ phase[s] = "running" /\ phase' = [phase EXCEPT ![s] = "ended"]
        /\ result' = [result EXCEPT ![s] = r]
        /\ currentAccount' = IF r = "success" THEN None ELSE currentAccount
        /\ UNCHANGED <<notifier, started, account, told, waits, threw, crashed, raced>>
    BY DEF EndSession, FreeAccount
  <1>2. TypeOK'
    BY <1>1, SMT DEF IInv, TypeOK
  <1>3. SessionInv'
    BY <1>1, SMT DEF IInv, TypeOK, SessionInv
  <1>4. LiveNotifier'
    BY <1>1, SMT DEF IInv, TypeOK, LiveNotifier
  <1>5. ASSUME ~raced PROVE \A t \in Open : t = s
    BY <1>1, <1>5, SMT DEF IInv, TypeOK, OwnerInv, Open
  <1>6. OwnerInv'
    BY <1>1, <1>5, SMT DEF IInv, TypeOK, OwnerInv, Open
  <1>7. ASSUME ~raced PROVE told[s] = None
    BY <1>1, <1>7, SMT DEF IInv, TypeOK, LiveNotifier, OwnerInv, Open
  <1>8. RightResult'
    BY <1>1, <1>7, SMT DEF IInv, TypeOK, RightResult
  <1>9. QED BY <1>2, <1>3, <1>4, <1>6, <1>8 DEF IInv

\* The callback of a session.
LEMMA OnCompleteInv ==
  ASSUME IInv, NEW s \in Sessions, OnComplete(s)
  PROVE  IInv'
  <1>1. /\ phase[s] = "ended" /\ phase' = [phase EXCEPT ![s] = "over"]
        /\ UNCHANGED <<started, account, result, waits, threw, raced>>
    BY DEF OnComplete
  <1>2. CASE notifier = None
    <2>1. crashed' = TRUE /\ UNCHANGED <<told, notifier, currentAccount>>
      BY <1>2 DEF OnComplete
    <2>2. raced
      BY <1>1, <1>2, SMT DEF IInv, TypeOK, OwnerInv, Open
    <2>3. TypeOK'
      BY <1>1, <2>1, SMT DEF IInv, TypeOK
    <2>4. SessionInv' /\ LiveNotifier'
      BY <1>1, <2>1, SMT DEF IInv, TypeOK, SessionInv, LiveNotifier
    <2>5. OwnerInv' /\ RightResult'
      BY <1>1, <2>2 DEF OwnerInv, RightResult
    <2>6. QED BY <2>3, <2>4, <2>5 DEF IInv
  <1>3. CASE notifier # None
    <2>1. /\ told' = [told EXCEPT ![notifier] = [by |-> s, result |-> result[s]]]
          /\ currentAccount' = None /\ notifier' = None /\ UNCHANGED crashed
      BY <1>3 DEF OnComplete, Tell, Release
    <2>2. notifier \in Sessions /\ notifier <= started /\ result[s] \in Results
      BY <1>1, <1>3, SMT DEF IInv, TypeOK, SessionInv
    <2>3. TypeOK'
      BY <1>1, <2>1, <2>2, SMT DEF IInv, TypeOK
    <2>4. SessionInv'
      BY <1>1, <2>1, <2>2, SMT DEF IInv, TypeOK, SessionInv
    <2>5. LiveNotifier'
      BY <2>1 DEF LiveNotifier
    <2>6. ASSUME ~raced PROVE notifier = s /\ \A t \in Open : t = s
      BY <1>1, <2>6, SMT DEF IInv, TypeOK, OwnerInv, Open
    <2>7. OwnerInv'
      BY <1>1, <2>1, <2>6, SMT DEF IInv, TypeOK, OwnerInv, Open
    <2>8. RightResult'
      BY <1>1, <2>1, <2>6, SMT DEF IInv, TypeOK, RightResult
    <2>9. QED BY <2>3, <2>4, <2>5, <2>7, <2>8 DEF IInv
  <1>4. QED BY <1>2, <1>3

\* Every step preserves the invariant.
LEMMA NextInv == IInv /\ [Next]_vars => IInv'
<1> SUFFICES ASSUME IInv, [Next]_vars PROVE IInv'
  OBVIOUS
<1>1. CASE UNCHANGED vars
  BY <1>1, CallerInv DEF vars, IInv, TypeOK
<1>2. ASSUME NEW c \in Callers, NEW a \in Accounts, Start(c, a) PROVE IInv'
  BY <1>2, StartInv
<1>3. ASSUME NEW c \in Callers, NEW a \in Accounts, Join(c, a) PROVE IInv'
  <2>1. notifier \in Sessions
    BY <1>3, SMT DEF Join, IInv, TypeOK, LiveNotifier
  <2>2. waits' \in [Callers -> 0..MaxSessions] /\ threw' \in [Callers -> Exceptions \union {None}]
    BY <1>3, <2>1, SMT DEF Join, Return, IInv, TypeOK
  <2>3. QED BY <1>3, <2>2, CallerInv DEF Join
<1>4. ASSUME NEW c \in Callers, NEW a \in Accounts, Refuse(c, a) PROVE IInv'
  <2>1. waits' \in [Callers -> 0..MaxSessions] /\ threw' \in [Callers -> Exceptions \union {None}]
    BY <1>4, SMT DEF Refuse, Throw, IInv, TypeOK
  <2>2. QED BY <1>4, <2>1, CallerInv DEF Refuse
<1>5. ASSUME NEW c \in Callers, Receive(c) PROVE IInv'
  <2>1. waits' \in [Callers -> 0..MaxSessions] /\ threw' \in [Callers -> Exceptions \union {None}]
    BY <1>5, SMT DEF Receive, Return, IInv, TypeOK
  <2>2. QED BY <1>5, <2>1, CallerInv DEF Receive
<1>6. ASSUME NEW s \in Sessions, NEW r \in Results, EndSession(s, r) PROVE IInv'
  BY <1>6, EndInv
<1>7. ASSUME NEW s \in Sessions, OnComplete(s) PROVE IInv'
  BY <1>7, OnCompleteInv
<1>8. QED
  BY <1>1, <1>2, <1>3, <1>4, <1>5, <1>6, <1>7 DEF Next

\* The inductive invariant holds in every reachable state.
THEOREM Invariance == SafetySpec => []IInv
  BY InitInv, NextInv, PTL DEF SafetySpec

\* Type correctness.
THEOREM TypeCorrect == SafetySpec => []TypeOK
  BY Invariance, PTL DEF IInv

\* A synchronizer in use always hands out a notifier still to be told, so no
\* promise is completed twice: this holds even when sessions race.
THEOREM NotifiersAreLive == SafetySpec => []LiveNotifier
  BY Invariance, PTL DEF IInv

\* Unless raced, sessions exclude each other and no null notifier is told.
THEOREM SessionsExclude == SafetySpec => []Exclusive
<1>1. IInv => Exclusive
  BY SMT DEF IInv, OwnerInv, Exclusive
<1>2. QED BY <1>1, Invariance, PTL

\* Unless raced, callers are told the result of the session they wait for.
THEOREM ResultsAreRight == SafetySpec => []RightResult
  BY Invariance, PTL DEF IInv
============================================================================
