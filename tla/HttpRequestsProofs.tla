------------------------ MODULE HttpRequestsProofs ------------------------
(* Proofs about HttpRequests for any set of requests.                      *)
EXTENDS HttpRequests, TLAPS

\* Where a request stands tells whether it was sent, and what it was answered.
SentInv ==
  \A r \in Requests :
    /\ completions[r] = 0 <=> outcome[r] = None
    /\ phase[r] \in {"idle", "resolve", "connect", "handshake"} => ~sent[r]
    /\ phase[r] \in {"write", "read", "shutdown"} => sent[r]
    /\ phase[r] = "shutdown" => outcome[r] = "ok"

\* How far the body of a request has been handed over.
BodyInv ==
  \A r \in Requests :
    /\ completions[r] = 0 => ~reading[r] /\ chunks[r] = 0 /\ body[r] = "empty"
    /\ outcome[r] = "ok" => response[r] \in Bodies
    /\ outcome[r] = "ok" =>
         IF body[r] = "full" THEN reading[r] /\ chunks[r] = 0 /\ response[r] = "full"
                             ELSE chunks[r] = 1 <=> response[r] = "full"
    /\ reading[r] => outcome[r] = "ok"

\* The inductive invariant.
IInv == TypeOK /\ CompletedOnce /\ SentInv /\ ErrorTellsWhetherSent /\ BodyInv

\* The definitions every action needs.
USE NoneAssumption, SchemesAssumption DEF Requests, Outcomes, Phases, Bodies

\* The initial state satisfies the invariant.
LEMMA InitInv == Init => IInv
<1> SUFFICES ASSUME Init PROVE IInv
  OBVIOUS
<1>1. TypeOK
  <2>1. /\ sent \in [Requests -> BOOLEAN] /\ reading \in [Requests -> BOOLEAN]
        /\ aborted \in BOOLEAN
    BY Zenon DEF Init
  <2>2. /\ phase \in [Requests -> Phases] /\ completions \in [Requests -> 0..2]
        /\ outcome \in [Requests -> Outcomes \union {None}]
        /\ response \in [Requests -> Bodies \union {None}]
        /\ body \in [Requests -> Bodies] /\ chunks \in [Requests -> 0..1]
    BY SMT DEF Init
  <2>3. QED BY <2>1, <2>2 DEF TypeOK
<1>2. CompletedOnce /\ SentInv
  BY SMT DEF Init, CompletedOnce, SentInv
<1>3. ErrorTellsWhetherSent /\ BodyInv
  BY SMT DEF Init, ErrorTellsWhetherSent, BodyInv
<1>4. QED BY <1>1, <1>2, <1>3 DEF IInv

\* A failed operation completes the request, and nothing else changes.
LEMMA FailInv ==
  ASSUME IInv, NEW r \in Requests, NEW o \in Outcomes \ {"ok"},
         ~aborted, phase[r] \notin {"over", "shutdown"},
         o = "UNABLE_TO_CONNECT_TO_HOST" <=> ~sent[r],
         Fail(r, o), NotAnswered, UNCHANGED sent
  PROVE  IInv'
  <1>1. completions[r] = 0 /\ outcome[r] = None
    BY SMT DEF IInv, TypeOK, CompletedOnce, SentInv
  <1>2. TypeOK'
    BY SMT DEF IInv, TypeOK, Fail, Complete, Goto, NotAnswered
  <1>3. CompletedOnce'
    BY <1>1, SMT DEF IInv, TypeOK, CompletedOnce, Fail, Complete, Goto, NotAnswered
  <1>4. SentInv'
    BY <1>1, SMT DEF IInv, TypeOK, SentInv, Fail, Complete, Goto, NotAnswered
  <1>5. ErrorTellsWhetherSent'
    BY <1>1, SMT DEF IInv, TypeOK, ErrorTellsWhetherSent, Fail, Complete, Goto, NotAnswered
  <1>6. BodyInv'
    BY <1>1, SMT DEF IInv, TypeOK, BodyInv, Fail, Complete, Goto, NotAnswered
  <1>7. QED BY <1>2, <1>3, <1>4, <1>5, <1>6 DEF IInv

\* Starting the next operation of a request that is not answered keeps the
\* invariant when sent is kept in step with the phase.
LEMMA MoveInv ==
  ASSUME IInv, NEW r \in Requests, NEW p \in Phases \ {"over", "shutdown"},
         phase[r] \notin {"over", "shutdown"}, Goto(r, p), NotCompleted, NotAnswered,
         sent' \in [Requests -> BOOLEAN],
         \A q \in Requests \ {r} : sent'[q] = sent[q],
         sent'[r] <=> p \in {"write", "read"}
  PROVE  IInv'
  <1>1. completions[r] = 0 /\ outcome[r] = None
    BY SMT DEF IInv, TypeOK, CompletedOnce, SentInv
  <1>2. TypeOK'
    BY SMT DEF IInv, TypeOK, Goto, NotCompleted, NotAnswered
  <1>3. CompletedOnce'
    BY <1>1, SMT DEF IInv, TypeOK, CompletedOnce, Goto, NotCompleted, NotAnswered
  <1>4. SentInv'
    BY <1>1, SMT DEF IInv, TypeOK, SentInv, Goto, NotCompleted, NotAnswered
  <1>5. ErrorTellsWhetherSent'
    BY <1>1, SMT DEF IInv, TypeOK, ErrorTellsWhetherSent, Goto, NotCompleted, NotAnswered
  <1>6. BodyInv'
    BY <1>1, SMT DEF IInv, TypeOK, BodyInv, Goto, NotCompleted, NotAnswered
  <1>7. QED BY <1>2, <1>3, <1>4, <1>5, <1>6 DEF IInv

\* A response handed over, once or twice, keeps the invariant.
LEMMA AnswerInv ==
  ASSUME IInv, NEW r \in Requests, NEW b \in Bodies, NEW p \in {"over", "shutdown"},
         ~aborted, phase[r] = "read", StoreBody(r, b), Goto(r, p),
         Complete(r, "ok") \/ (r \in Plain /\ CompleteTwice(r)),
         UNCHANGED <<sent, chunks>>
  PROVE  IInv'
  <1>1. completions[r] = 0 /\ outcome[r] = None
    BY SMT DEF IInv, TypeOK, CompletedOnce, SentInv
  <1>2. TypeOK'
    <2>1. CASE Complete(r, "ok")
      BY <2>1, SMT DEF IInv, TypeOK, Complete, StoreBody, Goto
    <2>2. CASE CompleteTwice(r)
      BY <2>2, SMT DEF IInv, TypeOK, CompleteTwice, StoreBody, Goto
    <2>3. QED BY <2>1, <2>2
  <1>3. CompletedOnce'
    BY <1>1, SMT DEF IInv, TypeOK, CompletedOnce, Complete, CompleteTwice, StoreBody, Goto
  <1>4. SentInv'
    BY <1>1, SMT DEF IInv, TypeOK, SentInv, Complete, CompleteTwice, StoreBody, Goto
  <1>5. ErrorTellsWhetherSent'
    BY <1>1, SMT DEF IInv, TypeOK, SentInv, ErrorTellsWhetherSent, Complete, CompleteTwice, StoreBody, Goto
  <1>6. BodyInv'
    <2>1. CASE Complete(r, "ok")
      <3>1. reading' = [reading EXCEPT ![r] = TRUE]
        BY <2>1, Zenon DEF Complete
      <3>2. QED BY <1>1, <2>1, <3>1, SMT DEF IInv, TypeOK, BodyInv, Complete, StoreBody
    <2>2. CASE CompleteTwice(r)
      BY <1>1, <2>2, SMT DEF IInv, TypeOK, BodyInv, CompleteTwice, StoreBody
    <2>3. QED BY <2>1, <2>2
  <1>7. QED BY <1>2, <1>3, <1>4, <1>5, <1>6 DEF IInv

\* Every step preserves the invariant.
LEMMA NextInv == IInv /\ [Next]_vars => IInv'
<1> SUFFICES ASSUME IInv, [Next]_vars PROVE IInv'
  OBVIOUS
<1>1. CASE UNCHANGED vars
  BY <1>1, SMT DEF vars, IInv, TypeOK, CompletedOnce, SentInv, ErrorTellsWhetherSent, BodyInv
<1>2. ASSUME NEW r \in Requests, Execute(r) PROVE IInv'
  BY <1>2, MoveInv, SMT DEF Execute, Handler, IInv, TypeOK, SentInv
<1>3. ASSUME NEW r \in Requests, HandleResolve(r) PROVE IInv'
  <2>1. phase[r] = "resolve" /\ ~aborted /\ ~sent[r] /\ sent \in [Requests -> BOOLEAN]
    BY <1>3 DEF HandleResolve, Handler, IInv, SentInv, TypeOK
  <2>2. CASE Fail(r, "UNABLE_TO_CONNECT_TO_HOST")
    BY <1>3, <2>1, <2>2, FailInv DEF HandleResolve
  <2>3. CASE Goto(r, "connect") /\ NotCompleted
    BY <1>3, <2>1, <2>3, MoveInv, SMT DEF HandleResolve
  <2>4. QED BY <1>3, <2>2, <2>3 DEF HandleResolve
<1>4. ASSUME NEW r \in Requests, HandleConnect(r) \/ SslHandleHandshake(r) PROVE IInv'
  <2>1. /\ phase[r] \in {"connect", "handshake"} /\ ~aborted /\ ~sent[r]
        /\ sent \in [Requests -> BOOLEAN] /\ NotAnswered
    BY <1>4 DEF HandleConnect, SslHandleHandshake, Handler, IInv, SentInv, TypeOK
  <2>2. CASE Fail(r, "UNABLE_TO_CONNECT_TO_HOST") /\ UNCHANGED sent
    BY <2>1, <2>2, FailInv
  <2>3. CASE StartWrite(r)
    <3>1. /\ sent' \in [Requests -> BOOLEAN] /\ sent'[r]
          /\ \A q \in Requests \ {r} : sent'[q] = sent[q]
      BY <2>1, <2>3 DEF StartWrite
    <3>2. Goto(r, "write") /\ NotCompleted
      BY <2>3 DEF StartWrite
    <3>3. QED BY <2>1, <3>1, <3>2, MoveInv
  <2>4. QED BY <1>4, <2>2, <2>3 DEF HandleConnect, SslHandleHandshake
<1>5. ASSUME NEW r \in Requests, SslHandleConnect(r) PROVE IInv'
  <2>1. phase[r] = "connect" /\ ~aborted /\ ~sent[r] /\ sent \in [Requests -> BOOLEAN]
    BY <1>5 DEF SslHandleConnect, Handler, IInv, SentInv, TypeOK
  <2>2. CASE Fail(r, "UNABLE_TO_CONNECT_TO_HOST")
    BY <1>5, <2>1, <2>2, FailInv DEF SslHandleConnect
  <2>3. CASE Goto(r, "handshake") /\ NotCompleted
    BY <1>5, <2>1, <2>3, MoveInv, SMT DEF SslHandleConnect
  <2>4. QED BY <1>5, <2>2, <2>3 DEF SslHandleConnect
<1>6. ASSUME NEW r \in Requests, HandleWriteRequest(r) PROVE IInv'
  <2>1. phase[r] = "write" /\ ~aborted /\ sent[r] /\ sent \in [Requests -> BOOLEAN]
    BY <1>6 DEF HandleWriteRequest, Handler, IInv, SentInv, TypeOK
  <2>2. CASE FailAfterSending(r)
    BY <1>6, <2>1, <2>2, FailInv DEF HandleWriteRequest, FailAfterSending
  <2>3. CASE Goto(r, "read") /\ NotCompleted
    BY <1>6, <2>1, <2>3, MoveInv, SMT DEF HandleWriteRequest
  <2>4. QED BY <1>6, <2>2, <2>3 DEF HandleWriteRequest
<1>7. ASSUME NEW r \in Requests, HandleReadResponse(r) \/ SslHandleReadResponse(r) PROVE IInv'
  <2>1. /\ phase[r] = "read" /\ ~aborted /\ sent[r]
        /\ sent \in [Requests -> BOOLEAN] /\ UNCHANGED <<sent, chunks>>
    BY <1>7 DEF HandleReadResponse, SslHandleReadResponse, Handler, IInv, SentInv, TypeOK
  <2>2. CASE FailAfterSending(r) /\ UNCHANGED <<response, body>>
    BY <2>1, <2>2, FailInv DEF FailAfterSending, NotAnswered
  <2>3. ASSUME NEW b \in Bodies, StoreBody(r, b),
               \/ Goto(r, "over") /\ r \in Plain /\ (Complete(r, "ok") \/ CompleteTwice(r))
               \/ Goto(r, "shutdown") /\ Complete(r, "ok")
        PROVE  IInv'
    BY <2>1, <2>3, AnswerInv
  <2>4. QED BY <1>7, <2>2, <2>3 DEF HandleReadResponse, SslHandleReadResponse
<1>8. ASSUME NEW r \in Requests, SslHandleShutdown(r) PROVE IInv'
  <2>1. completions[r] > 0 /\ sent[r] /\ outcome[r] = "ok" /\ phase[r] = "shutdown"
    BY <1>8 DEF SslHandleShutdown, Handler, IInv, SentInv, CompletedOnce
  <2>2. QED
    BY <1>8, <2>1, SMT DEF SslHandleShutdown, Goto, NotCompleted, NotAnswered,
       IInv, TypeOK, CompletedOnce, SentInv, ErrorTellsWhetherSent, BodyInv
<1>9. ASSUME NEW r \in Requests, ReadBody(r) PROVE IInv'
  <2>1. outcome[r] = "ok"
    BY <1>9 DEF ReadBody, IInv, BodyInv
  <2>2. BodyInv'
    BY <1>9, <2>1, SMT DEF ReadBody, EmptyBody, IInv, TypeOK, BodyInv, SentInv
  <2>3. TypeOK'
    <3>1. body' \in [Requests -> Bodies]
      BY <1>9 DEF ReadBody, EmptyBody, IInv, TypeOK
    <3>2. CASE body[r] = "full"
      <4>1. chunks[r] = 0 /\ chunks' = [chunks EXCEPT ![r] = 1]
        BY <1>9, <2>1, <3>2, SMT DEF ReadBody, IInv, BodyInv
      <4>2. QED BY <1>9, <3>1, <3>2, <4>1, SMT DEF ReadBody, IInv, TypeOK
    <3>3. CASE body[r] # "full"
      <4>1. reading' \in [Requests -> BOOLEAN]
        BY <1>9, <3>3, Zenon DEF ReadBody, IInv, TypeOK
      <4>2. QED BY <1>9, <3>1, <3>3, <4>1 DEF ReadBody, IInv, TypeOK
    <3>4. QED BY <3>2, <3>3
  <2>4. QED
    BY <1>9, <2>2, <2>3, SMT DEF ReadBody, IInv, CompletedOnce, SentInv, ErrorTellsWhetherSent
<1>10. QED
  BY <1>1, <1>2, <1>3, <1>4, <1>5, <1>6, <1>7, <1>8, <1>9 DEF Next, LocalStep, ServerStep

\* The inductive invariant holds in every reachable state.
THEOREM Invariance == SafetySpec => []IInv
  BY InitInv, NextInv, PTL DEF SafetySpec

\* Type correctness, with a body read in one chunk and never a third
\* completion, for any number of requests in flight.
THEOREM TypeCorrect == SafetySpec => []TypeOK
  BY Invariance, PTL DEF IInv

\* Only the failed shutdown of an answered plain request completes a request
\* twice, and a request is completed as soon as no operation of it is pending.
THEOREM OneCompletion == SafetySpec => []CompletedOnce
  BY Invariance, PTL DEF IInv

\* The error code always tells whether the request may have been sent.
THEOREM CodesAreRight == SafetySpec => []ErrorTellsWhetherSent
  BY Invariance, PTL DEF IInv

\* A body is handed to the reader once and whole.
THEOREM BodiesAreWhole == SafetySpec => []WholeBodyRead
<1>1. IInv => WholeBodyRead
  BY SMT DEF IInv, TypeOK, BodyInv, WholeBodyRead
<1>2. QED BY <1>1, Invariance, PTL
===========================================================================
