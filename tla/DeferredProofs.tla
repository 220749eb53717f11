-------------------------- MODULE DeferredProofs --------------------------
(***************************************************************************)
(* Proofs about Deferred for any number of threads, results, callbacks.    *)
(***************************************************************************)
EXTENDS Deferred, TLAPS

\* The mutex: a thread is in a critical section exactly when it owns it.
Critical == {"writeResult", "writeValue", "dispatch", "stuck"}
MutexInv == \A t \in Threads : pc[t] \in Critical <=> lock = t

\* The result: nobody writes over a stored one, and what is stored is what
\* the one winner was given.
ValueInv ==
  /\ \A t \in Threads :
       pc[t] \in {"writeResult", "writeValue"} => value = None /\ arg[t] \in Results
  /\ \A t \in Threads : pc[t] = "retrigger" => value # None
  /\ winners = {} <=> value = None
  /\ \A t \in winners : value = arg[t]
  /\ \A t, u \in winners : t = u

\* The queue: where each callback is, by its number.
QueueInv ==
  /\ \A c \in Callbacks : c <= pushed <=> kind[c] # None
  /\ \A c \in Callbacks : given[c] \in {None, value}
  /\ \A c \in Callbacks : c <= popped => value # None /\ given[c] = value /\ Benign(c)
  /\ \A c \in Callbacks : runs[c] > 0 => value # None /\ given[c] = value /\ c <= pushed
  /\ \A c \in Callbacks : c > popped /\ kind[c] \in {None, "serial", "immediate"} => runs[c] = 0
  /\ \A c \in Callbacks : c <= popped /\ c \notin tasks => runs[c] = 1
  /\ \A c \in tasks : c <= popped /\ kind[c] = "serial" /\ runs[c] = 0
  /\ \A c \in tasks : \A d \in Callbacks : c < d /\ kind[d] = "serial" => runs[d] = 0

ObservedInv == 
  \A t \in Threads :
    observed[t] \in {None, Torn, value} \union {arg[u] : u \in Writers}

IInv == 
  /\ TypeOK /\ MutexInv /\ ValueInv /\ QueueInv /\ ObservedInv /\ NoCallbackForgotten

---------------------------------------------------------------------------
USE ThreadsAssumption, ResultsAssumption, BoundAssumption, KindsAssumption

\* A new Deffered is well typed.
LEMMA TypeInit == Init => TypeOK
BY DEF Init, TypeOK, PCs, Callbacks

\* Every step keeps the types.
LEMMA TypeNext == TypeOK /\ ValueInv /\ [Next]_vars => TypeOK'
<1> SUFFICES ASSUME TypeOK, ValueInv, [Next]_vars PROVE TypeOK'
  OBVIOUS
<1> USE DEF TypeOK, PCs, Callbacks, AllKinds
<1>1. ASSUME NEW t \in Threads, Complete(t) PROVE TypeOK'
  BY <1>1 DEF Complete, BeginComplete, Goto, calls
<1>2. ASSUME NEW t \in Threads, NEW k \in Kinds, AddCallback(t, k) PROVE TypeOK'
  BY <1>2 DEF AddCallback, Goto
<1>3. ASSUME NEW t \in Threads, WriteResult(t) PROVE TypeOK'
  BY <1>3 DEF WriteResult, Goto, calls, ValueInv
<1>4. ASSUME NEW t \in Threads, WriteValue(t) PROVE TypeOK'
  BY <1>4 DEF WriteValue, Goto, calls, ValueInv
<1>5. ASSUME NEW t \in Threads, Retrigger(t) PROVE TypeOK'
  BY <1>5 DEF Retrigger, Goto, calls
<1>6. ASSUME NEW t \in Threads, DispatchSerial(t) PROVE TypeOK'
  BY <1>6 DEF DispatchSerial, HasWork, Front, AfterPop
<1>7. ASSUME NEW t \in Threads, DispatchImmediate(t) PROVE TypeOK'
  BY <1>7 DEF DispatchImmediate, HasWork, Front, AfterPop
<1>8. ASSUME NEW t \in Threads, DispatchThrowing(t) PROVE TypeOK'
  BY <1>8 DEF DispatchThrowing, HasWork, Front, Goto
<1>9. ASSUME NEW t \in Threads, DispatchReentrant(t) PROVE TypeOK'
  BY <1>9 DEF DispatchReentrant, HasWork, Front, Goto
<1>10. ASSUME NEW t \in Threads, EndTrigger(t) PROVE TypeOK'
  BY <1>10 DEF EndTrigger, Goto, calls
<1>11. ASSUME NEW t \in Threads, GetValue(t) PROVE TypeOK'
  <2>1. Readable \subseteq Results \union {None, Torn}
    BY <1>11 DEF Readable, Writers
  <2>2. QED
    BY <1>11, <2>1 DEF GetValue, calls
<1>12. CASE RunTask
  <2>1. PICK c \in tasks : runs' = [runs EXCEPT ![c] = @ + 1] /\ tasks' = tasks \ {c}
    BY <1>12 DEF RunTask
  <2>2. c \in Callbacks /\ runs[c] + 1 \in Nat
    BY <2>1
  <2>3. runs' \in [Callbacks -> Nat] /\ tasks' \subseteq Callbacks
    BY <2>1, <2>2
  <2>4. QED
    BY <1>12, <2>3 DEF RunTask
<1>13. CASE UNCHANGED vars
  BY <1>13 DEF vars
<1>14. QED
  BY <1>1, <1>2, <1>3, <1>4, <1>5, <1>6, <1>7, <1>8, <1>9, <1>10, <1>11, <1>12, <1>13
     DEF Next, Proceed, Trigger

---------------------------------------------------------------------------
\* Every step keeps the mutex with the one thread inside a call.
LEMMA MutexNext == TypeOK /\ MutexInv /\ [Next]_vars => MutexInv'
<1> SUFFICES ASSUME TypeOK, MutexInv, [Next]_vars PROVE MutexInv'
  OBVIOUS
<1> USE DEF TypeOK, PCs, Callbacks, AllKinds, MutexInv, Critical
<1>1. ASSUME NEW t \in Threads, Complete(t) PROVE MutexInv'
  BY <1>1 DEF Complete, BeginComplete, EnsureNotCompleted, Goto, calls
<1>2. ASSUME NEW t \in Threads, NEW k \in Kinds, AddCallback(t, k) PROVE MutexInv'
  BY <1>2 DEF AddCallback, Goto
<1>3. ASSUME NEW t \in Threads, WriteResult(t) PROVE MutexInv'
  BY <1>3 DEF WriteResult, Goto, calls
<1>4. ASSUME NEW t \in Threads, WriteValue(t) PROVE MutexInv'
  BY <1>4 DEF WriteValue, Goto, calls
<1>5. ASSUME NEW t \in Threads, Retrigger(t) PROVE MutexInv'
  BY <1>5 DEF Retrigger, Goto, calls
<1>6. ASSUME NEW t \in Threads, DispatchSerial(t) PROVE MutexInv'
  BY <1>6 DEF DispatchSerial, HasWork, Front, AfterPop
<1>7. ASSUME NEW t \in Threads, DispatchImmediate(t) PROVE MutexInv'
  BY <1>7 DEF DispatchImmediate, HasWork, Front, AfterPop
<1>8. ASSUME NEW t \in Threads, DispatchThrowing(t) PROVE MutexInv'
  BY <1>8 DEF DispatchThrowing, HasWork, Front, Goto
<1>9. ASSUME NEW t \in Threads, DispatchReentrant(t) PROVE MutexInv'
  BY <1>9 DEF DispatchReentrant, HasWork, Front, Goto
<1>10. ASSUME NEW t \in Threads, EndTrigger(t) PROVE MutexInv'
  BY <1>10 DEF EndTrigger, HasWork, Goto, calls
<1>11. ASSUME NEW t \in Threads, GetValue(t) PROVE MutexInv'
  BY <1>11 DEF GetValue, calls
<1>12. CASE RunTask
  BY <1>12 DEF RunTask, Oldest
<1>13. CASE UNCHANGED vars
  BY <1>13 DEF vars
<1>14. QED
  BY <1>1, <1>2, <1>3, <1>4, <1>5, <1>6, <1>7, <1>8, <1>9, <1>10, <1>11, <1>12, <1>13
     DEF Next, Proceed, Trigger

---------------------------------------------------------------------------
\* _value is written once, by the thread inside the critical section.
LEMMA ValueNext == TypeOK /\ MutexInv /\ ValueInv /\ [Next]_vars => ValueInv'
<1> SUFFICES ASSUME TypeOK, MutexInv, ValueInv, [Next]_vars PROVE ValueInv'
  OBVIOUS
<1> USE DEF TypeOK, PCs, Callbacks, AllKinds, ValueInv, MutexInv, Critical
<1>1. ASSUME NEW t \in Threads, Complete(t) PROVE ValueInv'
  BY <1>1 DEF Complete, BeginComplete, EnsureNotCompleted, Goto, calls
<1>2. ASSUME NEW t \in Threads, NEW k \in Kinds, AddCallback(t, k) PROVE ValueInv'
  BY <1>2 DEF AddCallback, Goto
<1>3. ASSUME NEW t \in Threads, WriteResult(t) PROVE ValueInv'
  BY <1>3 DEF WriteResult, Goto, calls
<1>4. ASSUME NEW t \in Threads, WriteValue(t) PROVE ValueInv'
  BY <1>4 DEF WriteValue, Goto, calls
<1>5. ASSUME NEW t \in Threads, Retrigger(t) PROVE ValueInv'
  BY <1>5 DEF Retrigger, Goto, calls
<1>6. ASSUME NEW t \in Threads, DispatchSerial(t) PROVE ValueInv'
  BY <1>6 DEF DispatchSerial, HasWork, Front, AfterPop
<1>7. ASSUME NEW t \in Threads, DispatchImmediate(t) PROVE ValueInv'
  BY <1>7 DEF DispatchImmediate, HasWork, Front, AfterPop
<1>8. ASSUME NEW t \in Threads, DispatchThrowing(t) PROVE ValueInv'
  BY <1>8 DEF DispatchThrowing, HasWork, Front, Goto
<1>9. ASSUME NEW t \in Threads, DispatchReentrant(t) PROVE ValueInv'
  BY <1>9 DEF DispatchReentrant, HasWork, Front, Goto
<1>10. ASSUME NEW t \in Threads, EndTrigger(t) PROVE ValueInv'
  BY <1>10 DEF EndTrigger, HasWork, Goto, calls
<1>11. ASSUME NEW t \in Threads, GetValue(t) PROVE ValueInv'
  BY <1>11 DEF GetValue, calls
<1>12. CASE RunTask
  BY <1>12 DEF RunTask, Oldest
<1>13. CASE UNCHANGED vars
  BY <1>13 DEF vars
<1>14. QED
  BY <1>1, <1>2, <1>3, <1>4, <1>5, <1>6, <1>7, <1>8, <1>9, <1>10, <1>11, <1>12, <1>13
     DEF Next, Proceed, Trigger

---------------------------------------------------------------------------
\* A callback is queued, in the serial context, or run: every step keeps the count.
LEMMA QueueNext == TypeOK /\ MutexInv /\ ValueInv /\ QueueInv /\ [Next]_vars => QueueInv'
<1> SUFFICES ASSUME TypeOK, MutexInv, ValueInv, QueueInv, [Next]_vars PROVE QueueInv'
  OBVIOUS
<1> USE DEF TypeOK, PCs, Callbacks, AllKinds, QueueInv, Benign
<1>1. ASSUME NEW t \in Threads, Complete(t) PROVE QueueInv'
  BY <1>1 DEF Complete, BeginComplete, EnsureNotCompleted, Goto, calls
<1>2. ASSUME NEW t \in Threads, NEW k \in Kinds, AddCallback(t, k) PROVE QueueInv'
  BY <1>2 DEF AddCallback, Goto
<1>3. ASSUME NEW t \in Threads, WriteResult(t) PROVE QueueInv'
  <2>1. value = None /\ arg[t] \in Results
    BY <1>3 DEF WriteResult, ValueInv
  <2>2. \A c \in Callbacks : given[c] = None /\ ~(c <= popped) /\ ~(runs[c] > 0)
    BY <2>1
  <2>3. tasks = {}
    BY <2>2
  <2>4. UNCHANGED calls /\ value' = arg[t]
    BY <1>3 DEF WriteResult
  <2>5. QED
    BY <2>1, <2>2, <2>3, <2>4 DEF calls
<1>4. ASSUME NEW t \in Threads, WriteValue(t) PROVE QueueInv'
  <2>1. value = None /\ arg[t] \in Results
    BY <1>4 DEF WriteValue, ValueInv
  <2>2. \A c \in Callbacks : given[c] = None /\ ~(c <= popped) /\ ~(runs[c] > 0)
    BY <2>1
  <2>3. tasks = {}
    BY <2>2
  <2>4. UNCHANGED calls /\ value' = arg[t]
    BY <1>4 DEF WriteValue
  <2>5. QED
    BY <2>1, <2>2, <2>3, <2>4 DEF calls
<1>5. ASSUME NEW t \in Threads, Retrigger(t) PROVE QueueInv'
  BY <1>5 DEF Retrigger, Goto, calls
<1>6. ASSUME NEW t \in Threads, DispatchSerial(t) PROVE QueueInv'
  BY <1>6 DEF DispatchSerial, HasWork, Front, AfterPop
<1>7. ASSUME NEW t \in Threads, DispatchImmediate(t) PROVE QueueInv'
  <2> DEFINE f == popped + 1
  <2>1. /\ f \in Callbacks /\ f <= pushed /\ value # None /\ kind[f] = "immediate"
        /\ given' = [given EXCEPT ![f] = value]
        /\ runs' = [runs EXCEPT ![f] = runs[f] + 1]
        /\ popped' = f
        /\ UNCHANGED <<value, pushed, kind, tasks>>
    BY <1>7 DEF DispatchImmediate, HasWork, Front, AfterPop
  <2>2. runs[f] = 0 /\ f \notin tasks
    BY <2>1
  <2>3. \A c \in Callbacks : c <= f /\ c # f => c <= popped
    OBVIOUS
  <2>4. runs'[f] = 1 /\ \A c \in Callbacks : c # f => runs'[c] = runs[c]
    BY <2>1, <2>2
  <2> HIDE DEF f
  <2>5. \A c \in Callbacks : c <= popped' /\ c \notin tasks' => runs'[c] = 1
    BY <2>1, <2>2, <2>3, <2>4
  <2>6. \A c \in tasks' : c <= popped' /\ kind'[c] = "serial" /\ runs'[c] = 0
    BY <2>1, <2>2, <2>4 DEF f
  <2>7. \A c \in tasks' : \A d \in Callbacks : c < d /\ kind'[d] = "serial" => runs'[d] = 0
    BY <2>1, <2>4
  <2>8. \A c \in Callbacks : c > popped' /\ kind'[c] \in {None, "serial", "immediate"} => runs'[c] = 0
    BY <2>1, <2>4 DEF f
  <2>9. \A c \in Callbacks : c <= popped' => value' # None /\ given'[c] = value' /\ Benign(c)'
    BY <2>1, <2>3
  <2>10. \A c \in Callbacks : runs'[c] > 0 => value' # None /\ given'[c] = value' /\ c <= pushed'
    BY <2>1, <2>4
  <2>11. (\A c \in Callbacks : c <= pushed <=> kind[c] # None)' /\ (\A c \in Callbacks : given[c] \in {None, value})'
    BY <2>1
  <2>12. QED
    BY <2>5, <2>6, <2>7, <2>8, <2>9, <2>10, <2>11
<1>8. ASSUME NEW t \in Threads, DispatchThrowing(t) PROVE QueueInv'
  BY <1>8 DEF DispatchThrowing, HasWork, Front, Goto
<1>9. ASSUME NEW t \in Threads, DispatchReentrant(t) PROVE QueueInv'
  BY <1>9 DEF DispatchReentrant, HasWork, Front, Goto
<1>10. ASSUME NEW t \in Threads, EndTrigger(t) PROVE QueueInv'
  BY <1>10 DEF EndTrigger, HasWork, Goto, calls
<1>11. ASSUME NEW t \in Threads, GetValue(t) PROVE QueueInv'
  BY <1>11 DEF GetValue, calls
<1>12. CASE RunTask
  BY <1>12 DEF RunTask, Oldest
<1>13. CASE UNCHANGED vars
  BY <1>13 DEF vars
<1>14. QED
  BY <1>1, <1>2, <1>3, <1>4, <1>5, <1>6, <1>7, <1>8, <1>9, <1>10, <1>11, <1>12, <1>13
     DEF Next, Proceed, Trigger

---------------------------------------------------------------------------
\* What a read of _value may return stays among old, new and torn.
LEMMA ObservedNext == TypeOK /\ MutexInv /\ ValueInv /\ ObservedInv /\ [Next]_vars => ObservedInv'
<1> SUFFICES ASSUME TypeOK, MutexInv, ValueInv, ObservedInv, [Next]_vars PROVE ObservedInv'
  OBVIOUS
<1> USE DEF TypeOK, PCs, Callbacks, AllKinds, ObservedInv, Writers, MutexInv, Critical
<1>1. ASSUME NEW t \in Threads, Complete(t) PROVE ObservedInv'
  BY <1>1 DEF Complete, BeginComplete, EnsureNotCompleted, Goto, calls
<1>2. ASSUME NEW t \in Threads, NEW k \in Kinds, AddCallback(t, k) PROVE ObservedInv'
  BY <1>2 DEF AddCallback, Goto
<1>3. ASSUME NEW t \in Threads, WriteResult(t) PROVE ObservedInv'
  <2>1. value = None /\ value' = arg[t] /\ observed' = observed
    BY <1>3 DEF WriteResult, ValueInv
  <2>2. \A u \in Writers : u = t
    BY <1>3 DEF WriteResult
  <2>3. \A u \in Threads : observed[u] \in {None, Torn, arg[t]}
    BY <2>1, <2>2
  <2>4. QED
    BY <2>1, <2>3
<1>4. ASSUME NEW t \in Threads, WriteValue(t) PROVE ObservedInv'
  <2>1. value = None /\ value' = arg[t] /\ observed' = observed
    BY <1>4 DEF WriteValue, ValueInv
  <2>2. \A u \in Writers : u = t
    BY <1>4 DEF WriteValue
  <2>3. \A u \in Threads : observed[u] \in {None, Torn, arg[t]}
    BY <2>1, <2>2
  <2>4. QED
    BY <2>1, <2>3
<1>5. ASSUME NEW t \in Threads, Retrigger(t) PROVE ObservedInv'
  BY <1>5 DEF Retrigger, Goto, calls
<1>6. ASSUME NEW t \in Threads, DispatchSerial(t) PROVE ObservedInv'
  BY <1>6 DEF DispatchSerial, HasWork, Front, AfterPop
<1>7. ASSUME NEW t \in Threads, DispatchImmediate(t) PROVE ObservedInv'
  BY <1>7 DEF DispatchImmediate, HasWork, Front, AfterPop
<1>8. ASSUME NEW t \in Threads, DispatchThrowing(t) PROVE ObservedInv'
  BY <1>8 DEF DispatchThrowing, HasWork, Front, Goto
<1>9. ASSUME NEW t \in Threads, DispatchReentrant(t) PROVE ObservedInv'
  BY <1>9 DEF DispatchReentrant, HasWork, Front, Goto
<1>10. ASSUME NEW t \in Threads, EndTrigger(t) PROVE ObservedInv'
  BY <1>10 DEF EndTrigger, HasWork, Goto, calls
<1>11. ASSUME NEW t \in Threads, GetValue(t) PROVE ObservedInv'
  <2>1. PICK o \in Readable : observed' = [observed EXCEPT ![t] = o]
    BY <1>11 DEF GetValue
  <2>2. o \in {None, Torn, value} \union {arg[u] : u \in Writers}
    BY <2>1 DEF Readable
  <2>3. UNCHANGED <<value, pc, arg>>
    BY <1>11 DEF GetValue
  <2>4. QED
    BY <2>1, <2>2, <2>3
<1>12. CASE RunTask
  BY <1>12 DEF RunTask, Oldest
<1>13. CASE UNCHANGED vars
  BY <1>13 DEF vars
<1>14. QED
  BY <1>1, <1>2, <1>3, <1>4, <1>5, <1>6, <1>7, <1>8, <1>9, <1>10, <1>11, <1>12, <1>13
     DEF Next, Proceed, Trigger

---------------------------------------------------------------------------
\* No step leaves a stored result and a queued callback to no thread.
LEMMA ForgottenNext == TypeOK /\ MutexInv /\ ValueInv /\ QueueInv /\ NoCallbackForgotten /\ [Next]_vars => NoCallbackForgotten'
<1> SUFFICES ASSUME TypeOK, MutexInv, ValueInv, QueueInv, NoCallbackForgotten, [Next]_vars PROVE NoCallbackForgotten'
  OBVIOUS
<1> USE DEF TypeOK, PCs, Callbacks, AllKinds, NoCallbackForgotten, HasWork, Front, Benign
<1>1. ASSUME NEW t \in Threads, Complete(t) PROVE NoCallbackForgotten'
  BY <1>1 DEF Complete, BeginComplete, EnsureNotCompleted, Goto, calls
<1>2. ASSUME NEW t \in Threads, NEW k \in Kinds, AddCallback(t, k) PROVE NoCallbackForgotten'
  BY <1>2 DEF AddCallback, Goto
<1>3. ASSUME NEW t \in Threads, WriteResult(t) PROVE NoCallbackForgotten'
  BY <1>3 DEF WriteResult, Goto, calls
<1>4. ASSUME NEW t \in Threads, WriteValue(t) PROVE NoCallbackForgotten'
  BY <1>4 DEF WriteValue, Goto, calls
<1>5. ASSUME NEW t \in Threads, Retrigger(t) PROVE NoCallbackForgotten'
  BY <1>5 DEF Retrigger, Goto, calls
<1>6. ASSUME NEW t \in Threads, DispatchSerial(t) PROVE NoCallbackForgotten'
  BY <1>6 DEF DispatchSerial, HasWork, Front, AfterPop
<1>7. ASSUME NEW t \in Threads, DispatchImmediate(t) PROVE NoCallbackForgotten'
  BY <1>7 DEF DispatchImmediate, HasWork, Front, AfterPop
<1>8. ASSUME NEW t \in Threads, DispatchThrowing(t) PROVE NoCallbackForgotten'
  BY <1>8 DEF DispatchThrowing, HasWork, Front, Goto
<1>9. ASSUME NEW t \in Threads, DispatchReentrant(t) PROVE NoCallbackForgotten'
  BY <1>9 DEF DispatchReentrant, HasWork, Front, Goto
<1>10. ASSUME NEW t \in Threads, EndTrigger(t) PROVE NoCallbackForgotten'
  BY <1>10 DEF EndTrigger, HasWork, Goto, calls
<1>11. ASSUME NEW t \in Threads, GetValue(t) PROVE NoCallbackForgotten'
  BY <1>11 DEF GetValue, calls
<1>12. CASE RunTask
  BY <1>12 DEF RunTask, Oldest
<1>13. CASE UNCHANGED vars
  BY <1>13 DEF vars
<1>14. QED
  BY <1>1, <1>2, <1>3, <1>4, <1>5, <1>6, <1>7, <1>8, <1>9, <1>10, <1>11, <1>12, <1>13
     DEF Next, Proceed, Trigger

---------------------------------------------------------------------------
\* A new Deffered satisfies the invariant.
LEMMA InitInv == Init => IInv
<1> SUFFICES ASSUME Init PROVE IInv
  OBVIOUS
<1>1. TypeOK
  BY TypeInit
<1>2. MutexInv /\ ValueInv /\ ObservedInv
  BY DEF Init, MutexInv, Critical, ValueInv, ObservedInv
<1>3. QueueInv /\ NoCallbackForgotten
  BY DEF Init, QueueInv, NoCallbackForgotten, HasWork, Callbacks
<1>4. QED
  BY <1>1, <1>2, <1>3 DEF IInv

\* The inductive invariant: every reachable state satisfies all its parts.
THEOREM Invariance == SafetySpec => []IInv
<1>1. IInv /\ [Next]_vars => IInv'
  BY TypeNext, MutexNext, ValueNext, QueueNext, ObservedNext, ForgottenNext DEF IInv
<1>2. QED
  BY InitInv, <1>1, PTL DEF SafetySpec

\* Every variable of a Deffered keeps its type, in particular no more
\* callbacks are popped than were pushed.
THEOREM TypeCorrect == SafetySpec => []TypeOK
<1>1. IInv => TypeOK
  BY DEF IInv
<1>2. QED
  BY Invariance, <1>1, PTL

\* Racing setResult / setValue / setError calls have one winner, and whatever
\* a callback or an untorn getValue sees is what that one stored.
THEOREM OneResult == SafetySpec => []Agreement
<1>1. IInv => Agreement
  BY DEF IInv, ValueInv, QueueInv, ObservedInv, Agreement
<1>2. QED
  BY Invariance, <1>1, PTL

\* A callback that returns normally is entered once, however the calls that
\* could dispatch it interleave.
THEOREM CallbacksRunOnce == SafetySpec => []RunsOnce
<1>1. IInv => RunsOnce
  BY DEF IInv, TypeOK, QueueInv, RunsOnce, Callbacks, Benign
<1>2. QED
  BY Invariance, <1>1, PTL

\* The window inside setResult, between unlocking and triggering, loses no
\* callback.
THEOREM NothingForgotten == SafetySpec => []NoCallbackForgotten
<1>1. IInv => NoCallbackForgotten
  BY DEF IInv
<1>2. QED
  BY Invariance, <1>1, PTL

\* The serial context runs callbacks in the order they were registered.
THEOREM InOrder == SafetySpec => []SerialOrder
<1>1. ASSUME IInv PROVE SerialOrder
  <2>1. SUFFICES ASSUME NEW c \in 1..pushed, NEW d \in 1..pushed, c < d,
                        kind[c] = "serial", kind[d] = "serial", runs[d] > 0
                 PROVE runs[c] > 0
    BY DEF SerialOrder
  <2>2. c \in Callbacks /\ d \in Callbacks
    BY <1>1 DEF IInv, TypeOK, Callbacks
  <2>3. d <= popped /\ c <= popped
    BY <1>1, <2>1, <2>2 DEF IInv, TypeOK, QueueInv, Callbacks
  <2>4. c \notin tasks
    BY <1>1, <2>1, <2>2 DEF IInv, TypeOK, QueueInv, Callbacks
  <2>5. QED
    BY <1>1, <2>2, <2>3, <2>4 DEF IInv, QueueInv
<1>2. QED
  BY Invariance, <1>1, PTL

---------------------------------------------------------------------------
(* Deferred implements FutureCell.                                         *)

\* A step that touches neither result, registrations nor first entries is a
\* stutter of the cell.
LEMMA CellStutter ==
  ASSUME UNCHANGED <<value, pushed, given, runs>>
  PROVE  UNCHANGED Cell!cellVars
BY DEF Cell!cellVars, Delivered

\* Entering callback c with the stored result is a delivery, or, for one
\* that was entered before, a stutter.
LEMMA CellDeliver ==
  ASSUME IInv, NEW c \in Callbacks, c <= pushed, value # None,
         UNCHANGED <<value, pushed>>,
         given' = [given EXCEPT ![c] = value],
         runs' = [runs EXCEPT ![c] = @ + 1]
  PROVE  [Cell!Next]_(Cell!cellVars)
<1> USE DEF IInv, TypeOK
<1>1. \A d \in Callbacks : d # c => Delivered'[d] = Delivered[d]
  BY DEF Delivered
<1>2. runs'[c] # 0 /\ given'[c] = value
  OBVIOUS
<1>3. Delivered' = [Delivered EXCEPT ![c] = value]
  BY <1>1, <1>2 DEF Delivered
<1>4. CASE runs[c] = 0
  <2>1. Delivered[c] = None
    BY <1>4 DEF Delivered
  <2>2. Cell!Deliver(c)
    BY <1>3, <2>1 DEF Cell!Deliver
  <2>3. QED
    BY <2>2 DEF Cell!Next, Callbacks
<1>5. CASE runs[c] # 0
  <2>1. Delivered[c] = value
    BY <1>5 DEF Delivered, QueueInv
  <2>2. Delivered' = Delivered
    BY <1>3, <2>1 DEF Delivered
  <2>3. QED
    BY <2>2 DEF Cell!cellVars
<1>6. QED
  BY <1>4, <1>5

\* Storing a result is the completion: nothing has been delivered before it.
LEMMA CellComplete ==
  ASSUME IInv, NEW t \in Threads, value = None, arg[t] \in Results,
         value' = arg[t], UNCHANGED calls
  PROVE  Cell!Next
<1>1. Delivered' = Delivered
  BY DEF Delivered, calls
<1>2. Cell!Complete(arg[t])
  BY <1>1 DEF Cell!Complete, calls
<1>3. QED
  BY <1>2 DEF Cell!Next

\* Every step of a Deffered is a step of the cell or a stutter.
LEMMA CellNext == IInv /\ [Next]_vars => [Cell!Next]_(Cell!cellVars)
<1> SUFFICES ASSUME IInv, [Next]_vars PROVE [Cell!Next]_(Cell!cellVars)
  OBVIOUS
<1>1. ASSUME NEW t \in Threads, Complete(t) PROVE [Cell!Next]_(Cell!cellVars)
  BY <1>1, CellStutter DEF Complete, BeginComplete, calls
<1>2. ASSUME NEW t \in Threads, NEW k \in Kinds, AddCallback(t, k)
      PROVE [Cell!Next]_(Cell!cellVars)
  <2>1. Cell!Register
    BY <1>2 DEF AddCallback, Cell!Register, Delivered
  <2>2. QED
    BY <2>1 DEF Cell!Next
<1>3. ASSUME NEW t \in Threads, WriteResult(t) PROVE [Cell!Next]_(Cell!cellVars)
  BY <1>3, CellComplete DEF WriteResult, IInv, ValueInv
<1>4. ASSUME NEW t \in Threads, WriteValue(t) PROVE [Cell!Next]_(Cell!cellVars)
  BY <1>4, CellComplete DEF WriteValue, IInv, ValueInv
<1>5. ASSUME NEW t \in Threads, Retrigger(t) PROVE [Cell!Next]_(Cell!cellVars)
  BY <1>5, CellStutter DEF Retrigger, calls
<1>6. ASSUME NEW t \in Threads, DispatchSerial(t) PROVE [Cell!Next]_(Cell!cellVars)
  <2>1. Front \in Callbacks /\ runs[Front] = 0
    BY <1>6 DEF DispatchSerial, HasWork, Front, IInv, TypeOK, QueueInv, Callbacks
  <2>2. Delivered' = Delivered
    BY <1>6, <2>1 DEF DispatchSerial, Delivered, IInv, TypeOK
  <2>3. QED
    BY <1>6, <2>2 DEF DispatchSerial, Cell!cellVars
<1>7. ASSUME NEW t \in Threads, DispatchImmediate(t) \/ DispatchThrowing(t) \/ DispatchReentrant(t)
      PROVE [Cell!Next]_(Cell!cellVars)
  <2>1. Front \in Callbacks /\ Front <= pushed
    BY <1>7 DEF DispatchImmediate, DispatchThrowing, DispatchReentrant,
                HasWork, Front, IInv, TypeOK, Callbacks
  <2>2. QED
    BY <1>7, <2>1, CellDeliver DEF DispatchImmediate, DispatchThrowing, DispatchReentrant, HasWork
<1>8. ASSUME NEW t \in Threads, EndTrigger(t) PROVE [Cell!Next]_(Cell!cellVars)
  BY <1>8, CellStutter DEF EndTrigger, calls
<1>9. ASSUME NEW t \in Threads, GetValue(t) PROVE [Cell!Next]_(Cell!cellVars)
  BY <1>9, CellStutter DEF GetValue, calls
<1>10. CASE RunTask
  <2>1. PICK c \in tasks : runs' = [runs EXCEPT ![c] = @ + 1]
    BY <1>10 DEF RunTask
  <2>2. c \in Callbacks /\ c <= pushed /\ value # None /\ given[c] = value
    BY <2>1 DEF IInv, TypeOK, QueueInv, Callbacks
  <2>3. UNCHANGED <<value, pushed, given>>
    BY <1>10 DEF RunTask
  <2>4. given' = [given EXCEPT ![c] = value]
    BY <2>2, <2>3 DEF IInv, TypeOK
  <2>5. QED
    BY <2>1, <2>2, <2>3, <2>4, CellDeliver
<1>11. CASE UNCHANGED vars
  BY <1>11, CellStutter DEF vars
<1>12. QED
  BY <1>1, <1>2, <1>3, <1>4, <1>5, <1>6, <1>7, <1>8, <1>9, <1>10, <1>11
     DEF Next, Proceed, Trigger

\* What users of promises and futures rely on: completed once, callbacks
\* handed that one result and only after the completion.
THEOREM ImplementsCell == SafetySpec => CellSpec
<1>1. Init => Cell!Init
  BY DEF Init, Cell!Init, Delivered, Callbacks
<1>2. QED
  BY <1>1, CellNext, Invariance, PTL DEF SafetySpec, CellSpec, Cell!Spec
===========================================================================
