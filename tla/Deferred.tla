----------------------------- MODULE Deferred -----------------------------
(***************************************************************************)
(* Deffered<T> (async/Deffered.hpp), the shared state behind every Promise *)
(* and Future: a mutex, an optional result and a queue of callbacks with   *)
(* their execution contexts.  Several threads complete it, register        *)
(* callbacks with it and read it; a serial execution context runs what is  *)
(* posted to it, ImmediateExecutionContext runs a callback on the spot,    *)
(* that is under the mutex.                                                *)
(*                                                                         *)
(* Callbacks are numbered in the order they are registered, so the queue   *)
(* _callbacks is the interval popped+1 .. pushed and the FIFO of the       *)
(* serial context is the set tasks, run lowest number first.               *)
(***************************************************************************)
EXTENDS Naturals

CONSTANTS
  Threads,        \* the threads that share the promise and its future
  Results,        \* Try<T> values: successes and failures alike
  MaxCallbacks,   \* bound on the callbacks registered
  Kinds,          \* the kinds of callbacks that are registered
  NoOne,          \* the mutex is free
  None,           \* an empty Option
  Torn            \* what a read that races with the write may return

\* serial:    the context queues the runnable
\* immediate: ImmediateExecutionContext, the callback returns normally
\* throwing:  ImmediateExecutionContext, the callback throws
\* reentrant: ImmediateExecutionContext, the callback locks the same Deffered
AllKinds == {"serial", "immediate", "throwing", "reentrant"}

ASSUME ThreadsAssumption == NoOne \notin Threads
ASSUME ResultsAssumption == None \notin Results /\ Torn \notin Results /\ None # Torn
ASSUME BoundAssumption   == MaxCallbacks \in Nat
ASSUME KindsAssumption   == Kinds \subseteq AllKinds /\ None \notin AllKinds

Callbacks == 1..MaxCallbacks

VARIABLES
  lock,      \* the thread that holds _lock, or NoOne
  value,     \* _value
  pc,        \* where each thread is in its current call
  arg,       \* the result the thread's setResult / setValue was given
  pushed,    \* number of callbacks ever pushed to _callbacks
  popped,    \* number of callbacks ever popped from _callbacks
  kind,      \* what was registered as callback c
  given,     \* the result captured in the runnable of callback c
  tasks,     \* runnables waiting in the serial context
  runs,      \* how many times callback c was entered
  winners,   \* threads whose completion did not throw ALREADY_COMPLETED
  observed   \* what the thread's last getValue returned

vars == <<lock, value, pc, arg, pushed, popped, kind, given, tasks, runs, winners, observed>>
calls == <<pushed, popped, kind, given, tasks, runs>>

PCs == {"idle", "writeResult", "writeValue", "retrigger", "dispatch", "stuck"}

Goto(t, label) == pc' = [pc EXCEPT ![t] = label]

Init ==
  /\ lock = NoOne
  /\ value = None
  /\ pc = [t \in Threads |-> "idle"]
  /\ arg = [t \in Threads |-> None]
  /\ pushed = 0
  /\ popped = 0
  /\ kind = [c \in Callbacks |-> None]
  /\ given = [c \in Callbacks |-> None]
  /\ tasks = {}
  /\ runs = [c \in Callbacks |-> 0]
  /\ winners = {}
  /\ observed = [t \in Threads |-> None]

---------------------------------------------------------------------------
(* Mutated forms of the definitions below, one plausible mistake each.     *)
UncheckedCompletion == TRUE                   \* ensureNotCompleted forgotten
PoppedTwice == popped + 2                     \* a second pop per iteration
NotPopped == popped                           \* the pop forgotten
Newest(c) == \A d \in tasks : c >= d          \* a stack instead of a queue

\* ensureNotCompleted evaluated before the mutex is taken
BeginCompleteUnlocked(t, r, write) ==
  /\ pc[t] = "idle"
  /\ value = None
  /\ lock' = t
  /\ arg' = [arg EXCEPT ![t] = r]
  /\ Goto(t, write)
  /\ UNCHANGED <<value, calls, winners, observed>>

\* setResult without its trigger()
WriteResultOnly(t) ==
  /\ pc[t] = "writeResult"
  /\ value' = arg[t]
  /\ winners' = winners \union {t}
  /\ lock' = NoOne
  /\ Goto(t, "idle")
  /\ UNCHANGED <<arg, calls, observed>>

\* addCallback without its _trigger()
AddCallbackOnly(t, k) ==
  /\ pc[t] = "idle"
  /\ lock = NoOne
  /\ pushed < MaxCallbacks
  /\ pushed' = pushed + 1
  /\ kind' = [kind EXCEPT ![pushed + 1] = k]
  /\ UNCHANGED <<lock, value, pc, arg, popped, given, tasks, runs, winners, observed>>

---------------------------------------------------------------------------
\* Otherwise it throws ALREADY_COMPLETED: the lock_guard releases and nothing
\* has changed.
EnsureNotCompleted == value = None

\* setResult, or setValue / setError, enters its critical section.
BeginComplete(t, r, write) ==
  /\ pc[t] = "idle"
  /\ lock = NoOne
  /\ EnsureNotCompleted
  /\ lock' = t
  /\ arg' = [arg EXCEPT ![t] = r]
  /\ Goto(t, write)
  /\ UNCHANGED <<value, calls, winners, observed>>

\* setResult writes _value, unlocks, and only then locks again to trigger.
WriteResult(t) ==
  /\ pc[t] = "writeResult"
  /\ value' = arg[t]
  /\ winners' = winners \union {t}
  /\ lock' = NoOne
  /\ Goto(t, "retrigger")
  /\ UNCHANGED <<arg, calls, observed>>

Retrigger(t) ==
  /\ pc[t] = "retrigger"
  /\ lock = NoOne
  /\ lock' = t
  /\ Goto(t, "dispatch")
  /\ UNCHANGED <<value, arg, calls, winners, observed>>

\* setValue and setError go on to _trigger in the same critical section.
WriteValue(t) ==
  /\ pc[t] = "writeValue"
  /\ value' = arg[t]
  /\ winners' = winners \union {t}
  /\ Goto(t, "dispatch")
  /\ UNCHANGED <<lock, arg, calls, observed>>

AddCallback(t, k) ==
  /\ pc[t] = "idle"
  /\ lock = NoOne
  /\ pushed < MaxCallbacks
  /\ lock' = t
  /\ pushed' = pushed + 1
  /\ kind' = [kind EXCEPT ![pushed + 1] = k]
  /\ Goto(t, "dispatch")
  /\ UNCHANGED <<value, arg, popped, given, tasks, runs, winners, observed>>

---------------------------------------------------------------------------
(* _trigger, one iteration of its loop at a time, under the mutex.         *)

Front == popped + 1
HasWork == value # None /\ popped < pushed

\* _callbacks.pop()
AfterPop == popped + 1

\* The front callback's runnable, with its copy of the result, is executed
\* by a context that queues it.
DispatchSerial(t) ==
  /\ pc[t] = "dispatch"
  /\ HasWork
  /\ kind[Front] = "serial"
  /\ given' = [given EXCEPT ![Front] = value]
  /\ tasks' = tasks \union {Front}
  /\ popped' = AfterPop
  /\ UNCHANGED <<lock, value, pc, arg, pushed, kind, runs, winners, observed>>

DispatchImmediate(t) ==
  /\ pc[t] = "dispatch"
  /\ HasWork
  /\ kind[Front] = "immediate"
  /\ given' = [given EXCEPT ![Front] = value]
  /\ runs' = [runs EXCEPT ![Front] = @ + 1]
  /\ popped' = AfterPop
  /\ UNCHANGED <<lock, value, pc, arg, pushed, kind, tasks, winners, observed>>

\* The exception leaves _trigger before pop() and unlocks on its way out to
\* the caller of setResult / setValue / addCallback.
DispatchThrowing(t) ==
  /\ pc[t] = "dispatch"
  /\ HasWork
  /\ kind[Front] = "throwing"
  /\ given' = [given EXCEPT ![Front] = value]
  /\ runs' = [runs EXCEPT ![Front] = @ + 1]
  /\ lock' = NoOne
  /\ Goto(t, "idle")
  /\ UNCHANGED <<value, arg, pushed, popped, kind, tasks, winners, observed>>

\* The callback locks the std::mutex its own thread already holds.
DispatchReentrant(t) ==
  /\ pc[t] = "dispatch"
  /\ HasWork
  /\ kind[Front] = "reentrant"
  /\ given' = [given EXCEPT ![Front] = value]
  /\ runs' = [runs EXCEPT ![Front] = @ + 1]
  /\ Goto(t, "stuck")
  /\ UNCHANGED <<lock, value, arg, pushed, popped, kind, tasks, winners, observed>>

\* Nothing (left) to do: the call returns and unlocks.
EndTrigger(t) ==
  /\ pc[t] = "dispatch"
  /\ ~HasWork
  /\ lock' = NoOne
  /\ Goto(t, "idle")
  /\ UNCHANGED <<value, arg, calls, winners, observed>>

---------------------------------------------------------------------------
\* The serial context runs the oldest runnable it was given.
Oldest(c) == \A d \in tasks : c <= d
RunTask ==
  \E c \in tasks :
    /\ Oldest(c)
    /\ tasks' = tasks \ {c}
    /\ runs' = [runs EXCEPT ![c] = @ + 1]
    /\ UNCHANGED <<lock, value, pc, arg, pushed, popped, kind, given, winners, observed>>

\* getValue (and Future::isCompleted) copies _value without the mutex: while
\* another thread is writing it the copy may be old, new or torn.
Writers == {u \in Threads : pc[u] \in {"writeResult", "writeValue"}}
Readable == {value} \union {arg[u] : u \in Writers} \union
            (IF Writers = {} THEN {} ELSE {Torn})

GetValue(t) ==
  /\ pc[t] = "idle"
  /\ \E o \in Readable : observed' = [observed EXCEPT ![t] = o]
  /\ UNCHANGED <<lock, value, pc, arg, calls, winners>>

Complete(t) ==
  \E r \in Results, write \in {"writeResult", "writeValue"} : BeginComplete(t, r, write)

Trigger(t) ==
  \/ DispatchSerial(t)
  \/ DispatchImmediate(t)
  \/ DispatchThrowing(t)
  \/ DispatchReentrant(t)
  \/ EndTrigger(t)

Proceed(t) == WriteResult(t) \/ WriteValue(t) \/ Retrigger(t) \/ Trigger(t)

Next ==
  \/ \E t \in Threads :
       \/ Complete(t)
       \/ \E k \in Kinds : AddCallback(t, k)
       \/ Proceed(t)
       \/ GetValue(t)
  \/ RunTask

\* A thread inside a call goes on, and the serial context goes on running
\* what it was given; nobody has to call anything.
Fairness == (\A t \in Threads : WF_vars(Proceed(t))) /\ WF_vars(RunTask)

SafetySpec == Init /\ [][Next]_vars
Spec == SafetySpec /\ Fairness

---------------------------------------------------------------------------
\* Types, and no more callbacks are popped than were pushed.
TypeOK ==
  /\ lock \in Threads \union {NoOne}
  /\ value \in Results \union {None}
  /\ pc \in [Threads -> PCs]
  /\ arg \in [Threads -> Results \union {None}]
  /\ pushed \in 0..MaxCallbacks
  /\ popped \in 0..pushed
  /\ kind \in [Callbacks -> AllKinds \union {None}]
  /\ given \in [Callbacks -> Results \union {None}]
  /\ tasks \subseteq Callbacks
  /\ runs \in [Callbacks -> Nat]
  /\ winners \subseteq Threads
  /\ observed \in [Threads -> Results \union {None, Torn}]

\* A promise is completed by one caller at most, whoever races: every other
\* setResult / setValue / setError throws, and all that is ever handed to a
\* callback, or read untorn by getValue, is what that caller stored.
Agreement ==
  /\ \A t, u \in winners : t = u
  /\ \A t \in winners : value = arg[t]
  /\ \A c \in Callbacks : given[c] \in {None, value}
  /\ \A t \in Threads :
       observed[t] \in {None, Torn, value} \union {arg[u] : u \in Writers}

\* A callback that neither throws nor locks the Deffered again is entered at
\* most once, whichever of the racing calls dispatches it, and is accounted
\* for in exactly one place until then: still in _callbacks, in the serial
\* context, or run.
Benign(c) == kind[c] \in {"serial", "immediate"}
RunsOnce ==
  \A c \in 1..pushed :
    Benign(c) => runs[c] = IF c > popped \/ c \in tasks THEN 0 ELSE 1

\* setResult leaves a window between storing the result and triggering.  No
\* callback falls into it: once a result is stored, a callback still queued
\* behind no throwing or re-entrant one has a thread on its way to it.
NoCallbackForgotten ==
  (HasWork /\ Benign(Front)) => \E t \in Threads : pc[t] \in {"retrigger", "dispatch"}

\* Callbacks of the serial context run in the order they were registered,
\* also when several threads dispatch them.
SerialOrder ==
  \A c, d \in 1..pushed :
    (c < d /\ kind[c] = "serial" /\ kind[d] = "serial" /\ runs[d] > 0) => runs[c] > 0

\* A callback registered, before or after the completion, with nothing but
\* well-behaved callbacks ahead of it is eventually run.
Undisturbed(c) == c <= pushed /\ \A d \in 1..c : Benign(d)
EventuallyRun ==
  \A c \in Callbacks : (value # None /\ Undisturbed(c)) ~> (runs[c] = 1)

---------------------------------------------------------------------------
(* Deferred implements the abstract cell: a delivery is a first entry.     *)
Delivered == [c \in Callbacks |-> IF runs[c] = 0 THEN None ELSE given[c]]

Cell == INSTANCE FutureCell WITH
          result <- value, registered <- pushed, delivered <- Delivered
CellSpec == Cell!Spec
===========================================================================
