-------------------------- MODULE CliRuntimeProofs --------------------------
(* Proofs about CliRuntime, for any commands and bounds: main meets the    *)
(* answer of the call it waits for, and the asio thread leaves none behind. *)
EXTENDS CliRuntime, Integers, TLAPS

Tasks == [kind : {"work", "subscribe", "event", "runnable"},
          n : Nat \union {"succeed", "failed"}, hops : Nat]

\* Only "sync" waits for events, and for them last.
LEMMA ScriptFacts ==
  ASSUME NEW c \in Commands
  PROVE  /\ Len(Script(c)) \in 0..3
         /\ \A i \in 1..Len(Script(c)) :
              Script(c)[i] = IF c = "sync" /\ i = 3 THEN "events" ELSE "result"
         /\ c = "sync" => Len(Script(c)) = 3
<1>1. CASE c = "add" BY <1>1, SMT DEF Script
<1>2. CASE c = "list" BY <1>2, SMT DEF Script
<1>3. CASE c = "sync" BY <1>3, SMT DEF Script
<1>4. CASE c = "build" BY <1>4, SMT DEF Script
<1>5. CASE c \in {"balance", "currencies"} BY <1>5, SMT DEF Script
<1>6. QED BY <1>1, <1>2, <1>3, <1>4, <1>5, CommandsAssumption

\* After main has subscribed to the bus.
Subscribing ==
  /\ command = "sync"
  /\ \/ step = 4
     \/ step = 3 /\ main \in {"check", "blocked", "throw", "failed", "aborted"}

\* A handler of a call in flight is of the call main waits for, or of a
\* synchronization whose outcome main has.
WorkInv(t) ==
  /\ t.n \in 1..Len(Script(command)) /\ t.n <= step
  /\ t.n = step => main \in {"subscribe", "check", "blocked", "throw", "failed", "aborted"}
  /\ Script(command)[t.n] = "result" =>
       t.n = step /\ main \in {"check", "blocked", "aborted"} /\ ~Answered

TaskOK(t) ==
  /\ t.kind = "work" => WorkInv(t)
  /\ t.kind \in {"subscribe", "event"} => Subscribing

TaskInv ==
  /\ \A i \in 1..Len(ready) : TaskOK(ready[i])
  /\ \A op \in outstanding : TaskOK(op)

\* There is one at most.
WorkAt == {i \in 1..Len(ready) : ready[i].kind = "work"}
OneWork ==
  /\ \A i, j \in WorkAt : i = j
  /\ \A op \in outstanding : op.kind = "work" /\ WorkAt = {}
  /\ \A a, b \in outstanding : a = b

MainInv ==
  /\ main \in {"subscribe", "check", "blocked"} => step <= Len(Script(command))
  /\ main = "subscribe" => cell = EmptyCell /\ command = "sync" /\ step = 3
  /\ main = "blocked" => ~Answered
  /\ subscribed => Subscribing
  /\ shouldStop => main \in {"join", "exited", "aborted"}

\* While run() has returned, the only handlers are runnables, or main waits
\* for an answer.
LoopInv ==
  /\ io = "exited" => shouldStop
  /\ io # "run" =>
       /\ outstanding = {}
       /\ \/ \A i \in 1..Len(ready) : ready[i].kind = "runnable"
          \/ main = "subscribe"
          \/ main \in {"check", "blocked"} /\ ~Answered

MainTypes ==
  /\ command \in Commands
  /\ main \in {"call", "subscribe", "check", "blocked", "stop", "join", "throw",
               "exited", "failed", "aborted"}
  /\ step \in 1..(Len(Script(command)) + 1)
CellType == cell \in [result : {"none", "value", "null"}, error : BOOLEAN]
QueueTypes == ready \in Seq(Tasks) /\ outstanding \subseteq Tasks
LoopTypes ==
  /\ io \in {"run", "returned", "exited"}
  /\ ran \in BOOLEAN /\ shouldStop \in BOOLEAN
BusTypes ==
  /\ sticky \in {None, "succeed", "failed"} /\ subscribed \in BOOLEAN
  /\ events \in 0..MaxEvents
OwedType == owed \subseteq 1..MaxRunnables
Types == MainTypes /\ CellType /\ QueueTypes /\ LoopTypes /\ BusTypes /\ OwedType

IInv == Types /\ TaskInv /\ OneWork /\ MainInv /\ LoopInv

USE BoundsAssumption

\* Posting a handler.
LEMMA Posted ==
  ASSUME NEW q \in Seq(Tasks), NEW t \in Tasks
  PROVE  /\ Append(q, t) \in Seq(Tasks)
         /\ Len(q) \in Nat /\ Len(Append(q, t)) = Len(q) + 1
         /\ \A i \in 1..Len(q) : Append(q, t)[i] = q[i]
         /\ Append(q, t)[Len(q) + 1] = t
         /\ q \o <<t>> = Append(q, t) /\ q \o <<>> = q
<1> DEFINE T == Tasks
<1>1. \A p \in Seq(T), u \in T :
         /\ Append(p, u) \in Seq(T)
         /\ Len(p) \in Nat /\ Len(Append(p, u)) = Len(p) + 1
         /\ \A i \in 1..Len(p) : Append(p, u)[i] = p[i]
         /\ Append(p, u)[Len(p) + 1] = u
         /\ p \o <<u>> = Append(p, u) /\ p \o <<>> = p
  <2> HIDE DEF T
  <2> QED BY SMT
<1>2. QED BY <1>1

\* Taking the first handler.
LEMMA Taken ==
  ASSUME NEW q \in Seq(Tasks), q # <<>>
  PROVE  /\ Head(q) \in Tasks /\ Head(q) = q[1] /\ 1 \in 1..Len(q)
         /\ Tail(q) \in Seq(Tasks)
         /\ Len(q) \in Nat /\ Len(Tail(q)) = Len(q) - 1
         /\ \A i \in 1..Len(Tail(q)) : i + 1 \in 1..Len(q) /\ Tail(q)[i] = q[i + 1]
<1> DEFINE T == Tasks
<1>1. \A p \in Seq(T) : p # <<>> =>
         /\ Head(p) \in T /\ Head(p) = p[1] /\ 1 \in 1..Len(p)
         /\ Tail(p) \in Seq(T)
         /\ Len(p) \in Nat /\ Len(Tail(p)) = Len(p) - 1
         /\ \A i \in 1..Len(Tail(p)) : i + 1 \in 1..Len(p) /\ Tail(p)[i] = p[i + 1]
  <2> HIDE DEF T
  <2> QED BY SMT
<1>2. QED BY <1>1

\* The first state: main is at its first call, nothing is queued.
LEMMA InitInv == Init => IInv
<1> SUFFICES ASSUME Init PROVE IInv
  OBVIOUS
<1>1. Types
  <2>1. QueueTypes /\ OwedType /\ 0 \in 0..MaxEvents
    BY SMT DEF Init, QueueTypes, OwedType
  <2>2. MainTypes
    BY ScriptFacts, SMT DEF Init, MainTypes
  <2>3. CellType /\ LoopTypes /\ BusTypes
    BY <2>1, Zenon DEF Init, EmptyCell, CellType, LoopTypes, BusTypes
  <2>4. QED BY <2>1, <2>2, <2>3 DEF Types
<1>2. TaskInv /\ OneWork
  BY SMT DEF Init, TaskInv, OneWork, WorkAt
<1>3. MainInv /\ LoopInv
  BY SMT DEF Init, MainInv, LoopInv
<1>4. QED BY <1>1, <1>2, <1>3 DEF IInv

\* What main does preserves the invariant: a call is made when no other is in
\* flight and main has not subscribed.
LEMMA MainStepInv ==
  ASSUME IInv, MainThread \/ Execute \/ Delay \/ SpuriousWakeup
  PROVE  IInv'
<1> USE DEF IInv
<1>1. CASE Call
  <2>1. Task("work", step, MaxHops) \in Tasks
    BY ScriptFacts, SMT DEF Types, MainTypes, Tasks, Task
  <2>2. PICK t \in Tasks :
          t.kind = "work" /\ t.n = step /\ ready' = Append(ready, t)
    BY <1>1, <2>1, Zenon DEF Call, Task
  <2>3. step \in 1..Len(Script(command))
    BY <1>1, ScriptFacts, SMT DEF Call, Types, MainTypes, Done
  <2>4. ~Subscribing
    BY <1>1, <2>3, ScriptFacts, SMT DEF Call, Types, MainTypes, QueueTypes, Subscribing
  <2>5. ASSUME NEW u, TaskOK(u)
        PROVE  u.kind \notin {"work", "subscribe", "event"}
    <3>1. u.kind # "work"
      <4>1. SUFFICES ASSUME WorkInv(u) PROVE FALSE
        BY <2>5 DEF TaskOK
      <4>2. u.n # step /\ Script(command)[u.n] # "result" /\ u.n \in 1..Len(Script(command))
        BY <1>1, <4>1, Zenon DEF Call, WorkInv
      <4>3. command = "sync" /\ u.n = 3
        BY <4>2, ScriptFacts, SMT DEF Types, MainTypes
      <4>4. QED
        BY <2>3, <4>1, <4>2, <4>3, ScriptFacts, SMT DEF WorkInv, Types, MainTypes
    <3>2. QED
      BY <2>4, <2>5, <3>1, Zenon DEF TaskOK
  <2>6. Types'
    <3>1. CellType' /\ LoopTypes' /\ BusTypes' /\ OwedType'
      BY <1>1, Zenon
      DEF Call, EmptyCell, Types, CellType, LoopTypes, BusTypes, OwedType, loopVars, busVars
    <3>2. MainTypes'
      BY <1>1, SMT DEF Call, Types, MainTypes
    <3>3. QueueTypes'
      BY <1>1, <2>2, Posted, Zenon DEF Call, Types, QueueTypes
    <3>4. QED BY <3>1, <3>2, <3>3 DEF Types
  <2>7. TaskInv'
    <3>1. TaskOK(t)'
      BY <1>1, <2>2, <2>3, ScriptFacts, SMT
      DEF Call, Types, MainTypes, TaskOK, WorkInv, Answered, EmptyCell, Waiting
    <3>2. ASSUME NEW u, TaskOK(u) PROVE TaskOK(u)'
      BY <2>5, <3>2, Zenon DEF TaskOK
    <3>3. QED
      BY <1>1, <2>2, <3>1, <3>2, Posted, SMT DEF Call, Types, QueueTypes, TaskInv
  <2>8. OneWork'
    <3>1. WorkAt = {} /\ outstanding = {}
      BY <2>5, Zenon DEF OneWork, WorkAt, TaskInv
    <3>2. QED
      BY <1>1, <2>2, <3>1, Posted, SMT DEF Call, Types, QueueTypes, OneWork, WorkAt
  <2>9. MainInv'
    BY <1>1, <2>3, <2>4, ScriptFacts, SMT
    DEF Call, Types, MainTypes, MainInv, Waiting, busVars, loopVars
  <2>10. LoopInv'
    BY <1>1, <2>3, SMT DEF Call, LoopInv, OneWork, Answered, EmptyCell, loopVars
  <2>11. QED
    BY <2>6, <2>7, <2>8, <2>9, <2>10
<1>2. CASE Subscribe
  <2>1. Task("subscribe", step, 0) \in Tasks
    BY ScriptFacts, SMT DEF Types, MainTypes, Tasks, Task
  <2>2. PICK t \in Tasks : t.kind = "subscribe" /\ ready' = Append(ready, t)
    BY <1>2, <2>1, Zenon DEF Subscribe, Task
  <2>3. Types'
    <3>1. CellType' /\ LoopTypes' /\ BusTypes' /\ OwedType'
      BY <1>2, Zenon
      DEF Subscribe, Types, CellType, LoopTypes, BusTypes, OwedType, loopVars, busVars
    <3>2. MainTypes'
      BY <1>2, SMT DEF Subscribe, Types, MainTypes
    <3>3. QueueTypes'
      BY <1>2, <2>2, Posted, Zenon DEF Subscribe, Types, QueueTypes
    <3>4. QED BY <3>1, <3>2, <3>3 DEF Types
  <2>4. TaskInv'
    <3>1. ASSUME NEW u, TaskOK(u) PROVE TaskOK(u)'
      BY <1>2, <3>1, SMT
      DEF Subscribe, TaskOK, WorkInv, Subscribing, Answered, MainInv, EmptyCell
    <3>2. TaskOK(t)'
      BY <1>2, <2>2, SMT DEF Subscribe, TaskOK, Subscribing, MainInv
    <3>3. QED
      BY <1>2, <2>2, <3>1, <3>2, Posted, SMT DEF Subscribe, Types, QueueTypes, TaskInv
  <2>5. OneWork'
    BY <1>2, <2>2, Posted, SMT DEF Subscribe, Types, QueueTypes, OneWork, WorkAt
  <2>6. MainInv' /\ LoopInv'
    BY <1>2, SMT
    DEF Subscribe, MainInv, LoopInv, Answered, EmptyCell, Subscribing, busVars, loopVars
  <2>7. QED
    BY <2>3, <2>4, <2>5, <2>6
<1>3. CASE Execute
  <2>1. PICK r \in (1..MaxRunnables) \ owed :
          ready' = Append(ready, Task("runnable", r, 0)) /\ owed' = owed \union {r}
    BY <1>3, Zenon DEF Execute
  <2>2. Task("runnable", r, 0) \in Tasks
    BY SMT DEF Tasks, Task
  <2>3. PICK t \in Tasks : t.kind = "runnable" /\ ready' = Append(ready, t)
    BY <2>1, <2>2, Zenon DEF Task
  <2>4. Types'
    <3>1. CellType' /\ LoopTypes' /\ BusTypes'
      BY <1>3, Zenon DEF Execute, Types, CellType, LoopTypes, BusTypes, loopVars, busVars
    <3>2. MainTypes'
      BY <1>3, SMT DEF Execute, Types, MainTypes, mainVars
    <3>3. QueueTypes'
      BY <1>3, <2>3, Posted, Zenon DEF Execute, Types, QueueTypes
    <3>4. OwedType'
      BY <2>1, Zenon DEF Types, OwedType
    <3>5. QED BY <3>1, <3>2, <3>3, <3>4 DEF Types
  <2>5. TaskInv'
    <3>1. ASSUME NEW u, TaskOK(u) PROVE TaskOK(u)'
      BY <1>3, <3>1, SMT DEF Execute, TaskOK, WorkInv, Subscribing, Answered, mainVars
    <3>2. TaskOK(t)'
      BY <2>3, SMT DEF TaskOK
    <3>3. QED
      BY <1>3, <2>3, <3>1, <3>2, Posted, SMT DEF Execute, Types, QueueTypes, TaskInv
  <2>6. OneWork'
    BY <1>3, <2>3, Posted, SMT DEF Execute, Types, QueueTypes, OneWork, WorkAt
  <2>7. MainInv'
    BY <1>3, SMT
    DEF Execute, MainInv, Answered, EmptyCell, Subscribing, busVars, loopVars, mainVars
  <2>8. LoopInv'
    BY <1>3, <2>3, Posted, SMT
    DEF Execute, Types, QueueTypes, LoopInv, loopVars, mainVars
  <2>9. QED
    BY <2>4, <2>5, <2>6, <2>7, <2>8
<1>4. ASSUME \/ WaitReturns \/ WaitBlocks \/ SpuriousWakeup \/ Delay \/ ReturnEarly
             \/ Reject \/ CommandReturns \/ Stop \/ Join \/ Unwind
      PROVE  IInv'
  <2>1. UNCHANGED <<command, cell, ready, outstanding, io, ran, sticky, subscribed, events>>
    BY <1>4, Zenon
    DEF WaitReturns, WaitBlocks, SpuriousWakeup, Delay, ReturnEarly, Reject,
        CommandReturns, Stop, Join, Unwind, loopVars, busVars, mainVars
  <2>2. Types'
    <3>1. CellType' /\ QueueTypes' /\ BusTypes'
      BY <2>1, Zenon DEF Types, CellType, QueueTypes, BusTypes
    <3>2. shouldStop' \in BOOLEAN /\ owed' \subseteq 1..MaxRunnables
      BY <1>4, Zenon
      DEF Types, LoopTypes, OwedType, WaitReturns, WaitBlocks, SpuriousWakeup, Delay,
          ReturnEarly, Reject, CommandReturns, Stop, Join, Unwind, loopVars
    <3>3. LoopTypes' /\ OwedType'
      BY <2>1, <3>2, Zenon DEF Types, LoopTypes, OwedType
    <3>4. MainTypes'
      BY <1>4, <2>1, ScriptFacts, SMT
      DEF Types, MainTypes, MainInv, WaitReturns, WaitBlocks, SpuriousWakeup, Delay,
          ReturnEarly, Reject, CommandReturns, Stop, Join, Unwind, mainVars
    <3>5. QED BY <3>1, <3>3, <3>4 DEF Types
  <2>3. Answered' = Answered
    BY <2>1, Zenon DEF Answered
  <2>4. Subscribing => Subscribing'
    <3>1. CASE WaitReturns
      BY <2>1, <3>1, ScriptFacts, SMT DEF Subscribing, WaitReturns, MainInv, Types, MainTypes
    <3>2. CASE step' = step /\ main \in {"call", "stop", "join"}
      BY <2>1, <3>2, SMT DEF Subscribing
    <3>3. CASE /\ step' = step
               /\ main' \in {"check", "blocked", "throw", "failed", "aborted"}
      BY <2>1, <3>3, SMT DEF Subscribing
    <3>4. QED
      BY <1>4, <3>1, <3>2, <3>3, Zenon
      DEF WaitBlocks, SpuriousWakeup, Delay, ReturnEarly, Reject, CommandReturns,
          Stop, Join, Unwind, mainVars
  <2>5. ASSUME NEW u, TaskOK(u) PROVE TaskOK(u)'
    <3>1. ASSUME WorkInv(u) PROVE WorkInv(u)'
      BY <1>4, <2>1, <2>3, <3>1, ScriptFacts, SMT
      DEF Types, MainTypes, WorkInv, WaitReturns, WaitBlocks, SpuriousWakeup, Delay,
          ReturnEarly, Reject, CommandReturns, Stop, Join, Unwind, mainVars, Done
    <3>2. QED BY <2>4, <2>5, <3>1, Zenon DEF TaskOK
  <2>6. TaskInv' /\ OneWork'
    BY <2>1, <2>5, Zenon DEF TaskInv, OneWork, WorkAt
  <2>7. MainInv'
    BY <1>4, <2>1, <2>3, <2>4, SMT
    DEF Types, MainTypes, MainInv, WaitReturns, WaitBlocks, SpuriousWakeup, Delay,
        ReturnEarly, Reject, CommandReturns, Stop, Join, Unwind, mainVars, loopVars
  <2>8. LoopInv'
    BY <1>4, <2>1, <2>3, SMT
    DEF LoopInv, WaitReturns, WaitBlocks, SpuriousWakeup, Delay,
        ReturnEarly, Reject, CommandReturns, Stop, Join, Unwind, mainVars, loopVars
  <2>9. QED BY <2>2, <2>6, <2>7, <2>8
<1>5. QED
  BY <1>1, <1>2, <1>3, <1>4 DEF MainThread

\* What the asio thread does preserves it: the library works on one call at
\* most, and its answer or its event meets main waiting for it.
LEMMA AsioStepInv ==
  ASSUME IInv, AsioThread \/ OperationDone
  PROVE  IInv'
<1> USE DEF IInv
<1>1. ASSUME NEW k, Handler(k)
      PROVE  /\ ready # <<>> /\ Head(ready) \in Tasks /\ Head(ready).kind = k
             /\ TaskOK(Head(ready)) /\ io = "run" /\ main \notin {"aborted", "failed"}
             /\ k = "work" => /\ WorkInv(Head(ready)) /\ outstanding = {}
                              /\ \A i \in 1..Len(Tail(ready)) : Tail(ready)[i].kind # "work"
             /\ k \in {"subscribe", "event"} => Subscribing
  <2>1. /\ ready # <<>> /\ Head(ready) \in Tasks /\ Head(ready).kind = k
        /\ TaskOK(Head(ready)) /\ io = "run" /\ main \notin {"aborted", "failed"}
    BY <1>1, Taken, Zenon DEF Handler, Alive, Types, QueueTypes, TaskInv
  <2>2. ASSUME k = "work"
        PROVE  outstanding = {} /\ \A i \in 1..Len(Tail(ready)) : Tail(ready)[i].kind # "work"
    <3>1. 1 \in WorkAt
      BY <2>1, <2>2, Taken, Zenon DEF Types, QueueTypes, WorkAt
    <3>2. outstanding = {}
      BY <3>1, Zenon DEF OneWork
    <3>3. ASSUME NEW i \in 1..Len(Tail(ready)), Tail(ready)[i].kind = "work" PROVE FALSE
      <4>1. i + 1 \in WorkAt
        BY <2>1, <3>3, Taken, Zenon DEF Types, QueueTypes, WorkAt
      <4>2. i + 1 = 1
        BY <3>1, <4>1, Zenon DEF OneWork
      <4>3. QED BY <4>2, <3>3, SMT
    <3>4. QED BY <3>2, <3>3
  <2>3. QED
    BY <2>1, <2>2, Zenon DEF TaskOK
<1>2. ASSUME NEW u, TaskOK(u), UNCHANGED <<command, step>>, Answered' = Answered, main' = main
      PROVE  TaskOK(u)'
  BY <1>2, Zenon DEF TaskOK, WorkInv, Subscribing
<1>3. CASE Continue
  <2> DEFINE next == [Head(ready) EXCEPT !.hops = @ - 1]
  <2>1. /\ ready # <<>> /\ Head(ready) \in Tasks /\ Head(ready).kind = "work"
        /\ WorkInv(Head(ready)) /\ io = "run" /\ outstanding = {}
        /\ \A i \in 1..Len(Tail(ready)) : Tail(ready)[i].kind # "work"
    BY <1>1, <1>3, Zenon DEF Continue
  <2>2. /\ UNCHANGED <<command, main, step, cell, io, shouldStop, sticky, subscribed, events, owed>>
        /\ ran' = TRUE
        /\ \/ ready' = Append(Tail(ready), next) /\ outstanding' = outstanding
           \/ ready' = Tail(ready) /\ outstanding' = outstanding \union {next}
    BY <1>3, Zenon DEF Continue, mainVars, busVars
  <2>3. next \in Tasks /\ next.kind = "work" /\ next.n = Head(ready).n
    BY <1>3, <2>1, SMT DEF Continue, Tasks
  <2> HIDE DEF next
  <2>4. Types'
    <3>1. ready' \in Seq(Tasks) /\ outstanding' \subseteq Tasks
      <4>1. Tail(ready) \in Seq(Tasks) /\ outstanding \subseteq Tasks
        BY <2>1, Taken, Zenon DEF Types, QueueTypes
      <4>2. Append(Tail(ready), next) \in Seq(Tasks) /\ outstanding \union {next} \subseteq Tasks
        BY <2>3, <4>1, Posted, Zenon
      <4>3. QED BY <2>2, <4>1, <4>2, Zenon
    <3>2. QED
      BY <2>2, <3>1, Zenon
      DEF Types, MainTypes, CellType, QueueTypes, LoopTypes, BusTypes, OwedType
  <2>5. TaskInv'
    <3>1. ASSUME NEW u, TaskOK(u) PROVE TaskOK(u)'
      BY <1>2, <2>2, <3>1, Zenon DEF Answered
    <3>2. TaskOK(next)
      BY <2>1, <2>3, SMT DEF TaskOK, WorkInv
    <3>3. \A i \in 1..Len(Tail(ready)) : TaskOK(Tail(ready)[i])
      BY <2>1, Taken, Zenon DEF Types, QueueTypes, TaskInv
    <3>4. CASE ready' = Tail(ready) /\ outstanding' = outstanding \union {next}
      BY <3>1, <3>2, <3>3, <3>4, Zenon DEF TaskInv
    <3>5. CASE ready' = Append(Tail(ready), next) /\ outstanding' = outstanding
      <4>1. Tail(ready) \in Seq(Tasks)
        BY <2>1, Taken, Zenon DEF Types, QueueTypes
      <4>2. QED
        BY <2>3, <3>1, <3>2, <3>3, <3>5, <4>1, Posted, SMT DEF TaskInv
    <3>6. QED BY <2>2, <3>4, <3>5
  <2>6. OneWork'
    <3>1. CASE ready' = Tail(ready) /\ outstanding' = outstanding \union {next}
      BY <2>1, <2>3, <3>1, Zenon DEF OneWork, WorkAt
    <3>2. CASE ready' = Append(Tail(ready), next) /\ outstanding' = outstanding
      <4>1. Tail(ready) \in Seq(Tasks)
        BY <2>1, Taken, Zenon DEF Types, QueueTypes
      <4>2. QED
        BY <2>1, <2>3, <3>2, <4>1, Posted, SMT DEF OneWork, WorkAt
    <3>3. QED BY <2>2, <3>1, <3>2
  <2>7. MainInv' /\ LoopInv'
    BY <2>1, <2>2, SMT DEF MainInv, LoopInv, Answered, Subscribing
  <2>8. QED BY <2>4, <2>5, <2>6, <2>7
<1>4. CASE OnCallback
  <2>1. /\ ready # <<>> /\ WorkInv(Head(ready)) /\ io = "run" /\ outstanding = {}
        /\ main \notin {"aborted", "failed"}
        /\ \A i \in 1..Len(Tail(ready)) : Tail(ready)[i].kind # "work"
    BY <1>1, <1>4, Zenon DEF OnCallback
  <2>2. /\ UNCHANGED <<command, step, outstanding, io, shouldStop, sticky, subscribed, events, owed>>
        /\ ready' = Tail(ready) /\ ran' = TRUE
        /\ main' = IF main = "blocked" THEN "check" ELSE main
    BY <1>4, Zenon DEF OnCallback, Woken, busVars
  <2>3. main \in {"check", "blocked"}
    BY <1>4, <2>1, Zenon DEF OnCallback, WorkInv
  <2>4. Types'
    <3>1. CellType'
      <4>1. \/ cell' = [cell EXCEPT !.error = TRUE]
            \/ \E a \in {"value", "null"} : cell' = [cell EXCEPT !.result = a]
        BY <1>4, Zenon DEF OnCallback, Answers
      <4>2. CASE cell' = [cell EXCEPT !.error = TRUE]
        BY <4>2, Zenon DEF Types, CellType
      <4>3. CASE \E a \in {"value", "null"} : cell' = [cell EXCEPT !.result = a]
        BY <4>3, Zenon DEF Types, CellType
      <4>4. QED BY <4>1, <4>2, <4>3
    <3>2. MainTypes'
      BY <2>2, Zenon DEF Types, MainTypes
    <3>3. QueueTypes' /\ LoopTypes' /\ BusTypes' /\ OwedType'
      BY <2>1, <2>2, Taken, Zenon DEF Types, QueueTypes, LoopTypes, BusTypes, OwedType
    <3>4. QED BY <3>1, <3>2, <3>3 DEF Types
  <2>5. TaskInv'
    <3>1. ASSUME NEW u, TaskOK(u), u.kind # "work" PROVE TaskOK(u)'
      BY <2>1, <2>2, <3>1, SMT DEF TaskOK, Subscribing
    <3>2. QED
      BY <2>1, <2>2, <3>1, Taken, Zenon DEF Types, QueueTypes, TaskInv
  <2>6. OneWork'
    BY <2>1, <2>2, Taken, SMT DEF Types, QueueTypes, OneWork, WorkAt
  <2>7. MainInv' /\ LoopInv'
    BY <2>1, <2>2, <2>3, SMT DEF MainInv, LoopInv, Subscribing
  <2>8. QED BY <2>4, <2>5, <2>6, <2>7
<1>5. CASE Publish
  <2> DEFINE h == Head(ready)
             NotWork(q) == \A i \in 1..Len(q) : q[i].kind # "work" /\ TaskOK(q[i])
  <2>1. /\ ready # <<>> /\ h \in Tasks /\ h.kind = "work" /\ TaskOK(h) /\ io = "run"
        /\ outstanding = {} /\ \A i \in 1..Len(Tail(ready)) : Tail(ready)[i].kind # "work"
    BY <1>1, <1>5, Zenon DEF Publish
  <2>2. UNCHANGED <<command, main, step, cell, outstanding, io, shouldStop, subscribed, owed>>
    BY <1>5, Zenon DEF Publish, mainVars
  <2>3. Tail(ready) \in Seq(Tasks) /\ NotWork(Tail(ready))
    BY <2>1, Taken, Zenon DEF Types, QueueTypes, TaskInv
  <2>4. PICK outcome \in {"succeed", "failed"} :
          /\ sticky' = outcome /\ events < MaxEvents /\ events' = events + 1 /\ ran' = TRUE
          /\ ready' = Tail(ready) \o
                      (IF subscribed THEN <<Task("event", outcome, 0)>> ELSE <<>>) \o
                      (IF events + 1 < MaxEvents THEN <<h>> ELSE <<>>)
    BY <1>5, Zenon DEF Publish
  <2> HIDE DEF h
  <2>5. PICK q \in Seq(Tasks) :
          /\ NotWork(q)
          /\ q = Tail(ready) \o (IF subscribed THEN <<Task("event", outcome, 0)>> ELSE <<>>)
    <3>1. CASE subscribed
      <4> DEFINE e == Task("event", outcome, 0)
      <4>1. e \in Tasks
        BY SMT DEF Tasks, Task
      <4>2. e.kind = "event"
        BY DEF Task
      <4> HIDE DEF e
      <4>3. TaskOK(e)
        BY <3>1, <4>2, SMT DEF MainInv, TaskOK
      <4>4. Append(Tail(ready), e) \in Seq(Tasks) /\ NotWork(Append(Tail(ready), e))
        BY <2>3, <4>1, <4>2, <4>3, Posted, SMT
      <4>5. Append(Tail(ready), e) = Tail(ready) \o <<e>>
        BY <2>3, <4>1, Posted, Zenon
      <4>6. QED BY <3>1, <4>4, <4>5, Zenon DEF e
    <3>2. CASE ~subscribed
      <4>1. Tail(ready) \o <<>> = Tail(ready)
        BY <2>1, <2>3, Posted, Zenon
      <4>2. QED BY <2>3, <3>2, <4>1, Zenon
    <3>3. QED BY <3>1, <3>2
  <2> HIDE DEF NotWork
  <2>6. ready' = q \/ ready' = Append(q, h)
    <3>1. ready' = q \o (IF events + 1 < MaxEvents THEN <<h>> ELSE <<>>)
      BY <2>4, <2>5, Zenon
    <3>2. q \o <<>> = q /\ q \o <<h>> = Append(q, h)
      BY <2>1, Posted, Zenon
    <3>3. QED BY <3>1, <3>2, Zenon
  <2>7. Types'
    <3>1. QueueTypes'
      BY <2>1, <2>2, <2>6, Posted, Zenon DEF Types, QueueTypes
    <3>2. events + 1 \in 0..MaxEvents
      BY <2>4, SMT DEF Types, BusTypes
    <3>3. QED
      BY <2>2, <2>4, <3>1, <3>2, Zenon
      DEF Types, MainTypes, CellType, LoopTypes, BusTypes, OwedType
  <2>8. TaskInv'
    <3>1. ASSUME NEW u, TaskOK(u) PROVE TaskOK(u)'
      BY <1>2, <2>2, <3>1, Zenon DEF Answered
    <3>2. \A i \in 1..Len(ready') : TaskOK(ready'[i])
      <4>1. CASE ready' = q BY <2>5, <4>1, Zenon DEF NotWork
      <4>2. CASE ready' = Append(q, h)
        <5>1. Len(q) \in Nat /\ Len(ready') = Len(q) + 1 /\ ready'[Len(q) + 1] = h
              /\ \A i \in 1..Len(q) : ready'[i] = q[i] /\ TaskOK(q[i])
          BY <2>1, <2>5, <4>2, Posted, Zenon DEF NotWork
        <5>2. QED BY <2>1, <5>1, SMT
      <4>3. QED BY <2>6, <4>1, <4>2
    <3>3. QED
      BY <2>1, <2>2, <3>1, <3>2, Zenon DEF TaskInv
  <2>9. OneWork'
    <3>1. CASE ready' = q BY <2>1, <2>2, <2>5, <3>1, Zenon DEF NotWork, OneWork, WorkAt
    <3>2. CASE ready' = Append(q, h)
      <4>1. Len(q) \in Nat /\ Len(ready') = Len(q) + 1
            /\ \A i \in 1..Len(q) : ready'[i] = q[i] /\ q[i].kind # "work"
        BY <2>1, <2>5, <3>2, Posted, Zenon DEF NotWork
      <4>2. QED BY <2>1, <2>2, <4>1, SMT DEF OneWork, WorkAt
    <3>3. QED BY <2>6, <3>1, <3>2
  <2>10. MainInv' /\ LoopInv'
    BY <2>1, <2>2, SMT DEF MainInv, LoopInv, Answered, Subscribing
  <2>11. QED BY <2>7, <2>8, <2>9, <2>10
<1>6. CASE RunSubscribe
  <2>1. ready # <<>> /\ Head(ready) \in Tasks /\ io = "run" /\ Subscribing
    BY <1>1, <1>6, Zenon DEF RunSubscribe
  <2>2. /\ UNCHANGED <<command, main, step, cell, outstanding, io, shouldStop, sticky, events, owed>>
        /\ ran' = TRUE /\ subscribed' = TRUE
    BY <1>6, Zenon DEF RunSubscribe, mainVars
  <2>3. Tail(ready) \in Seq(Tasks)
    BY <2>1, Taken, Zenon DEF Types, QueueTypes
  <2>4. \/ ready' = Tail(ready)
        \/ \E e \in Tasks : e.kind = "event" /\ ready' = Append(Tail(ready), e)
    <3>1. CASE sticky = None
      <4>1. ready' = Tail(ready) \o <<>>
        BY <1>6, <3>1, Zenon DEF RunSubscribe
      <4>2. QED BY <2>1, <2>3, <4>1, Posted, Zenon
    <3>2. CASE sticky # None
      <4>1. Task("event", sticky, 0) \in Tasks
        BY <3>2, SMT DEF Types, BusTypes, Tasks, Task
      <4>2. ready' = Tail(ready) \o <<Task("event", sticky, 0)>>
        BY <1>6, <3>2, Zenon DEF RunSubscribe
      <4>3. ready' = Append(Tail(ready), Task("event", sticky, 0))
        BY <2>3, <4>1, <4>2, Posted, Zenon
      <4>4. Task("event", sticky, 0).kind = "event"
        BY DEF Task
      <4>5. QED BY <4>1, <4>3, <4>4, Zenon
    <3>3. QED BY <3>1, <3>2
  <2>5. Types'
    <3>1. QueueTypes'
      BY <2>2, <2>3, <2>4, Posted, Zenon DEF Types, QueueTypes
    <3>2. QED
      BY <2>2, <3>1, Zenon DEF Types, MainTypes, CellType, LoopTypes, BusTypes, OwedType
  <2>6. TaskInv'
    <3>1. ASSUME NEW u, TaskOK(u) PROVE TaskOK(u)'
      BY <1>2, <2>2, <3>1, Zenon DEF Answered
    <3>2. ASSUME NEW e, e.kind = "event" PROVE TaskOK(e)
      BY <2>1, <3>2, Zenon DEF TaskOK
    <3>3. \A i \in 1..Len(Tail(ready)) : TaskOK(Tail(ready)[i])
      BY <2>1, Taken, Zenon DEF Types, QueueTypes, TaskInv
    <3>4. QED
      BY <2>2, <2>3, <2>4, <3>1, <3>2, <3>3, Posted, SMT DEF TaskInv
  <2>7. OneWork'
    <3>1. \A i, j \in 1..Len(Tail(ready)) :
            Tail(ready)[i].kind = "work" /\ Tail(ready)[j].kind = "work"
              => i = j /\ outstanding = {}
      BY <2>1, Taken, SMT DEF Types, QueueTypes, OneWork, WorkAt
    <3>2. CASE ready' = Tail(ready)
      BY <2>2, <3>1, <3>2, Zenon DEF OneWork, WorkAt
    <3>3. ASSUME NEW e \in Tasks, e.kind = "event", ready' = Append(Tail(ready), e)
          PROVE  OneWork'
      <4>1. /\ Len(Tail(ready)) \in Nat /\ Len(ready') = Len(Tail(ready)) + 1
            /\ \A i \in 1..Len(Tail(ready)) : ready'[i] = Tail(ready)[i]
            /\ ready'[Len(Tail(ready)) + 1] = e
        BY <2>3, <3>3, Posted, Zenon
      <4>2. QED BY <2>2, <3>1, <3>3, <4>1, SMT DEF OneWork, WorkAt
    <3>4. QED BY <2>4, <3>2, <3>3, Zenon
  <2>8. MainInv' /\ LoopInv'
    BY <2>1, <2>2, SMT DEF MainInv, LoopInv, Answered, Subscribing
  <2>9. QED BY <2>5, <2>6, <2>7, <2>8
<1>7. CASE OnEvent
  <2>1. ready # <<>> /\ io = "run" /\ Subscribing
    BY <1>1, <1>7, Zenon DEF OnEvent
  <2>2. /\ UNCHANGED <<command, step, outstanding, io, shouldStop, sticky, subscribed, events, owed>>
        /\ ready' = Tail(ready) /\ ran' = TRUE
        /\ main' = IF main = "blocked" THEN "check" ELSE main
    BY <1>7, Zenon DEF OnEvent, Woken, busVars
  <2>3. main # "subscribe"
    BY <2>1, SMT DEF Subscribing, MainInv
  <2>4. Types'
    <3>1. CellType'
      <4>1. \/ cell' = [cell EXCEPT !.error = TRUE]
            \/ \E a \in {"value", "null"} : cell' = [cell EXCEPT !.result = a]
        BY <1>7, Zenon DEF OnEvent
      <4>2. CASE cell' = [cell EXCEPT !.error = TRUE]
        BY <4>2, Zenon DEF Types, CellType
      <4>3. CASE \E a \in {"value", "null"} : cell' = [cell EXCEPT !.result = a]
        BY <4>3, Zenon DEF Types, CellType
      <4>4. QED BY <4>1, <4>2, <4>3
    <3>2. MainTypes'
      BY <2>2, Zenon DEF Types, MainTypes
    <3>3. QueueTypes' /\ LoopTypes' /\ BusTypes' /\ OwedType'
      BY <2>1, <2>2, Taken, Zenon DEF Types, QueueTypes, LoopTypes, BusTypes, OwedType
    <3>4. QED BY <3>1, <3>2, <3>3 DEF Types
  <2>5. TaskInv'
    <3>1. ASSUME NEW u, TaskOK(u) PROVE TaskOK(u)'
      <4>1. ASSUME WorkInv(u) PROVE WorkInv(u)'
        <5>1. Script(command)[u.n] # "result"
          BY <2>1, <4>1, ScriptFacts, SMT DEF WorkInv, Subscribing, Types, MainTypes
        <5>2. QED BY <2>2, <4>1, <5>1, SMT DEF WorkInv
      <4>2. QED BY <2>1, <2>2, <3>1, <4>1, SMT DEF TaskOK, Subscribing
    <3>2. QED
      BY <2>1, <2>2, <3>1, Taken, Zenon DEF Types, QueueTypes, TaskInv
  <2>6. OneWork'
    BY <2>1, <2>2, Taken, SMT DEF Types, QueueTypes, OneWork, WorkAt
  <2>7. MainInv' /\ LoopInv'
    BY <2>1, <2>2, <2>3, SMT DEF MainInv, LoopInv, Subscribing
  <2>8. QED BY <2>4, <2>5, <2>6, <2>7
<1>8. CASE RunRunnable
  <2>1. /\ ready' = Tail(ready) /\ UNCHANGED <<command, main, step, cell, outstanding, io>>
        /\ UNCHANGED <<shouldStop, sticky, subscribed, events>> /\ ran' = TRUE
        /\ owed' \subseteq owed
    BY <1>8, Zenon DEF RunRunnable, mainVars, busVars
  <2>2. ready # <<>> /\ io = "run"
    BY <1>1, <1>8, Zenon DEF RunRunnable
  <2>3. Types'
    BY <2>1, <2>2, Taken, Zenon
    DEF Types, MainTypes, CellType, QueueTypes, LoopTypes, BusTypes, OwedType
  <2>4. TaskInv'
    <3>1. ASSUME NEW u, TaskOK(u) PROVE TaskOK(u)'
      BY <1>2, <2>1, <3>1, Zenon DEF Answered
    <3>2. QED
      BY <2>1, <2>2, <3>1, Taken, Zenon DEF Types, QueueTypes, TaskInv
  <2>5. OneWork'
    BY <2>1, <2>2, Taken, SMT DEF Types, QueueTypes, OneWork, WorkAt
  <2>6. MainInv' /\ LoopInv'
    BY <2>1, <2>2, SMT DEF MainInv, LoopInv, Answered, Subscribing
  <2>7. QED BY <2>3, <2>4, <2>5, <2>6
<1>9. CASE HandlerThrows
  <2>1. UNCHANGED <<command, step, cell, ready, outstanding, io, ran, shouldStop,
                    sticky, subscribed, events, owed>> /\ main' = "aborted"
    BY <1>9, Zenon DEF HandlerThrows, loopVars, busVars
  <2>2. io = "run"
    BY <1>1, <1>9, Zenon DEF HandlerThrows
  <2>3. Types'
    BY <2>1, Zenon
    DEF Types, MainTypes, CellType, QueueTypes, LoopTypes, BusTypes, OwedType
  <2>4. TaskInv'
    <3>1. ASSUME NEW u, TaskOK(u) PROVE TaskOK(u)'
      BY <2>1, <3>1, SMT DEF TaskOK, WorkInv, Subscribing, Answered
    <3>2. QED
      BY <2>1, <3>1, Zenon DEF TaskInv
  <2>5. OneWork'
    BY <2>1, Zenon DEF OneWork, WorkAt
  <2>6. MainInv' /\ LoopInv'
    BY <2>1, <2>2, SMT DEF MainInv, LoopInv, Subscribing
  <2>7. QED BY <2>3, <2>4, <2>5, <2>6
<1>10. CASE RunReturns \/ Loop
  <2>1. UNCHANGED <<command, main, step, cell, ready, outstanding, shouldStop,
                    sticky, subscribed, events, owed>>
    BY <1>10, Zenon DEF RunReturns, Loop, mainVars, busVars
  <2>2. Types'
    <3>1. LoopTypes'
      BY <1>10, Zenon DEF Types, LoopTypes, RunReturns, Loop
    <3>2. QED
      BY <2>1, <3>1, Zenon DEF Types, MainTypes, CellType, QueueTypes, BusTypes, OwedType
  <2>3. TaskInv' /\ OneWork'
    BY <2>1, Zenon
    DEF TaskInv, TaskOK, WorkInv, Subscribing, Answered, OneWork, WorkAt
  <2>4. MainInv'
    BY <2>1, Zenon DEF MainInv, Subscribing, Answered
  <2>5. LoopInv'
    <3>1. CASE RunReturns
      BY <2>1, <3>1, SMT DEF LoopInv, RunReturns, OutOfWork
    <3>2. CASE Loop
      BY <2>1, <3>2, SMT DEF LoopInv, Loop, Leave, Answered
    <3>3. QED BY <1>10, <3>1, <3>2
  <2>6. QED BY <2>2, <2>3, <2>4, <2>5
<1>11. CASE OperationDone
  <2>1. PICK op \in outstanding :
          outstanding' = outstanding \ {op} /\ ready' = Append(ready, op)
    BY <1>11, Zenon DEF OperationDone
  <2>2. UNCHANGED <<command, main, step, cell, io, ran, shouldStop,
                    sticky, subscribed, events, owed>>
    BY <1>11, Zenon DEF OperationDone, mainVars, busVars, loopVars
  <2>3. op \in Tasks /\ op.kind = "work" /\ WorkAt = {} /\ outstanding = {op} /\ io = "run"
    BY <2>1, Zenon DEF Types, QueueTypes, OneWork, LoopInv
  <2>4. Types'
    BY <2>1, <2>2, <2>3, Posted, Zenon
    DEF Types, MainTypes, CellType, QueueTypes, LoopTypes, BusTypes, OwedType
  <2>5. TaskInv'
    <3>1. ASSUME NEW u, TaskOK(u) PROVE TaskOK(u)'
      BY <1>2, <2>2, <3>1, Zenon DEF Answered
    <3>2. TaskOK(op)
      BY <2>1, Zenon DEF TaskInv
    <3>3. QED
      BY <2>1, <2>3, <3>1, <3>2, Posted, SMT DEF Types, QueueTypes, TaskInv
  <2>6. OneWork'
    BY <2>1, <2>3, Posted, SMT DEF Types, QueueTypes, OneWork, WorkAt
  <2>7. MainInv' /\ LoopInv'
    BY <2>1, <2>2, <2>3, SMT DEF MainInv, LoopInv, Answered, Subscribing
  <2>8. QED BY <2>4, <2>5, <2>6, <2>7
<1>12. QED
  BY <1>3, <1>4, <1>5, <1>6, <1>7, <1>8, <1>9, <1>10, <1>11 DEF AsioThread

\* The invariant holds of every run.
LEMMA Invariant == Spec => []IInv
<1>1. IInv /\ [Next]_vars => IInv'
  <2>1. ASSUME IInv, UNCHANGED vars PROVE IInv'
    <3>1. OneWork' /\ LoopTypes' /\ BusTypes' /\ OwedType'
      BY <2>1, Zenon
      DEF vars, IInv, Types, LoopTypes, BusTypes, OwedType, OneWork, WorkAt
    <3>2. MainTypes' /\ CellType' /\ QueueTypes'
      BY <2>1, Zenon DEF vars, IInv, Types, MainTypes, CellType, QueueTypes
    <3>3. Subscribing' = Subscribing /\ Answered' = Answered
      BY <2>1, Zenon DEF vars, Subscribing, Answered
    <3>4. ASSUME NEW u, TaskOK(u) PROVE TaskOK(u)'
      BY <2>1, <3>3, <3>4, Zenon DEF vars, TaskOK, WorkInv
    <3>5. TaskInv'
      BY <2>1, <3>4, Zenon DEF vars, IInv, TaskInv
    <3>6. MainInv' /\ LoopInv'
      BY <2>1, <3>3, Zenon DEF vars, IInv, MainInv, LoopInv
    <3>7. QED BY <3>1, <3>2, <3>5, <3>6 DEF IInv, Types
  <2>2. QED
    BY <2>1, MainStepInv, AsioStepInv, Zenon DEF Next
<1>2. QED BY <1>1, InitInv, PTL DEF Spec

\* Types: in every run every wait is for a Callback that was initialized, and
\* no command makes more calls than its script has (Helper.hpp).
THEOREM TypeOKHolds == Spec => []TypeOK
<1>1. IInv => TypeOK
  <2> SUFFICES ASSUME IInv PROVE TypeOK
    OBVIOUS
  <2>1. \A t \in InFlight : t.kind \in {"work", "subscribe", "event", "runnable"}
    <3>1. InFlight \subseteq Tasks
      BY SMT DEF IInv, Types, QueueTypes, InFlight
    <3>2. QED BY <3>1, Zenon DEF Tasks
  <2>2. QED
    BY <2>1, Zenon
    DEF IInv, Types, MainTypes, CellType, LoopTypes, BusTypes, OwedType, TypeOK
<1>2. QED BY <1>1, Invariant, PTL

\* However the threads interleave, main is never blocked on an answer that has
\* arrived: the notification is given under the mutex main tests the
\* predicate with (Helper.hpp).
THEOREM NoLostWakeupHolds == Spec => []NoLostWakeup
<1>1. IInv => NoLostWakeup
  BY DEF IInv, MainInv, NoLostWakeup
<1>2. QED BY <1>1, Invariant, PTL

\* Whatever wakes main up, two of its library calls are never in flight at
\* once, so an answer always meets the Callback it is for.
THEOREM CallsNeverOverlapHolds == Spec => []CallsNeverOverlap
<1>1. IInv => CallsNeverOverlap
  <2> SUFFICES ASSUME IInv, NEW t \in InFlight, NEW u \in InFlight,
                      t.kind = "work", u.kind = "work"
               PROVE  t = u /\ t.n <= step
    BY DEF CallsNeverOverlap
  <2>1. \A v \in InFlight :
          v \in outstanding \/ \E i \in 1..Len(ready) : v = ready[i]
    BY SMT DEF IInv, Types, QueueTypes, InFlight
  <2>2. t = u
    <3>1. ASSUME t \in outstanding \/ u \in outstanding
          PROVE  t \in outstanding /\ u \in outstanding
      <4>1. WorkAt = {}  BY <3>1, Zenon DEF IInv, OneWork
      <4>2. \A i \in 1..Len(ready) : ready[i].kind # "work"  BY <4>1, Zenon DEF WorkAt
      <4>3. \A v \in InFlight : v.kind = "work" => v \in outstanding  BY <2>1, <4>2, Zenon
      <4>4. QED BY <4>3
    <3>2. CASE t \in outstanding /\ u \in outstanding
      BY <3>2, Zenon DEF IInv, OneWork
    <3>3. CASE t \notin outstanding /\ u \notin outstanding
      <4>1. PICK i \in 1..Len(ready) : t = ready[i]
        BY <2>1, <3>3
      <4>2. PICK j \in 1..Len(ready) : u = ready[j]
        BY <2>1, <3>3
      <4>3. i \in WorkAt /\ j \in WorkAt
        BY <4>1, <4>2, Zenon DEF WorkAt
      <4>4. QED BY <4>1, <4>2, <4>3, Zenon DEF IInv, OneWork
    <3>4. QED BY <3>1, <3>2, <3>3
  <2>3. t.n <= step
    BY <2>1, Zenon DEF IInv, TaskInv, TaskOK, WorkInv
  <2>4. QED BY <2>2, <2>3
<1>2. QED BY <1>1, Invariant, PTL

\* Whenever the asio thread leaves its loop, nothing of a call is left behind:
\* stop() cannot cut one off (AsioExecutionContext.cpp).
THEOREM ExitAbandonsNoCallHolds == Spec => []ExitAbandonsNoCall
<1>1. IInv => ExitAbandonsNoCall
  <2> SUFFICES ASSUME IInv, io = "exited"
               PROVE  outstanding = {} /\ \A t \in InFlight : t.kind = "runnable"
    BY DEF ExitAbandonsNoCall
  <2>1. outstanding = {} /\ \A i \in 1..Len(ready) : ready[i].kind = "runnable"
    BY SMT DEF IInv, LoopInv, MainInv
  <2>2. QED
    BY <2>1, SMT DEF IInv, Types, QueueTypes, InFlight
<1>2. QED BY <1>1, Invariant, PTL
=============================================================================
