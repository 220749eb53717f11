---------------------------- MODULE CliRuntime ----------------------------
(***************************************************************************)
(* The process that runs one command: the main thread (main.cpp and the    *)
(* command functions) makes asynchronous calls into the wallet library and *)
(* blocks on a condition variable for each answer (Helper.hpp); one asio   *)
(* thread (AsioExecutionContext) runs every handler of the library and of  *)
(* the HTTP client.  At the end main raises shouldStop and joins it.       *)
(*                                                                         *)
(* A library call is a chain of at most MaxHops handlers on the asio       *)
(* thread, with I/O in between or not, that ends in an answer.             *)
(***************************************************************************)
EXTENDS Naturals, Sequences

CONSTANTS
  Commands,     \* the commands a run may be asked for
  MaxHops,      \* bound on the handlers between a call and its answer
  MaxRunnables, \* bound on runnables posted that no one waits for
  MaxEvents,    \* bound on synchronization events per run
  None

ASSUME CommandsAssumption ==
  Commands \subseteq {"add", "list", "sync", "build", "balance", "currencies"}
ASSUME BoundsAssumption == MaxHops \in Nat /\ MaxRunnables \in Nat /\ MaxEvents \in Nat \ {0}

\* What each command waits for: the answer of a callback (GET_SYNC), or the
\* events of a synchronization (EventReceiver::wait).  "list" is the case of
\* one wallet; the two last commands are accepted and do nothing.
Script(command) ==
  CASE command = "add"    -> <<"result", "result", "result">>
    [] command = "list"   -> <<"result", "result">>
    [] command = "sync"   -> <<"result", "result", "events">>
    [] command = "build"  -> <<"result", "result", "result">>
    [] command = "balance" -> <<>>
    [] command = "currencies" -> <<>>

Waits == {"result", "events"}

\* What a callback is given: a value, a null pointer without an error (an
\* empty shared_ptr or optional), or an error.
Answers == {"value", "null", "error"}

VARIABLES
  command,      \* what parseParameters returned
  main,         \* where the main thread is
  step,         \* the call of the script main is at
  cell,         \* the Callback / EventReceiver main waits at: _result/done and _error
  ready,        \* the io_service's queue of handlers ready to run
  outstanding,  \* asynchronous operations started and not finished
  io,           \* where the asio thread is
  ran,          \* handlers run by the current _io_service.run(), zero or some
  shouldStop,
  sticky,       \* the event the account's bus keeps for late subscribers
  subscribed,   \* main's receiver is among the bus's subscribers
  events,       \* synchronization events published so far
  owed          \* runnables given to execute() / delay() for no one, not yet run

vars == <<command, main, step, cell, ready, outstanding, io, ran, shouldStop,
          sticky, subscribed, events, owed>>
busVars == <<sticky, subscribed, events>>
mainVars == <<command, main, step>>
loopVars == <<io, ran, shouldStop>>

UninitialisedCell == [result |-> None, error |-> FALSE]   \* mutant: no initializer
EmptyCell == [result |-> "none", error |-> FALSE]

\* kind "work" carries on the library call of this step, "subscribe" adds
\* main's receiver to the bus, "event" calls onEvent, "runnable" is a
\* runnable that belongs to no call.
Task(kind, n, hops) == [kind |-> kind, n |-> n, hops |-> hops]

\* Returning from main, or std::terminate, ends both threads.
Alive == main \notin {"aborted", "failed"}

Init ==
  /\ command \in Commands
  /\ main = "call"
  /\ step = 1
  /\ cell = EmptyCell
  /\ ready = <<>>
  /\ outstanding = {}
  /\ io = "run"
  /\ ran = FALSE
  /\ shouldStop = FALSE
  /\ sticky = None
  /\ subscribed = FALSE
  /\ events = 0
  /\ owed = {}

---------------------------------------------------------------------------
(* Mutated forms of definitions below, one plausible mistake each.         *)
WokenWithoutNotify == main                    \* notify_all forgotten
OutOfHandlers == ready = <<>>                 \* poll() instead of run()
LeaveIfRan == ran /\ shouldStop               \* run() != 0

\* _cond.wait(lk) without the predicate: any wakeup ends the wait
WaitReturnsOnWakeup ==
  /\ main = "check"
  /\ main' = IF cell.error THEN "throw" ELSE "call"
  /\ step' = step + 1
  /\ UNCHANGED <<command, cell, ready, outstanding, io, ran, shouldStop,
                 sticky, subscribed, events, owed>>

---------------------------------------------------------------------------
(* The main thread.                                                        *)

Waiting == Script(command)[step]
Done == step > Len(Script(command))

\* GET_SYNC and synchronize(): a fresh Callback, the first handler is posted.
Call ==
  /\ main = "call" /\ ~Done
  /\ cell' = EmptyCell
  /\ ready' = Append(ready, Task("work", step, MaxHops))
  /\ main' = IF Waiting = "events" THEN "subscribe" ELSE "check"
  /\ UNCHANGED <<command, step, outstanding, loopVars, busVars, owed>>

\* The synchronization is already running when main subscribes to its bus.
Subscribe ==
  /\ main = "subscribe"
  /\ ready' = Append(ready, Task("subscribe", step, 0))
  /\ main' = "check"
  /\ UNCHANGED <<command, step, cell, outstanding, loopVars, busVars, owed>>

Answered == cell.error \/ cell.result = "value"

\* The predicate of _cond.wait holds: WaitForResult / wait returns or throws.
WaitReturns ==
  /\ main = "check" /\ Answered
  /\ IF cell.result = "value"
     THEN main' = "call" /\ step' = step + 1
     ELSE main' = "throw" /\ UNCHANGED step
  /\ UNCHANGED <<command, cell, ready, outstanding, loopVars, busVars, owed>>

WaitBlocks ==
  /\ main = "check" /\ ~Answered
  /\ main' = "blocked"
  /\ UNCHANGED <<command, step, cell, ready, outstanding, loopVars, busVars, owed>>

SpuriousWakeup ==
  /\ main = "blocked"
  /\ main' = "check"
  /\ UNCHANGED <<command, step, cell, ready, outstanding, loopVars, busVars, owed>>

\* The command returns at once (--help), or after the first answer: the name
\* is taken already (add), there is no wallet (list), the wallet is not
\* bitcoin-like (build).
ReturnEarly ==
  /\ main = "call"
  /\ \/ step = 1 /\ command \in {"add", "sync", "build"}
     \/ step = 2 /\ command \in {"add", "list", "build"}
  /\ main' = "stop"
  /\ UNCHANGED <<command, step, cell, ready, outstanding, loopVars, busVars, owed>>

\* The pool cannot be opened, an option is missing or malformed, or, later,
\* the address to send to is (build).
Reject ==
  /\ main = "call"
  /\ step = 1 \/ (command = "build" /\ step = 3)
  /\ main' = "throw"
  /\ UNCHANGED <<command, step, cell, ready, outstanding, loopVars, busVars, owed>>

\* On main's thread the library posts a runnable nobody waits for (a log
\* line for LogPrinter's context, say).
Execute ==
  /\ main = "call"
  /\ \E r \in (1..MaxRunnables) \ owed :
       /\ ready' = Append(ready, Task("runnable", r, 0))
       /\ owed' = owed \union {r}
  /\ UNCHANGED <<mainVars, cell, outstanding, loopVars, busVars>>

\* delay() has an empty body.
Delay ==
  /\ main = "call"
  /\ \E r \in (1..MaxRunnables) \ owed : owed' = owed \union {r}
  /\ UNCHANGED <<mainVars, cell, ready, outstanding, loopVars, busVars>>

CommandReturns ==
  /\ main = "call" /\ Done
  /\ main' = "stop"
  /\ UNCHANGED <<command, step, cell, ready, outstanding, loopVars, busVars, owed>>

Stop ==
  /\ main = "stop"
  /\ shouldStop' = TRUE
  /\ main' = "join"
  /\ UNCHANGED <<command, step, cell, ready, outstanding, io, ran, busVars, owed>>

Join ==
  /\ main = "join" /\ io = "exited"
  /\ main' = "exited"
  /\ UNCHANGED <<command, step, cell, ready, outstanding, loopVars, busVars, owed>>

\* Nothing joins the asio thread on this path.  Unwinding main's try block
\* destroys the AsioExecutionContext, and with it a joinable std::thread,
\* which aborts; or some handler still shares it, and main reports failure.
Unwind ==
  /\ main = "throw"
  /\ main' \in {"failed", "aborted"}
  /\ UNCHANGED <<command, step, cell, ready, outstanding, loopVars, busVars, owed>>

---------------------------------------------------------------------------
(* The asio thread.                                                        *)

Handler(kind) == Alive /\ io = "run" /\ ready # <<>> /\ Head(ready).kind = kind

\* notify_all
Woken == IF main = "blocked" THEN "check" ELSE main

\* The call goes on: its next handler is posted now, or when an asynchronous
\* operation finishes.
Continue ==
  /\ Handler("work") /\ Head(ready).hops > 0
  /\ LET next == [Head(ready) EXCEPT !.hops = @ - 1] IN
       \/ ready' = Append(Tail(ready), next) /\ UNCHANGED outstanding
       \/ ready' = Tail(ready) /\ outstanding' = outstanding \union {next}
  /\ ran' = TRUE
  /\ UNCHANGED <<mainVars, cell, io, shouldStop, busVars, owed>>

\* The library calls onCallback.
OnCallback ==
  /\ Handler("work") /\ Script(command)[Head(ready).n] = "result"
  /\ \E a \in Answers :
       cell' = IF a = "error" THEN [cell EXCEPT !.error = TRUE]
                              ELSE [cell EXCEPT !.result = a]
  /\ main' = Woken
  /\ ready' = Tail(ready)
  /\ ran' = TRUE
  /\ UNCHANGED <<command, step, outstanding, io, shouldStop, busVars, owed>>

\* The synchronization's outcome is published as a sticky event, once more
\* while others follow (the account may synchronize again).
Publish ==
  /\ Handler("work") /\ Script(command)[Head(ready).n] = "events"
  /\ events < MaxEvents
  /\ \E outcome \in {"succeed", "failed"} :
       /\ sticky' = outcome
       /\ ready' = Tail(ready) \o
                   (IF subscribed THEN <<Task("event", outcome, 0)>> ELSE <<>>) \o
                   (IF events + 1 < MaxEvents THEN <<Head(ready)>> ELSE <<>>)
  /\ events' = events + 1
  /\ ran' = TRUE
  /\ UNCHANGED <<mainVars, cell, outstanding, io, shouldStop, subscribed, owed>>

\* A new subscriber is handed the sticky event.
RunSubscribe ==
  /\ Handler("subscribe")
  /\ subscribed' = TRUE
  /\ ready' = Tail(ready) \o (IF sticky # None THEN <<Task("event", sticky, 0)>> ELSE <<>>)
  /\ ran' = TRUE
  /\ UNCHANGED <<mainVars, cell, outstanding, io, shouldStop, sticky, events, owed>>

OnEvent ==
  /\ Handler("event")
  /\ cell' = IF Head(ready).n = "failed" THEN [cell EXCEPT !.error = TRUE]
                                         ELSE [cell EXCEPT !.result = "value"]
  /\ main' = Woken
  /\ ready' = Tail(ready)
  /\ ran' = TRUE
  /\ UNCHANGED <<command, step, outstanding, io, shouldStop, busVars, owed>>

RunRunnable ==
  /\ Handler("runnable")
  /\ owed' = owed \ {Head(ready).n}
  /\ ready' = Tail(ready)
  /\ ran' = TRUE
  /\ UNCHANGED <<mainVars, cell, outstanding, io, shouldStop, busVars>>

\* An exception out of a handler is printed and thrown out of the thread.
HandlerThrows ==
  /\ Handler("work")
  /\ main' = "aborted"
  /\ UNCHANGED <<command, step, cell, ready, outstanding, loopVars, busVars, owed>>

\* An asynchronous operation finishes; its completion handler is ready.
OperationDone ==
  \E op \in outstanding :
    /\ Alive
    /\ outstanding' = outstanding \ {op}
    /\ ready' = Append(ready, op)
    /\ UNCHANGED <<mainVars, cell, loopVars, busVars, owed>>

\* run() returns when it is out of handlers and of outstanding operations.
OutOfWork == ready = <<>> /\ outstanding = {}

RunReturns ==
  /\ Alive /\ io = "run" /\ OutOfWork
  /\ io' = "returned"
  /\ UNCHANGED <<mainVars, cell, ready, outstanding, ran, shouldStop, busVars, owed>>

\* (run() == 0) && shouldStop: return, otherwise reset() and run() again.
Leave == ~ran /\ shouldStop

Loop ==
  /\ Alive /\ io = "returned"
  /\ io' = IF Leave THEN "exited" ELSE "run"
  /\ ran' = FALSE
  /\ UNCHANGED <<mainVars, cell, ready, outstanding, shouldStop, busVars, owed>>

---------------------------------------------------------------------------
MainThread ==
  \/ Call \/ Subscribe \/ WaitReturns \/ WaitBlocks \/ ReturnEarly
  \/ Reject \/ CommandReturns \/ Stop \/ Join \/ Unwind

AsioThread ==
  \/ Continue \/ OnCallback \/ Publish \/ RunSubscribe \/ OnEvent
  \/ RunRunnable \/ HandlerThrows \/ RunReturns \/ Loop

Next == MainThread \/ AsioThread \/ Execute \/ Delay \/ SpuriousWakeup \/ OperationDone

\* Both threads are scheduled, and an operation that was started finishes or
\* fails (the operating system's part: the code sets no timeout of its own).
Spec ==
  /\ Init /\ [][Next]_vars
  /\ WF_vars(MainThread) /\ WF_vars(AsioThread) /\ WF_vars(OperationDone)

---------------------------------------------------------------------------
InFlight == {ready[i] : i \in DOMAIN ready} \union outstanding

\* Types: every wait is for a Callback that was initialized, and no command
\* makes more calls than its script has.
TypeOK ==
  /\ command \in Commands
  /\ main \in {"call", "subscribe", "check", "blocked", "stop", "join", "throw",
               "exited", "failed", "aborted"}
  /\ step \in 1..(Len(Script(command)) + 1)
  /\ cell \in [result : {"none", "value", "null"}, error : BOOLEAN]
  /\ \A t \in InFlight : t.kind \in {"work", "subscribe", "event", "runnable"}
  /\ io \in {"run", "returned", "exited"}
  /\ ran \in BOOLEAN /\ shouldStop \in BOOLEAN /\ subscribed \in BOOLEAN
  /\ sticky \in {None, "succeed", "failed"}
  /\ events \in 0..MaxEvents
  /\ owed \subseteq 1..MaxRunnables

\* The asio thread leaves its loop only when the library has nothing left to
\* do: no handler of a call, no event on its way, no operation in the air.  It
\* may leave a runnable that nobody waits for, posted between run() returning
\* and the test of shouldStop.
ExitAbandonsNoCall ==
  io = "exited" => /\ outstanding = {}
                   /\ \A t \in InFlight : t.kind = "runnable"

\* Main does not sleep through its answer: when it is blocked, what it waits
\* for has not arrived.
NoLostWakeup == main = "blocked" => ~Answered

\* Main never has two library calls running at once, whatever wakes it up,
\* so an answer cannot reach the Callback of another call.
CallsNeverOverlap ==
  \A t, u \in InFlight :
    t.kind = "work" /\ u.kind = "work" => t = u /\ t.n <= step

\* Every command comes to an end, the asio thread having seen the flag of
\* stop() and been joined, unless a callback was given a null result and no
\* error: WaitForResult's predicate then never holds, and main waits for ever.
Ended == main \in {"exited", "failed", "aborted"}
HangsOnNull == main \in {"check", "blocked"} /\ cell.result = "null" /\ ~cell.error
CommandEnds == <>(Ended \/ []HangsOnNull)
===========================================================================
