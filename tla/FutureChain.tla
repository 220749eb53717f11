---------------------------- MODULE FutureChain ----------------------------
(***************************************************************************)
(* The combinators of async/Future.hpp, executeAll and async::wait: a      *)
(* program makes futures out of promises and of other futures, with        *)
(* functions that return, throw or return futures of their own, while      *)
(* others complete the promises.  Each future is the abstract cell of      *)
(* FutureCell, which Deferred implements: completed once, each callback    *)
(* handed that result in its own time, on whatever context.                *)
(*                                                                         *)
(* A result is told apart by who made it: "of" is the promise that was     *)
(* completed with it, or the cell whose function returned or threw it.     *)
(***************************************************************************)
EXTENDS Naturals, Sequences

CONSTANTS
  Programs,   \* sequences of operations, one for each future
  Awaited,    \* the programs that have a thread in async::wait as well
  None        \* no result

NoCell == 0

\* The kinds of operations.  fallback and fallbackWith are recover and
\* recoverWith with functions that do not throw.
OnSuccess   == {"map", "filter", "flatMap", "foreach"}     \* call their function with a value
OnFailure   == {"recover", "recoverWith"}                  \* or with an exception
AsyncKinds  == {"async", "asyncFuture"}
ValueKinds  == {"map", "filter", "recover", "async"}       \* the function returns a value
FutureKinds == {"flatMap", "recoverWith", "asyncFuture"}   \* the function returns a future
SinkKinds   == {"foreach", "callback"}                     \* no future comes of them
Unary == OnSuccess \union OnFailure \union {"failed", "callback"}
Kinds == Unary \union AsyncKinds \union {"promise", "successful", "failure", "executeAll"}

\* src: the future it is called on; fn: what its function does; inner: the
\* future its function returns, which that function makes unless it is there
\* already; list: the futures given to executeAll.
Operations ==
  [kind : Kinds, src : Nat, fn : {"returns", "throws"}, inner : Nat, list : Seq(Nat)]

Op(kind, src, fn, inner, list) ==
  [kind |-> kind, src |-> src, fn |-> fn, inner |-> inner, list |-> list]

\* A future is numbered after those it is made of, a list of them being what
\* executeAll is given.
WellFormed(prog) ==
  \A c \in DOMAIN prog :
    LET Before(d) == d \in 1..(c - 1) IN
      /\ prog[c].kind \in Unary => Before(prog[c].src)
      /\ prog[c].kind \in FutureKinds => Before(prog[c].inner)
      /\ \A i \in DOMAIN prog[c].list : Before(prog[c].list[i])
      /\ prog[c].kind # "executeAll" => prog[c].list = <<>>

ASSUME ProgramsAssumption ==
  /\ Programs \subseteq Seq(Operations)
  /\ \A prog \in Programs : WellFormed(prog)
ASSUME NoneAssumption ==
  \A prog \in Programs : None \notin [ok : BOOLEAN, of : DOMAIN prog]

VARIABLES
  program,    \* what this run of the program does
  built,      \* the futures made so far
  result,     \* [cell -> what it was completed with, or None]
  callbacks,  \* callbacks registered and not run yet
  slots,      \* [executeAll -> [position -> the value stored there, or NoCell]]
  escaped,    \* cells out of whose callback an exception reached the context
  wait        \* where the waiting thread is: its cell, and what it has (res)

vars == <<program, built, result, callbacks, slots, escaped, wait>>

Cells == DOMAIN program
Kind(c) == program[c].kind

Outcome(ok, c) == [ok |-> ok, of |-> c]

\* part: the combinator's own callback, the one a flatMap registers with the
\* future its function returned, or the one executeAll registers with the
\* future at position pos.  on = NoCell: a runnable, due at once.
Callback(on, part, c, pos) == [on |-> on, part |-> part, for |-> c, pos |-> pos]

Init ==
  /\ program \in Programs
  /\ built = {c \in Cells : Kind(c) = "promise"}
  /\ result = [c \in Cells |-> None]
  /\ callbacks = {}
  /\ slots = [c \in Cells |-> [i \in DOMAIN program[c].list |-> NoCell]]
  /\ escaped = {}
  /\ wait = [at |-> IF program \in Awaited THEN "start" ELSE "none", on |-> NoCell, res |-> None]

---------------------------------------------------------------------------
(* Mutated forms of definitions below, one plausible mistake each.         *)
NeverDecided(c) == FALSE                              \* hasValue not tested
AnyFilled(s) == \E i \in DOMAIN s : s[i] # NoCell     \* count >= 1
WokenWithoutNotify == wait.at                         \* notify_all forgotten

\* executeAll counts the positions from 0, and stores them from 1
RegistrationsShifted(c) ==
  IF Kind(c) \in Unary THEN {Callback(program[c].src, "function", c, 0)}
  ELSE IF Kind(c) \in AsyncKinds THEN {Callback(NoCell, "function", c, 0)}
  ELSE {Callback(program[c].list[i], "position", c, i + 1) : i \in DOMAIN program[c].list}

\* recover calls its function with a value, too
CallsFunctionAlways(k) == k.part = "function" /\ Kind(k.for) \in ValueKinds \union FutureKinds

\* flatMap without the onComplete of the future its function returned
ReturnsFutureUnlinked(k) ==
  /\ CallsFunctionAlways(k) /\ Kind(k.for) \in FutureKinds
  /\ callbacks' = callbacks \ {k}
  /\ UNCHANGED <<program, built, result, slots, escaped, wait>>

---------------------------------------------------------------------------
(* Making a future.                                                        *)

Registrations(c) ==
  IF Kind(c) \in Unary THEN {Callback(program[c].src, "function", c, 0)}
  ELSE IF Kind(c) \in AsyncKinds THEN {Callback(NoCell, "function", c, 0)}
  ELSE {Callback(program[c].list[i], "position", c, i) : i \in DOMAIN program[c].list}

\* Future::successful and Future::failure are completed when they are made.
ResultsAfterMaking(c) ==
  IF Kind(c) \in {"successful", "failure"}
  THEN [result EXCEPT ![c] = Outcome(Kind(c) = "successful", c)]
  ELSE result

\* All that c is called on exists; and so does the future that its function
\* returns, or what that is called on if the function makes it, and so on.
Made(c) == (Kind(c) \in Unary => program[c].src \in built)
           /\ \A i \in DOMAIN program[c].list : program[c].list[i] \in built
CanMake(c) ==
  \E new \in SUBSET Cells :
    /\ c \in new
    /\ \A d \in new : Made(d) /\ (Kind(d) \in FutureKinds => program[d].inner \in built \union new)

Make(c) ==
  /\ c \notin built /\ CanMake(c)
  /\ built' = built \union {c}
  /\ callbacks' = callbacks \union Registrations(c)
  /\ result' = ResultsAfterMaking(c)
  /\ UNCHANGED <<program, slots, escaped, wait>>

\* The owner of a promise completes it.
CompletePromise(p, ok) ==
  /\ Kind(p) = "promise" /\ result[p] = None
  /\ result' = [result EXCEPT ![p] = Outcome(ok, p)]
  /\ UNCHANGED <<program, built, callbacks, slots, escaped, wait>>

---------------------------------------------------------------------------
(* Running a callback k, with what it was handed.                          *)

Due(k) == k.on # NoCell => result[k.on] # None
Given(k) == result[k.on]

IsFunction(k) == k.part = "function"
CallsFunction(k) ==
  /\ IsFunction(k)
  /\ \/ Kind(k.for) \in AsyncKinds
     \/ Kind(k.for) \in OnSuccess /\ Given(k).ok
     \/ Kind(k.for) \in OnFailure /\ ~Given(k).ok

Returns(k) == program[k.for].fn = "returns"

\* setResult of the new future; completed already, it throws.
SetResult(c, r) ==
  IF result[c] = None
  THEN result' = [result EXCEPT ![c] = r] /\ UNCHANGED escaped
  ELSE escaped' = escaped \union {c} /\ UNCHANGED result

Done(k) == callbacks' = callbacks \ {k}

\* filter hands the value on, the others what their function returned.
FunctionReturns(k) ==
  /\ CallsFunction(k) /\ Kind(k.for) \in ValueKinds /\ Returns(k)
  /\ SetResult(k.for, IF Kind(k.for) = "filter" THEN Given(k) ELSE Outcome(TRUE, k.for))
  /\ Done(k)
  /\ UNCHANGED <<program, built, slots, wait>>

\* Try::from catches it, whatever it is.
FunctionThrows(k) ==
  /\ CallsFunction(k) /\ Kind(k.for) \in ValueKinds \union FutureKinds /\ ~Returns(k)
  /\ SetResult(k.for, Outcome(FALSE, k.for))
  /\ Done(k)
  /\ UNCHANGED <<program, built, slots, wait>>

FunctionReturnsFuture(k) ==
  /\ CallsFunction(k) /\ Kind(k.for) \in FutureKinds /\ Returns(k)
  /\ LET inner == program[k.for].inner IN
       /\ built' = built \union {inner}
       /\ result' = IF inner \in built THEN result ELSE ResultsAfterMaking(inner)
       /\ callbacks' = (callbacks \ {k}) \union {Callback(inner, "relay", k.for, 0)}
                       \union (IF inner \in built THEN {} ELSE Registrations(inner))
  /\ UNCHANGED <<program, slots, escaped, wait>>

\* A failure passes a map by, a value a recover; and a relay hands on what
\* the inner future was completed with.
PassOn(k) ==
  /\ \/ IsFunction(k) /\ ~CallsFunction(k)
        /\ Kind(k.for) \in (ValueKinds \union FutureKinds)
     \/ k.part = "relay"
  /\ SetResult(k.for, Given(k))
  /\ Done(k)
  /\ UNCHANGED <<program, built, slots, wait>>

\* failed(): the exception as a value, or FUTURE_WAS_SUCCESSFULL.
Project(k) ==
  /\ IsFunction(k) /\ Kind(k.for) = "failed"
  /\ SetResult(k.for, IF Given(k).ok THEN Outcome(FALSE, k.for) ELSE Outcome(TRUE, Given(k).of))
  /\ Done(k)
  /\ UNCHANGED <<program, built, slots, wait>>

\* foreach calls a function that may throw; the callback without an error
\* parameter calls getValue of the Try, which throws on a failure.
ThrowsOut(k) ==
  \/ CallsFunction(k) /\ ~Returns(k)
  \/ Kind(k.for) = "callback" /\ (~Given(k).ok \/ ~Returns(k))
RunSink(k) ==
  /\ IsFunction(k) /\ Kind(k.for) \in SinkKinds
  /\ escaped' = IF ThrowsOut(k) THEN escaped \union {k.for} ELSE escaped
  /\ Done(k)
  /\ UNCHANGED <<program, built, result, slots, wait>>

\* executeAll, under the lock of its container: once it has a result, no more.
Decided(c) == result[c] # None

\* count == result.size(): every position has its value.
Filled(s) == \A i \in DOMAIN s : s[i] # NoCell

StorePosition(k) ==
  /\ k.part = "position"
  /\ LET c == k.for
         stored == [slots[c] EXCEPT ![k.pos] = Given(k).of] IN
       \/ Decided(c) /\ UNCHANGED <<slots, result, escaped>>
       \/ /\ ~Decided(c) /\ Given(k).ok
          /\ slots' = [slots EXCEPT ![c] = stored]
          /\ IF Filled(stored) THEN SetResult(c, Outcome(TRUE, c))
                               ELSE UNCHANGED <<result, escaped>>
       \/ /\ ~Decided(c) /\ ~Given(k).ok
          /\ SetResult(c, Given(k))
          /\ UNCHANGED slots
  /\ Done(k)
  /\ UNCHANGED <<program, built, wait>>

RunCallback ==
  \E k \in callbacks :
    /\ Due(k)
    /\ \/ FunctionReturns(k) \/ FunctionThrows(k) \/ FunctionReturnsFuture(k)
       \/ PassOn(k) \/ Project(k) \/ RunSink(k) \/ StorePosition(k)

---------------------------------------------------------------------------
(* async::wait: no predicate, and no test of the future before it waits.   *)

\* onComplete with the immediate context: a completed future calls back at
\* once, and notify_all finds nobody waiting.
StartWait(c) ==
  /\ wait.at = "start"
  /\ c \in built /\ Kind(c) \notin SinkKinds
  /\ wait' = [at |-> "registered", on |-> c, res |-> result[c]]
  /\ UNCHANGED <<program, built, result, callbacks, slots, escaped>>

Block ==
  /\ wait.at = "registered"
  /\ wait' = [wait EXCEPT !.at = "blocked"]
  /\ UNCHANGED <<program, built, result, callbacks, slots, escaped>>

\* notify_all
Woken == IF wait.at = "blocked" THEN "woken" ELSE wait.at

\* The callback takes no lock: it may also come between a spurious wakeup and
\* the look at res (a torn copy of res is left out).
NotifyWaiter ==
  /\ wait.at \in {"registered", "blocked", "woken"} /\ wait.res = None
  /\ result[wait.on] # None
  /\ wait' = [wait EXCEPT !.res = result[wait.on], !.at = Woken]
  /\ UNCHANGED <<program, built, result, callbacks, slots, escaped>>

SpuriousWakeup ==
  /\ wait.at = "blocked"
  /\ wait' = [wait EXCEPT !.at = "woken"]
  /\ UNCHANGED <<program, built, result, callbacks, slots, escaped>>

\* getFailure of a Try that is still empty throws bad_optional_access.
EndWait ==
  /\ wait.at = "woken"
  /\ wait' = [wait EXCEPT !.at = IF wait.res = None THEN "threw" ELSE "returned"]
  /\ UNCHANGED <<program, built, result, callbacks, slots, escaped>>

Waiter == Block \/ NotifyWaiter \/ EndWait

Next ==
  \/ \E c \in Cells : Make(c) \/ StartWait(c) \/ \E ok \in BOOLEAN : CompletePromise(c, ok)
  \/ RunCallback \/ Waiter \/ SpuriousWakeup

\* The contexts run what they are given, and the waiting thread goes on.
Spec == Init /\ [][Next]_vars /\ WF_vars(RunCallback) /\ WF_vars(Waiter)

---------------------------------------------------------------------------
\* Types: a callback is for one of the program's cells and on a future that
\* has been made, and no future is completed before it is made.
TypeOK ==
  /\ program \in Programs
  /\ built \subseteq Cells
  /\ result \in [Cells -> [ok : BOOLEAN, of : Cells] \union {None}]
  /\ \A c \in Cells : result[c] # None => c \in built
  /\ \A k \in callbacks :
       /\ k.on \in built \union {NoCell} /\ k.for \in built
       /\ k.part \in {"function", "relay", "position"}
       /\ k.part = "position" => k.pos \in DOMAIN program[k.for].list
       /\ k = Callback(k.on, k.part, k.for, k.pos)
  /\ \A c \in Cells : slots[c] \in [DOMAIN program[c].list -> Cells \union {NoCell}]
  /\ DOMAIN slots = Cells
  /\ escaped \subseteq Cells
  /\ wait.at \in {"none", "start", "registered", "blocked", "woken", "returned", "threw"}
  /\ wait.on \in Cells \union {NoCell}

\* What a future should have been completed with, from what the futures it
\* is made of were completed with.
Applies(c) == \/ Kind(c) \in AsyncKinds
              \/ Kind(c) \in OnSuccess /\ result[program[c].src].ok
              \/ Kind(c) \in OnFailure /\ ~result[program[c].src].ok
Denotes(c) ==
  LET op == program[c] IN
    IF ~Applies(c) THEN result[op.src]
    ELSE IF op.fn = "throws" THEN Outcome(FALSE, c)
    ELSE IF op.kind \in FutureKinds THEN result[op.inner]
    ELSE IF op.kind = "filter" THEN result[op.src]
    ELSE Outcome(TRUE, c)

\* Whatever throws, whichever future is late and whoever makes it, a future
\* holds what its functions say of the futures it is made of, those its
\* function returned included (map, flatMap, recover, recoverWith, filter,
\* async, failed).
ChainsMean ==
  \A c \in Cells : result[c] # None =>
    /\ Kind(c) \in ValueKinds \union FutureKinds =>
         /\ Kind(c) \in Unary => result[program[c].src] # None
         /\ result[c] = Denotes(c)
    /\ Kind(c) = "failed" =>
         LET s == result[program[c].src] IN
           s # None /\ result[c] = IF s.ok THEN Outcome(FALSE, c) ELSE Outcome(TRUE, s.of)

\* executeAll succeeds only with the values of all its futures, each at the
\* position of its future, and fails only with the failure of one of them.
AllOrFailure ==
  \A c \in Cells : (Kind(c) = "executeAll" /\ result[c] # None) =>
    LET given(i) == result[program[c].list[i]] IN
      IF result[c].ok
      THEN \A i \in DOMAIN program[c].list :
             given(i) # None /\ given(i).ok /\ slots[c][i] = given(i).of
      ELSE \E i \in DOMAIN program[c].list : result[c] = given(i)

\* A combinator never lets an exception out to the context it runs on, which
\* would end the asio thread: not those of its functions, and not its own
\* ALREADY_COMPLETED, since it never completes its future twice.
OnlySinksEscape == \A c \in escaped : Kind(c) \in SinkKinds

\* A future is not completed if it waits for an executeAll of no futures.
Starved[c \in Cells] ==
  \/ Kind(c) = "executeAll" /\ program[c].list = <<>>
  \/ Kind(c) \in Unary /\ Starved[program[c].src]
  \/ Kind(c) \in FutureKinds /\ Starved[program[c].inner]
  \/ \E i \in DOMAIN program[c].list : Starved[program[c].list[i]]

\* Once the promises are completed every future that was made is, however
\* deep the chain, but those that wait for an executeAll of no futures.
PromisesCompleted == \A p \in Cells : Kind(p) = "promise" => result[p] # None
AllCompleted ==
  \A c \in built : result[c] # None \/ Kind(c) \in SinkKinds \/ Starved[c]
ChainsComplete == PromisesCompleted ~> AllCompleted

\* async::wait hands back what its future is completed with: once it is, the
\* thread that waits for it returns, with a value or an exception
\* ("T wait(Future<T> future)", wait.h:43 and 53-57).
Waiting == wait.at \in {"registered", "blocked", "woken"}
WaitReturns == (Waiting /\ result[wait.on] # None) ~> (wait.at = "returned")

\* It need not: a future that calls back before the thread blocks wakes
\* nobody, and a spurious wakeup throws.  But a thread that is blocked before
\* comes out once the promises are completed, however deep the chain between
\* them and its future, and whichever callbacks run first.
WaitEnds ==
  (PromisesCompleted /\ wait.at = "blocked" /\ wait.res = None /\ ~Starved[wait.on])
    ~> (wait.at \in {"returned", "threw"})
===========================================================================
