---------------------------- MODULE FutureCell ----------------------------
(***************************************************************************)
(* What a Promise / Future pair promises to the code that uses it: a cell  *)
(* that is completed at most once, and callbacks each of which is handed   *)
(* that one result, and never handed anything before the completion.       *)
(* No lock, no queue, no thread: Deferred.tla is shown to implement this.  *)
(***************************************************************************)
EXTENDS Naturals

CONSTANTS
  Results,        \* the results a promise can be completed with
  MaxCallbacks,   \* bound on the callbacks registered with one future
  None            \* absence of a result

VARIABLES
  result,         \* None, or what the promise was completed with
  registered,     \* the callbacks registered so far, as their count
  delivered       \* [callback -> None, or the result it was handed]

cellVars == <<result, registered, delivered>>

Init ==
  /\ result = None
  /\ registered = 0
  /\ delivered = [c \in 1..MaxCallbacks |-> None]

Complete(r) ==
  /\ result = None
  /\ result' = r
  /\ UNCHANGED <<registered, delivered>>

Register ==
  /\ registered < MaxCallbacks
  /\ registered' = registered + 1
  /\ UNCHANGED <<result, delivered>>

Deliver(c) ==
  /\ result # None
  /\ c <= registered
  /\ delivered[c] = None
  /\ delivered' = [delivered EXCEPT ![c] = result]
  /\ UNCHANGED <<result, registered>>

Next ==
  \/ \E r \in Results : Complete(r)
  \/ Register
  \/ \E c \in 1..MaxCallbacks : Deliver(c)

Spec == Init /\ [][Next]_cellVars
===========================================================================
