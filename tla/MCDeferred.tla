---------------------------- MODULE MCDeferred ----------------------------
(***************************************************************************)
(* Deferred on a small instance: the two threads of the program (main and  *)
(* the asio thread), a success and a failure to complete with, and three   *)
(* callbacks, the fewest with one ahead of, one at and one behind a        *)
(* misbehaving one.                                                        *)
(***************************************************************************)
EXTENDS Deferred

MCKinds == AllKinds
===========================================================================
