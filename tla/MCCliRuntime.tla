--------------------------- MODULE MCCliRuntime ---------------------------
(***************************************************************************)
(* CliRuntime with every command, chains of up to three handlers, one      *)
(* runnable nobody waits for and two synchronization events, enough for a  *)
(* failure to be followed by a success and for either to come before or    *)
(* after the subscription.                                                 *)
(***************************************************************************)
EXTENDS CliRuntime

MCCommands == {"add", "list", "sync", "build", "balance", "currencies"}
===========================================================================
