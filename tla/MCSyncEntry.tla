---------------------------- MODULE MCSyncEntry ----------------------------
(* Two callers over two accounts; three sessions are what it takes for two *)
(* of them to run together.                                                *)
EXTENDS SyncEntry
===========================================================================
