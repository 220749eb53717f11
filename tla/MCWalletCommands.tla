-------------------------- MODULE MCWalletCommands --------------------------
(***************************************************************************)
(* WalletCommands for TLC: two processes over one database and two names,  *)
(* with a list that does not hold both, and three versions of the schema,  *)
(* the last newer than the library's.                                      *)
(***************************************************************************)
EXTENDS WalletCommands, TLC

MCNoContent == <<>>
Symmetry == Permutations(Processes) \union Permutations(Names)
=============================================================================
