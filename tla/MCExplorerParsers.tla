------------------------- MODULE MCExplorerParsers -------------------------
(***************************************************************************)
(* ExplorerParsers for TLC: all four parsers, documents of up to two       *)
(* transactions, nested as deep as an input inside of a transaction inside *)
(* of a page.                                                              *)
(***************************************************************************)
EXTENDS ExplorerParsers
============================================================================
