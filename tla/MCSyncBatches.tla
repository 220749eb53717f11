--------------------------- MODULE MCSyncBatches ---------------------------
(* Chains of up to three blocks with one reorganization of any depth, and  *)
(* three sessions: one before the reorganization, one that recovers or is  *)
(* cut short, and one that must repair what it left.  Three matching       *)
(* blocks are two pages.  One trouble is enough to break what it breaks.   *)
EXTENDS SyncBatches

\* Both addresses receive in every block: every cursor is at the tip.
Everywhere == Blocks \X {1, 2}

\* The first address receives only late in the chain the reorganization
\* brings, the second early in it: their cursors are apart.
Apart ==
  {<<<<2, 1>>, 1>>, <<<<3, 1>>, 1>>, <<<<1, 0>>, 2>>, <<<<3, 0>>, 2>>, <<<<1, 1>>, 2>>}

MCTransactions == [everywhere |-> Everywhere, apart |-> Apart]

Scenario(txs, isETH, size, trouble, forks) ==
  [txs |-> txs, isETH |-> isETH, half |-> size, trouble |-> trouble, forks |-> forks]

MCScenarios ==
  {Scenario("everywhere", FALSE, 1, "error", 0), Scenario("apart", FALSE, 1, "none", 1),
   Scenario("apart", FALSE, 1, "error", 0),
   Scenario("everywhere", TRUE, 1, "deletes", 0)}
  \union {Scenario("everywhere", TRUE, 1, t, 1) : t \in {"error", "mempool", "stores"}}
  \union {Scenario("everywhere", FALSE, 1, t, 0) : t \in {"stores", "deletes", "mempool"}}
  \union {Scenario("everywhere", FALSE, h, "resize", 0) : h \in {1, 2}}

\* For the run that refutes EveryOrphanDeleted: there, no two blocks recovery
\* chooses from have the same height.
MCApart == {Scenario("apart", FALSE, 1, "none", 1)}
=============================================================================
