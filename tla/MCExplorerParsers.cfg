SPECIFICATION Spec
CONSTANTS
  Parsers = {"page", "transactions", "block", "notification"}
  InnerKeys = {"truncated", "txs", "hash", "block"}
  MaxElements = 2
  MaxDepth = 6
INVARIANTS
  TypeOK
  TransactionsRead
  NothingElseRead
CHECK_DEADLOCK FALSE
