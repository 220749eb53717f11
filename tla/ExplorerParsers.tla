-------------------------- MODULE ExplorerParsers --------------------------
(***************************************************************************)
(* How the explorer client reads an answer: rapidjson walks through the    *)
(* document and calls LedgerApiParser for every key, value and bracket;    *)
(* that hands each call to one of four parsers, which find their way by    *)
(* counting brackets and by the last key, never by the document itself:    *)
(*                                                                         *)
(*   page          TransactionsBulkParser, {"truncated": .., "txs": [..]}  *)
(*   transactions  TransactionsParser, an array of transactions            *)
(*   block         BlockParser, the current block                          *)
(*   notification  WebSocketNotificationParser, {"payload": {..}}          *)
(*                                                                         *)
(* The document is made up as it is read.  A value is told apart by the    *)
(* transaction (or the block) it is a part of, so that one that ends up in *)
(* another shows.  The body may end anywhere, a value may be malformed and *)
(* throw, and the answer may have an error status.                         *)
(***************************************************************************)
EXTENDS Naturals, Sequences

CONSTANTS
  Parsers,        \* the parsers that are run
  InnerKeys,      \* the keys inside of a transaction, those of the page among them
  MaxElements,    \* bound: transactions in a document
  MaxDepth        \* bound: nesting of a document

Keys == {"truncated", "txs", "hash", "height", "error", "payload", "type", "transaction", "block"}
NoKey == ""
Kinds == {"string", "number", "bool"}

ASSUME ParsersAssumption == Parsers \subseteq {"page", "transactions", "block", "notification"}
ASSUME KeysAssumption == InnerKeys \subseteq Keys
ASSUME BoundsAssumption == MaxElements \in Nat /\ MaxDepth \in Nat

VARIABLES
  request,  \* what was asked: the parser, whether a block was named, how the server answered
  open,     \* the reader: the values that are open, and the key just read in each
  reading,  \* "reading", "done", "cut" (the body ended) or "threw"
  said,     \* what the document said so far
  api,      \* LedgerApiParser, its parser and what they have put into the result
  answer    \* what the future of the client was completed with

vars == <<request, open, reading, said, api, answer>>

Parser == request.parser
isFailure == request.status = "error"

Init ==
  /\ request \in [parser : Parsers, named : BOOLEAN, status : {"ok", "error", "unreachable"}]
  /\ request.named => Parser = "page"
  /\ open = <<>>
  /\ reading = "reading"
  /\ said = [elements |-> 0, valued |-> {}, next |-> FALSE, txs |-> FALSE, block |-> FALSE]
  /\ api = [depth |-> 0, lastKey |-> NoKey, bulkDepth |-> 0, arrayDepth |-> 0, objectDepth |-> 0,
            currentObject |-> NoKey, transaction |-> 0,
            transactions |-> IF Parser = "notification" THEN <<{}>> ELSE <<>>,
            hasNext |-> FALSE, block |-> {}, error |-> FALSE, wild |-> FALSE]
  /\ answer = "none"

---------------------------------------------------------------------------
(* The document: where the reader is in it.                                *)

Top == open[Len(open)]
Within(key) == Len(open) >= 2 /\ open[1].key = "payload" /\ open[2].key = key

\* Inside the array that holds the transactions; inside one of them.
ArrayOfTransactions == IF Parser = "page" THEN 2 ELSE 1
InTransactions ==
  /\ Parser \in {"page", "transactions"} /\ Len(open) >= ArrayOfTransactions
  /\ Parser = "page" => open[1].key = "txs"
InTransaction == \/ InTransactions /\ Len(open) > ArrayOfTransactions
                 \/ Parser = "notification" /\ Within("transaction") /\ Len(open) >= 3
InBlock == \/ Parser = "block" /\ Len(open) = 1
           \/ Parser = "notification" /\ Within("block") /\ Len(open) >= 3

\* The transaction a value is a part of, 0 if of none.
Owner == IF ~InTransaction THEN 0 ELSE IF Parser = "notification" THEN 1 ELSE said.elements

\* What the server sends: the fields of the API, each of its own shape, with
\* anything inside of a transaction.  Failed answers are any document.
KeysHere ==
  IF isFailure THEN {"error", "txs"}
  ELSE IF InTransaction THEN InnerKeys
  ELSE IF Parser = "page" THEN {"truncated", "txs", "hash"}
  ELSE IF Parser = "notification" /\ Len(open) = 1 THEN {"payload", "type"}
  ELSE IF Parser = "notification" /\ Len(open) = 2 THEN {"type", "transaction", "block"}
  ELSE {"hash", "height", "txs"}
ValueExpected == open # <<>> /\ (Top.array \/ Top.key # NoKey)
MayBegin(array) ==
  /\ Len(open) < MaxDepth
  /\ \/ isFailure \/ InTransaction
     \/ open = <<>> /\ array = (Parser = "transactions")
     \/ InTransactions /\ ~array /\ said.elements < MaxElements
     \/ Parser = "page" /\ Len(open) = 1 /\ array /\ Top.key = "txs" /\ ~said.txs
     \/ Parser = "notification" /\ Len(open) = 1 /\ ~array /\ Top.key = "payload"
     \/ Parser = "notification" /\ Len(open) = 2 /\ ~array /\ Top.key \in {"transaction", "block"}
     \/ InBlock /\ array /\ Top.key = "txs"
MayBeValue ==
  \/ isFailure \/ InTransaction \/ Parser = "block"
  \/ Parser = "page" /\ ~InTransactions /\ Top.key # "txs"
  \/ Parser = "notification" /\ Top.key \notin {"payload", "transaction", "block"}

---------------------------------------------------------------------------
(* Mutated forms of definitions below, one plausible mistake each.         *)
ArrayDepthOne(s) == [s EXCEPT !.arrayDepth = 1]     \* noted, not counted
AtArrayDepth(s) == s.arrayDepth = 1                 \* objectDepth not looked at
ThirdOrDeeper(depth) == depth >= 3

---------------------------------------------------------------------------
(* The parsers, each a function of what they keep.                         *)

\* TransactionParser puts a value into the transaction it was last given.
TransactionValue(s, owner) ==
  IF s.transaction = 0 THEN [s EXCEPT !.wild = TRUE]
  ELSE [s EXCEPT !.transactions[s.transaction] = @ \union {owner}]

\* AbstractBlockParser asks for the last key alone, at any depth.
BlockFields == {<<"hash", "string">>, <<"time", "string">>, <<"height", "number">>}
BlockValue(s, kind, own) ==
  IF <<s.lastKey, kind>> \in BlockFields THEN [s EXCEPT !.block = @ \union {own}] ELSE s

\* AbstractTransactionsParser
NewTransaction(s) == s.arrayDepth = 1 /\ s.objectDepth = 1
TransactionsStartObject(s) ==
  LET o == [s EXCEPT !.objectDepth = @ + 1] IN
    IF NewTransaction(o)
    THEN [o EXCEPT !.transactions = Append(@, {}), !.transaction = Len(o.transactions) + 1]
    ELSE o
TransactionsEndObject(s) == IF s.arrayDepth > 0 THEN [s EXCEPT !.objectDepth = @ - 1] ELSE s
TransactionsStartArray(s) == [s EXCEPT !.arrayDepth = @ + 1]
TransactionsEndArray(s) == [s EXCEPT !.arrayDepth = @ - 1]
TransactionsValue(s, owner) == IF s.arrayDepth > 0 THEN TransactionValue(s, owner) ELSE s

\* AbstractTransactionsBulkParser: the last bracket of "txs" is not handed on.
BulkStartObject(s) == IF s.bulkDepth > 0 THEN TransactionsStartObject(s) ELSE s
BulkEndObject(s) == IF s.bulkDepth > 0 THEN TransactionsEndObject(s) ELSE s
BulkStartArray(s) ==
  IF s.bulkDepth >= 1 \/ s.lastKey = "txs"
  THEN TransactionsStartArray([s EXCEPT !.bulkDepth = @ + 1])
  ELSE s
BulkEndArray(s) ==
  IF s.bulkDepth > 1 THEN TransactionsEndArray([s EXCEPT !.bulkDepth = @ - 1])
  ELSE [s EXCEPT !.bulkDepth = 0]
BulkValue(s, kind, b, owner) ==
  IF s.bulkDepth > 0 THEN TransactionsValue(s, owner)
  ELSE IF kind = "bool" /\ s.lastKey = "truncated" THEN [s EXCEPT !.hasNext = b]
  ELSE s

\* AbstractWebSocketNotificationParser: the third object is the one that
\* counts, and init is called at every object inside of it.
ThatCounts(depth) == depth = 3
NotificationStartObject(s) ==
  LET current == IF ThatCounts(s.objectDepth + 1) THEN s.lastKey ELSE s.currentObject IN
    [s EXCEPT !.objectDepth = @ + 1, !.currentObject = current,
              !.transaction = IF current = "transaction" THEN 1 ELSE @]
NotificationEndObject(s) ==
  [s EXCEPT !.objectDepth = @ - 1, !.currentObject = IF s.objectDepth - 1 = 2 THEN NoKey ELSE @]
NotificationValue(s, kind, owner, own) ==
  CASE s.currentObject = "block" -> BlockValue(s, kind, own)
    [] s.currentObject = "transaction" -> TransactionValue(s, owner)
    [] OTHER -> s

---------------------------------------------------------------------------
(* LedgerApiParser: counts every bracket, and calls the parser unless the  *)
(* status says failure.  What the parser returns is not looked at.         *)

StartObject(s) ==
  LET d == [s EXCEPT !.depth = @ + 1] IN
    IF isFailure THEN d
    ELSE CASE Parser = "page" -> BulkStartObject(d)
           [] Parser = "transactions" -> TransactionsStartObject(d)
           [] Parser = "notification" -> NotificationStartObject(d)
           [] OTHER -> d
EndObject(s) ==
  LET d == [s EXCEPT !.depth = @ - 1] IN
    IF isFailure THEN d
    ELSE CASE Parser = "page" -> BulkEndObject(d)
           [] Parser = "transactions" -> TransactionsEndObject(d)
           [] Parser = "notification" -> NotificationEndObject(d)
           [] OTHER -> d
StartArray(s) ==
  LET d == [s EXCEPT !.depth = @ + 1] IN
    IF isFailure THEN d
    ELSE CASE Parser = "page" -> BulkStartArray(d)
           [] Parser = "transactions" -> TransactionsStartArray(d)
           [] OTHER -> d
EndArray(s) ==
  LET d == [s EXCEPT !.depth = @ - 1] IN
    IF isFailure THEN d
    ELSE CASE Parser = "page" -> BulkEndArray(d)
           [] Parser = "transactions" -> TransactionsEndArray(d)
           [] OTHER -> d

\* The error message is the one of the root.
IsError(s, kind) == s.depth = 1 /\ isFailure /\ s.lastKey = "error" /\ kind = "string"
ScalarValue(s, kind, b) ==
  IF isFailure THEN [s EXCEPT !.error = @ \/ IsError(s, kind)]
  ELSE CASE Parser = "page" -> BulkValue(s, kind, b, Owner)
         [] Parser = "transactions" -> TransactionsValue(s, Owner)
         [] Parser = "block" -> BlockValue(s, kind, InBlock)
         [] OTHER -> NotificationValue(s, kind, Owner, InBlock)

---------------------------------------------------------------------------
(* The reader.                                                             *)

Reading == reading = "reading" /\ request.status # "unreachable"

\* An object is ready for its next key once the value of the last is over.
ValueOver(s) ==
  IF s = <<>> \/ s[Len(s)].array THEN s ELSE [s EXCEPT ![Len(s)].key = NoKey]

Key(key) ==
  /\ Reading /\ open # <<>> /\ ~Top.array /\ Top.key = NoKey /\ key \in KeysHere
  /\ open' = [open EXCEPT ![Len(open)].key = key]
  /\ api' = [api EXCEPT !.lastKey = key]
  /\ UNCHANGED <<request, reading, said, answer>>

Begin(array) ==
  /\ Reading /\ (open = <<>> \/ ValueExpected) /\ MayBegin(array)
  /\ open' = Append(open, [array |-> array, key |-> NoKey])
  /\ api' = IF array THEN StartArray(api) ELSE StartObject(api)
  /\ said' = [said EXCEPT
       !.elements = IF InTransactions /\ ~InTransaction /\ ~isFailure THEN @ + 1 ELSE @,
       !.txs = @ \/ (Parser = "page" /\ Len(open) = 1)]
  /\ UNCHANGED <<request, reading, answer>>

End ==
  /\ Reading /\ open # <<>> /\ (Top.array \/ Top.key = NoKey)
  /\ open' = ValueOver(SubSeq(open, 1, Len(open) - 1))
  /\ api' = IF Top.array THEN EndArray(api) ELSE EndObject(api)
  /\ reading' = IF Len(open) = 1 THEN "done" ELSE "reading"
  /\ UNCHANGED <<request, said, answer>>

\* Whether there is more is a boolean; a string is taken for nothing.
RootTruncated(kind) ==
  Parser = "page" /\ ~isFailure /\ Len(open) = 1 /\ Top.key = "truncated" /\ kind = "bool"

Scalar(kind, b) ==
  /\ Reading /\ ValueExpected /\ MayBeValue
  /\ open' = ValueOver(open)
  /\ api' = ScalarValue(api, kind, b)
  /\ said' = [said EXCEPT
       !.valued = IF Owner = 0 \/ isFailure THEN @ ELSE @ \union {Owner},
       !.next = IF RootTruncated(kind) THEN b ELSE @,
       !.block = @ \/ (InBlock /\ ~isFailure /\ <<Top.key, kind>> \in BlockFields)]
  /\ UNCHANGED <<request, reading, answer>>

\* A number that is none, a date that is none: the parser throws, the
\* exception is kept, and continueParsing stops the reader.
Malformed ==
  /\ Reading /\ ValueExpected /\ ~isFailure /\ (InTransaction \/ InBlock)
  /\ reading' = "threw"
  /\ UNCHANGED <<request, open, said, api, answer>>

\* The body ends before the document does.
CutOff ==
  /\ Reading
  /\ reading' = "cut"
  /\ UNCHANGED <<request, open, said, api, answer>>

---------------------------------------------------------------------------
(* The client: HttpRequest::json and what it is mapped with.  The result   *)
(* of the reader and the exception are not looked at.                      *)

Built ==
  IF isFailure THEN IF Parser = "page" /\ request.named THEN "BLOCK_NOT_FOUND" ELSE "API_ERROR"
  ELSE IF Parser = "transactions" /\ api.transactions = <<>> THEN "TRANSACTION_NOT_FOUND"
  ELSE "result"

\* Only a failure that came with a response is recovered.
Answer ==
  /\ answer = "none"
  /\ request.status = "unreachable" \/ reading # "reading"
  /\ answer' = IF request.status = "unreachable" THEN "failed" ELSE Built
  /\ UNCHANGED <<request, open, reading, said, api>>

Next ==
  \/ \E key \in Keys : Key(key)
  \/ \E array \in BOOLEAN : Begin(array)
  \/ End
  \/ \E kind \in Kinds, b \in BOOLEAN : Scalar(kind, b)
  \/ Malformed \/ CutOff \/ Answer

Spec == Init /\ [][Next]_vars

---------------------------------------------------------------------------
\* Types, and the counters against the brackets that are open: none of them
\* wraps below zero.
TypeOK ==
  /\ request \in [parser : Parsers, named : BOOLEAN, status : {"ok", "error", "unreachable"}]
  /\ open \in Seq([array : BOOLEAN, key : Keys \union {NoKey}])
  /\ reading \in {"reading", "done", "cut", "threw"}
  /\ said \in [elements : Nat, valued : SUBSET Nat, next : BOOLEAN, txs : BOOLEAN, block : BOOLEAN]
  /\ api \in [depth : Nat, lastKey : Keys \union {NoKey}, bulkDepth : Nat, arrayDepth : Nat,
              objectDepth : Nat, currentObject : Keys \union {NoKey}, transaction : Nat,
              transactions : Seq(SUBSET Nat), hasNext : BOOLEAN, block : SUBSET BOOLEAN,
              error : BOOLEAN, wild : BOOLEAN]
  /\ api.depth = Len(open)
  /\ answer \in {"none", "failed", "result", "API_ERROR", "BLOCK_NOT_FOUND", "TRANSACTION_NOT_FOUND"}

\* The transactions of the result are those of the document that have begun,
\* in order, each with its own values only, none lost: a whole page is read
\* whole, and what is accepted of a page cut off or stopped by an exception
\* is its beginning, with hasNext as the page said.
TransactionsRead ==
  /\ Parser \in {"page", "transactions"} => Len(api.transactions) = said.elements
  /\ \A i \in DOMAIN api.transactions :
       api.transactions[i] = IF i \in said.valued THEN {i} ELSE {}
  /\ ~api.wild
  /\ api.hasNext = said.next

\* A block has its own values only, never those of the block inside of a
\* transaction, and all it was sent; and an answer with an error status,
\* whatever its body, leaves nothing in the result and is never a result.
NothingElseRead ==
  /\ api.block = IF said.block THEN {TRUE} ELSE {}
  /\ isFailure => \A i \in DOMAIN api.transactions : api.transactions[i] = {}
  /\ answer = "result" => request.status = "ok" /\ reading # "reading"
  /\ answer \in {"API_ERROR", "BLOCK_NOT_FOUND"} => isFailure
============================================================================
