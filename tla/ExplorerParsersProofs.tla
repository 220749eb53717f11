----------------------- MODULE ExplorerParsersProofs -----------------------
(***************************************************************************)
(* The parsers of ExplorerParsers never see the document, only its keys,   *)
(* values and brackets one at a time.  The inductive invariant ReadInv     *)
(* says, for each of the four, what its counters amount to in terms of the *)
(* brackets that are open, arrays and objects counted apart; from that     *)
(* follows where a new transaction is recognised, and that it is exactly   *)
(* where one begins.  The bounds of the model, MaxElements and MaxDepth,   *)
(* play no part: the theorems hold for documents of any length and depth.  *)
(***************************************************************************)
EXTENDS ExplorerParsers, FiniteSets, FiniteSetTheorems, SequenceTheorems, TLAPS

Opened == [array : BOOLEAN, key : Keys \union {NoKey}]
Result == [depth : Nat, lastKey : Keys \union {NoKey}, bulkDepth : Nat, arrayDepth : Nat,
           objectDepth : Nat, currentObject : Keys \union {NoKey}, transaction : Nat,
           transactions : Seq(SUBSET Nat), hasNext : BOOLEAN, block : SUBSET BOOLEAN,
           error : BOOLEAN, wild : BOOLEAN]

Arrays(o) == {i \in DOMAIN o : o[i].array}
ArrayCount(o) == Cardinality(Arrays(o))

\* The arrays that are open are finitely many.
LEMMA ArraysFinite ==
  ASSUME NEW o \in Seq(Opened)
  PROVE  IsFiniteSet(Arrays(o)) /\ ArrayCount(o) \in Nat
<1>1. IsFiniteSet(1 .. Len(o))  BY FS_Interval
<1>2. Arrays(o) \in SUBSET (1 .. Len(o))  BY DEF Arrays
<1>3. IsFiniteSet(Arrays(o))  BY <1>1, <1>2, FS_Subset
<1> QED  BY <1>3, FS_CardinalityType DEF ArrayCount

\* A value that begins counts if it is an array.
LEMMA ArraysPushed ==
  ASSUME NEW o \in Seq(Opened), NEW v \in Opened
  PROVE  ArrayCount(Append(o, v)) = ArrayCount(o) + (IF v.array THEN 1 ELSE 0)
<1> DEFINE p == Append(o, v)
<1>1. /\ p \in Seq(Opened) /\ Len(p) = Len(o) + 1 /\ DOMAIN p = 1 .. Len(o) + 1
      /\ p[Len(o) + 1] = v /\ \A i \in 1 .. Len(o) : p[i] = o[i]
      /\ DOMAIN o = 1 .. Len(o) /\ Len(o) \in Nat
  OBVIOUS
<1>2. Arrays(p) = IF v.array THEN Arrays(o) \union {Len(o) + 1} ELSE Arrays(o)
  <2> HIDE DEF p
  <2> QED  BY <1>1 DEF Arrays
<1>3. Len(o) + 1 \notin Arrays(o)  BY <1>1 DEF Arrays
<1>4. IsFiniteSet(Arrays(o)) /\ ArrayCount(o) \in Nat  BY ArraysFinite
<1>5. Cardinality(Arrays(o) \union {Len(o) + 1}) = Cardinality(Arrays(o)) + 1
  BY <1>3, <1>4, FS_AddElement
<1> HIDE DEF p
<1>6. ArrayCount(p) = ArrayCount(o) + (IF v.array THEN 1 ELSE 0)
  BY <1>2, <1>4, <1>5 DEF ArrayCount
<1> QED  BY <1>6 DEF p

\* The count is one of the brackets alone, not of the keys.
LEMMA ArraysOfBrackets ==
  ASSUME NEW o, NEW p, DOMAIN o = DOMAIN p, \A i \in DOMAIN o : o[i].array = p[i].array
  PROVE  ArrayCount(o) = ArrayCount(p)
<1>1. Arrays(o) = Arrays(p)  BY DEF Arrays
<1> QED  BY <1>1 DEF ArrayCount

\* A value that ends no longer counts.
LEMMA ArraysPopped ==
  ASSUME NEW o \in Seq(Opened), o # <<>>
  PROVE  /\ SubSeq(o, 1, Len(o) - 1) \in Seq(Opened)
         /\ Len(SubSeq(o, 1, Len(o) - 1)) = Len(o) - 1
         /\ \A i \in 1 .. Len(o) - 1 : SubSeq(o, 1, Len(o) - 1)[i] = o[i]
         /\ ArrayCount(o) =
              ArrayCount(SubSeq(o, 1, Len(o) - 1)) + (IF o[Len(o)].array THEN 1 ELSE 0)
<1> DEFINE r == SubSeq(o, 1, Len(o) - 1)
<1>1. /\ Len(o) \in Nat /\ Len(o) >= 1 /\ DOMAIN o = 1 .. Len(o)
      /\ o[Len(o)] \in Opened
  OBVIOUS
<1>2. r \in Seq(Opened) /\ Len(r) = Len(o) - 1 /\ \A i \in 1 .. Len(o) - 1 : r[i] = o[i]
  BY <1>1
<1>3. Append(r, o[Len(o)]) = o
  <2>1. DOMAIN Append(r, o[Len(o)]) = DOMAIN o  BY <1>1, <1>2
  <2>2. \A i \in DOMAIN o : Append(r, o[Len(o)])[i] = o[i]  BY <1>1, <1>2
  <2>3. Len(Append(r, o[Len(o)])) = Len(o) /\ Append(r, o[Len(o)]) \in Seq(Opened)  BY <1>1, <1>2
  <2> HIDE DEF r
  <2> QED  BY <2>1, <2>2, <2>3, <1>1
<1>4. ArrayCount(Append(r, o[Len(o)])) = ArrayCount(r) + (IF o[Len(o)].array THEN 1 ELSE 0)
  <2> HIDE DEF r
  <2> QED  BY <1>1, <1>2, ArraysPushed
<1> HIDE DEF r
<1>5. ArrayCount(o) = ArrayCount(r) + (IF o[Len(o)].array THEN 1 ELSE 0)  BY <1>3, <1>4
<1> QED  BY <1>2, <1>5 DEF r

\* What the brackets that are known to be open say of the count: values that
\* are not arrays do not count, one that is does.
LEMMA ArraysBounded ==
  ASSUME NEW o \in Seq(Opened), NEW m \in Nat, m <= Len(o)
  PROVE  /\ (\A i \in 1 .. m : ~o[i].array) => ArrayCount(o) <= Len(o) - m
         /\ (m >= 1 /\ o[m].array) => ArrayCount(o) >= 1
<1>1. Len(o) \in Nat /\ DOMAIN o = 1 .. Len(o)  OBVIOUS
<1>2. IsFiniteSet(Arrays(o)) /\ ArrayCount(o) \in Nat  BY ArraysFinite
<1>3. ASSUME \A i \in 1 .. m : ~o[i].array
      PROVE  ArrayCount(o) <= Len(o) - m
  <2>1. Arrays(o) \in SUBSET (m + 1 .. Len(o))  BY <1>1, <1>3 DEF Arrays
  <2>2. IsFiniteSet(m + 1 .. Len(o)) /\ Cardinality(m + 1 .. Len(o)) = Len(o) - m
    <3>1. m + 1 \in Int /\ Len(o) \in Int  BY <1>1
    <3>2. /\ IsFiniteSet(m + 1 .. Len(o))
          /\ Cardinality(m + 1 .. Len(o)) = IF m + 1 > Len(o) THEN 0 ELSE Len(o) - (m + 1) + 1
      BY <3>1, FS_Interval
    <3> QED  BY <3>2, <1>1
  <2>3. Cardinality(Arrays(o)) <= Cardinality(m + 1 .. Len(o))  BY <2>1, <2>2, FS_Subset
  <2> QED  BY <2>2, <2>3 DEF ArrayCount
<1>4. ASSUME m >= 1, o[m].array
      PROVE  ArrayCount(o) >= 1
  <2>1. m \in Arrays(o)  BY <1>1, <1>4 DEF Arrays
  <2>2. Cardinality(Arrays(o)) # 0  BY <2>1, <1>2, FS_EmptySet
  <2> QED  BY <2>2, <1>2 DEF ArrayCount
<1> QED  BY <1>3, <1>4

\* Once the value is over, the brackets are the same ones.
LEMMA ValueOverFacts ==
  ASSUME NEW o \in Seq(Opened), \A i \in DOMAIN o : o[i].array => o[i].key = NoKey
  PROVE  /\ ValueOver(o) \in Seq(Opened) /\ Len(ValueOver(o)) = Len(o)
         /\ \A i \in 1 .. Len(o) : ValueOver(o)[i].array = o[i].array
         /\ \A i \in 1 .. Len(o) - 1 : ValueOver(o)[i] = o[i]
         /\ o # <<>> => ValueOver(o)[Len(o)].key = NoKey
         /\ ArrayCount(ValueOver(o)) = ArrayCount(o)
<1>1. Len(o) \in Nat /\ DOMAIN o = 1 .. Len(o) /\ (o # <<>> <=> Len(o) >= 1)  OBVIOUS
<1>2. CASE o = <<>> \/ o[Len(o)].array
  <2>1. ValueOver(o) = o  BY <1>2 DEF ValueOver
  <2> QED  BY <1>1, <1>2, <2>1
<1>3. CASE ~(o = <<>> \/ o[Len(o)].array)
  <2> DEFINE v == [o[Len(o)] EXCEPT !.key = NoKey]
  <2>1. ValueOver(o) = [o EXCEPT ![Len(o)] = v]  BY <1>3 DEF ValueOver
  <2>2. o[Len(o)] \in Opened  BY <1>1, <1>3
  <2>3. v \in Opened /\ v.array = o[Len(o)].array /\ v.key = NoKey  BY <2>2 DEF Opened
  <2> HIDE DEF v
  <2> DEFINE p == [o EXCEPT ![Len(o)] = v]
  <2>4. /\ p \in Seq(Opened) /\ Len(p) = Len(o) /\ DOMAIN p = DOMAIN o
        /\ p[Len(o)] = v /\ \A i \in 1 .. Len(o) - 1 : p[i] = o[i]
    <3>1. o \in [1 .. Len(o) -> Opened]  BY <1>1
    <3>2. Len(o) \in 1 .. Len(o)  BY <1>1, <1>3
    <3>3. p \in [1 .. Len(o) -> Opened]  BY <3>1, <3>2, <2>3
    <3>4. p \in Seq(Opened)  BY <3>3, <1>1, SeqDef
    <3>5. DOMAIN p = 1 .. Len(o) /\ p[Len(o)] = v  BY <3>1, <3>2
    <3>6. \A i \in 1 .. Len(o) - 1 : p[i] = o[i]
      <4>1. \A n \in Nat : \A i \in 1 .. n - 1 : i \in 1 .. n /\ i # n  OBVIOUS
      <4> QED  BY <3>1, <4>1, <1>1
    <3> HIDE DEF p
    <3>7. Len(p) = Len(o)  BY <3>4, <3>5, <1>1
    <3> QED  BY <3>4, <3>5, <3>6, <3>7, <1>1
  <2> HIDE DEF p
  <2>5. \A i \in DOMAIN o : p[i].array = o[i].array  BY <1>1, <2>3, <2>4
  <2>6. ArrayCount(p) = ArrayCount(o)  BY <2>4, <2>5, ArraysOfBrackets
  <2>7. ValueOver(o) = p  BY <2>1 DEF p
  <2> QED  BY <1>1, <2>3, <2>4, <2>5, <2>6, <2>7
<1> QED  BY <1>2, <1>3

---------------------------------------------------------------------------
(* What each call does to what the parser keeps.                           *)

Fields == {"depth", "lastKey", "bulkDepth", "arrayDepth", "objectDepth", "currentObject",
           "transaction", "transactions", "hasNext", "block", "error", "wild"}

\* Nothing but these fields is changed.
Only(changed, s, t) == t \in Result /\ \A f \in Fields \ changed : t[f] = s[f]

\* One counter changes, and no other field.
LEMMA CounterSteps ==
  ASSUME NEW s \in Result, NEW n \in Nat
  PROVE  /\ Only({"depth"}, s, [s EXCEPT !.depth = n]) /\ [s EXCEPT !.depth = n].depth = n
         /\ Only({"bulkDepth"}, s, [s EXCEPT !.bulkDepth = n])
         /\ [s EXCEPT !.bulkDepth = n].bulkDepth = n
         /\ Only({"arrayDepth"}, s, [s EXCEPT !.arrayDepth = n])
         /\ [s EXCEPT !.arrayDepth = n].arrayDepth = n
         /\ Only({"objectDepth"}, s, [s EXCEPT !.objectDepth = n])
         /\ [s EXCEPT !.objectDepth = n].objectDepth = n
         /\ Only({"transaction"}, s, [s EXCEPT !.transaction = n])
         /\ [s EXCEPT !.transaction = n].transaction = n
<1>0. DOMAIN s = Fields  BY Zenon DEF Result, Fields
<1>1. /\ [s EXCEPT !.depth = n] \in Result /\ [s EXCEPT !.bulkDepth = n] \in Result
      /\ [s EXCEPT !.arrayDepth = n] \in Result /\ [s EXCEPT !.objectDepth = n] \in Result
      /\ [s EXCEPT !.transaction = n] \in Result
  BY Zenon DEF Result
<1>2. ASSUME NEW c \in Fields
      PROVE  [s EXCEPT ![c] = n][c] = n /\ \A f \in Fields \ {c} : [s EXCEPT ![c] = n][f] = s[f]
  BY <1>0, Zenon
<1>3. {"depth", "bulkDepth", "arrayDepth", "objectDepth", "transaction"} \subseteq Fields
  BY DEF Fields
<1> QED  BY <1>1, <1>2, <1>3, Zenon DEF Only

\* One of the other fields changes.
LEMMA FieldSteps ==
  ASSUME NEW s \in Result
  PROVE  /\ \A k \in Keys \union {NoKey} :
              /\ Only({"lastKey"}, s, [s EXCEPT !.lastKey = k])
              /\ [s EXCEPT !.lastKey = k].lastKey = k
              /\ Only({"currentObject"}, s, [s EXCEPT !.currentObject = k])
              /\ [s EXCEPT !.currentObject = k].currentObject = k
         /\ \A ts \in Seq(SUBSET Nat) :
              /\ Only({"transactions"}, s, [s EXCEPT !.transactions = ts])
              /\ [s EXCEPT !.transactions = ts].transactions = ts
         /\ \A b \in BOOLEAN :
              /\ Only({"hasNext"}, s, [s EXCEPT !.hasNext = b])
              /\ [s EXCEPT !.hasNext = b].hasNext = b
              /\ Only({"error"}, s, [s EXCEPT !.error = b])
         /\ \A b \in SUBSET BOOLEAN :
              /\ Only({"block"}, s, [s EXCEPT !.block = b])
              /\ [s EXCEPT !.block = b].block = b
<1>0. DOMAIN s = Fields  BY Zenon DEF Result, Fields
<1>1. \A k \in Keys \union {NoKey} :
        [s EXCEPT !.lastKey = k] \in Result /\ [s EXCEPT !.currentObject = k] \in Result
  BY Zenon DEF Result
<1>2. \A ts \in Seq(SUBSET Nat) : [s EXCEPT !.transactions = ts] \in Result
  BY Zenon DEF Result
<1>3. \A b \in BOOLEAN : [s EXCEPT !.hasNext = b] \in Result /\ [s EXCEPT !.error = b] \in Result
  BY Zenon DEF Result
<1>4. \A b \in SUBSET BOOLEAN : [s EXCEPT !.block = b] \in Result
  BY Zenon DEF Result
<1>5. ASSUME NEW c \in Fields, NEW v, [s EXCEPT ![c] = v] \in Result
      PROVE  Only({c}, s, [s EXCEPT ![c] = v]) /\ [s EXCEPT ![c] = v][c] = v
  BY <1>0, <1>5, Zenon DEF Only
<1>6. {"lastKey", "currentObject", "transactions", "hasNext", "block", "error"} \subseteq Fields
  BY DEF Fields
<1>7. ASSUME NEW k \in Keys \union {NoKey}
      PROVE  /\ Only({"lastKey"}, s, [s EXCEPT !.lastKey = k])
             /\ [s EXCEPT !.lastKey = k].lastKey = k
             /\ Only({"currentObject"}, s, [s EXCEPT !.currentObject = k])
             /\ [s EXCEPT !.currentObject = k].currentObject = k
  BY <1>1, <1>5, <1>6, Zenon
<1>8. ASSUME NEW ts \in Seq(SUBSET Nat)
      PROVE  /\ Only({"transactions"}, s, [s EXCEPT !.transactions = ts])
             /\ [s EXCEPT !.transactions = ts].transactions = ts
  BY <1>2, <1>5, <1>6, Zenon
<1>9. ASSUME NEW b \in BOOLEAN
      PROVE  /\ Only({"hasNext"}, s, [s EXCEPT !.hasNext = b])
             /\ [s EXCEPT !.hasNext = b].hasNext = b
             /\ Only({"error"}, s, [s EXCEPT !.error = b])
  BY <1>3, <1>5, <1>6, Zenon
<1>10. ASSUME NEW b \in SUBSET BOOLEAN
       PROVE  /\ Only({"block"}, s, [s EXCEPT !.block = b])
              /\ [s EXCEPT !.block = b].block = b
  BY <1>4, <1>5, <1>6, Zenon
<1> QED  BY <1>7, <1>8, <1>9, <1>10

\* Changes add up.
LEMMA OnlyTwice ==
  ASSUME NEW s, NEW t, NEW u, NEW F, NEW G, Only(F, s, t), Only(G, t, u)
  PROVE  Only(F \union G, s, u)
BY DEF Only

\* The fields, one by one.
LEMMA OnlyFields ==
  ASSUME NEW s, NEW t, NEW F, Only(F, s, t)
  PROVE  /\ "depth" \notin F => t.depth = s.depth
         /\ "lastKey" \notin F => t.lastKey = s.lastKey
         /\ "bulkDepth" \notin F => t.bulkDepth = s.bulkDepth
         /\ "arrayDepth" \notin F => t.arrayDepth = s.arrayDepth
         /\ "objectDepth" \notin F => t.objectDepth = s.objectDepth
         /\ "currentObject" \notin F => t.currentObject = s.currentObject
         /\ "transaction" \notin F => t.transaction = s.transaction
         /\ "transactions" \notin F => t.transactions = s.transactions
         /\ "hasNext" \notin F => t.hasNext = s.hasNext
         /\ "block" \notin F => t.block = s.block
         /\ "wild" \notin F => t.wild = s.wild
BY Zenon DEF Only, Fields

\* The types of the fields.
LEMMA ResultTypes ==
  ASSUME NEW s \in Result
  PROVE  /\ s.depth \in Nat /\ s.lastKey \in Keys \union {NoKey} /\ s.bulkDepth \in Nat
         /\ s.arrayDepth \in Nat /\ s.objectDepth \in Nat /\ s.currentObject \in Keys \union {NoKey}
         /\ s.transaction \in Nat /\ s.transactions \in Seq(SUBSET Nat) /\ s.hasNext \in BOOLEAN
         /\ s.block \in SUBSET BOOLEAN /\ s.error \in BOOLEAN /\ s.wild \in BOOLEAN
BY DEF Result

\* TransactionsParser: an object that begins directly inside of the array of
\* transactions, and no other, is a transaction.
LEMMA TransactionsObjectStep ==
  ASSUME NEW s \in Result
  PROVE  LET t == TransactionsStartObject(s) IN
           /\ t.objectDepth = s.objectDepth + 1
           /\ s.arrayDepth = 1 /\ s.objectDepth = 0 =>
                /\ Only({"objectDepth", "transactions", "transaction"}, s, t)
                /\ t.transactions = Append(s.transactions, {})
                /\ t.transaction = Len(s.transactions) + 1
           /\ ~(s.arrayDepth = 1 /\ s.objectDepth = 0) => Only({"objectDepth"}, s, t)
<1> DEFINE o == [s EXCEPT !.objectDepth = s.objectDepth + 1]
           u == [o EXCEPT !.transactions = Append(o.transactions, {})]
           v == [u EXCEPT !.transaction = Len(s.transactions) + 1]
<1>0. s.objectDepth \in Nat /\ s.arrayDepth \in Nat /\ s.transactions \in Seq(SUBSET Nat)
  BY ResultTypes
<1>1. Only({"objectDepth"}, s, o) /\ o.objectDepth = s.objectDepth + 1
  <2>1. s.objectDepth + 1 \in Nat  BY <1>0
  <2> QED  BY <2>1, CounterSteps
<1>2. o \in Result /\ o.arrayDepth = s.arrayDepth /\ o.transactions = s.transactions
  <2> HIDE DEF o
  <2> QED  BY <1>1, OnlyFields DEF Only
<1>3. Append(s.transactions, {}) \in Seq(SUBSET Nat) /\ Len(s.transactions) + 1 \in Nat
  BY <1>0
<1> HIDE DEF o
<1>4. Only({"transactions"}, o, u) /\ u.transactions = Append(s.transactions, {})
  <2>1. Append(o.transactions, {}) \in Seq(SUBSET Nat)  BY <1>2, <1>3
  <2>2. /\ Only({"transactions"}, o, u)
        /\ u.transactions = Append(o.transactions, {})
    BY <1>2, <2>1, FieldSteps, Zenon
  <2> QED  BY <1>2, <2>2
<1>5. u \in Result /\ u.objectDepth = s.objectDepth + 1
  <2> HIDE DEF u
  <2> QED  BY <1>1, <1>4, OnlyFields DEF Only
<1> HIDE DEF u
<1>6. Only({"transaction"}, u, v) /\ v.transaction = Len(s.transactions) + 1
  BY <1>3, <1>5, CounterSteps
<1> HIDE DEF v
<1>7. v.objectDepth = s.objectDepth + 1 /\ v.transactions = Append(s.transactions, {})
  BY <1>4, <1>5, <1>6, OnlyFields
<1>8. Only({"objectDepth"} \union {"transactions"} \union {"transaction"}, s, v)
  BY <1>1, <1>4, <1>6, OnlyTwice
<1>9. {"objectDepth"} \union {"transactions"} \union {"transaction"}
        = {"objectDepth", "transactions", "transaction"}
  OBVIOUS
<1>10. Only({"objectDepth", "transactions", "transaction"}, s, v)  BY <1>8, <1>9
<1>11. s.arrayDepth = 1 /\ s.objectDepth = 0 <=> NewTransaction(o)
  BY <1>0, <1>1, <1>2, SMT DEF NewTransaction
<1>12. TransactionsStartObject(s) = IF NewTransaction(o) THEN v ELSE o
  <2>1. TransactionsStartObject(s) =
          IF NewTransaction(o)
          THEN [o EXCEPT !.transactions = Append(o.transactions, {}),
                         !.transaction = Len(o.transactions) + 1]
          ELSE o
    BY Zenon DEF TransactionsStartObject, o
  <2>2. DOMAIN o = Fields  BY <1>2, Zenon DEF Result, Fields
  <2>3. [o EXCEPT !.transactions = Append(o.transactions, {}),
                  !.transaction = Len(o.transactions) + 1] = v
    BY <1>2, <2>2, Zenon DEF u, v
  <2> QED  BY <2>1, <2>3
<1>13. CASE s.arrayDepth = 1 /\ s.objectDepth = 0
  <2>1. TransactionsStartObject(s) = v  BY <1>11, <1>12, <1>13, Zenon
  <2> QED  BY <1>6, <1>7, <1>10, <1>13, <2>1
<1>14. CASE ~(s.arrayDepth = 1 /\ s.objectDepth = 0)
  <2>1. TransactionsStartObject(s) = o  BY <1>11, <1>12, <1>14, Zenon
  <2> QED  BY <1>1, <1>14, <2>1
<1> QED  BY <1>13, <1>14

\* NotificationParser: the third object sets what the values that follow are
\* of, and every object inside of a transaction goes back to the first.
LEMMA NotificationObjectStep ==
  ASSUME NEW s \in Result
  PROVE  LET t == NotificationStartObject(s)
             current == IF s.objectDepth = 2 THEN s.lastKey ELSE s.currentObject
         IN  /\ Only({"objectDepth", "currentObject", "transaction"}, s, t)
             /\ t.objectDepth = s.objectDepth + 1
             /\ t.currentObject = current
             /\ t.transaction = IF current = "transaction" THEN 1 ELSE s.transaction
<1> DEFINE current == IF s.objectDepth = 2 THEN s.lastKey ELSE s.currentObject
           given == IF current = "transaction" THEN 1 ELSE s.transaction
           o == [s EXCEPT !.objectDepth = s.objectDepth + 1]
           u == [o EXCEPT !.currentObject = current]
           v == [u EXCEPT !.transaction = given]
<1>0. /\ s.objectDepth \in Nat /\ s.objectDepth + 1 \in Nat
      /\ current \in Keys \union {NoKey} /\ given \in Nat
  BY ResultTypes
<1>1. NotificationStartObject(s) = v
  <2>1. ThatCounts(s.objectDepth + 1) <=> s.objectDepth = 2  BY <1>0, SMT DEF ThatCounts
  <2>2. NotificationStartObject(s) =
          [s EXCEPT !.objectDepth = s.objectDepth + 1, !.currentObject = current,
                    !.transaction = given]
    BY <2>1, Zenon DEF NotificationStartObject
  <2>3. DOMAIN s = Fields  BY Zenon DEF Result, Fields
  <2> HIDE DEF current, given
  <2>4. [s EXCEPT !.objectDepth = s.objectDepth + 1, !.currentObject = current,
                  !.transaction = given] = v
    BY <2>3, Zenon DEF o, u, v
  <2> QED  BY <2>2, <2>4
<1> HIDE DEF current, given
<1>2. Only({"objectDepth"}, s, o) /\ o.objectDepth = s.objectDepth + 1
  BY <1>0, CounterSteps
<1> HIDE DEF o
<1>3. o \in Result  BY <1>2 DEF Only
<1>4. Only({"currentObject"}, o, u) /\ u.currentObject = current  BY <1>0, <1>3, FieldSteps
<1> HIDE DEF u
<1>5. u \in Result /\ u.objectDepth = s.objectDepth + 1  BY <1>2, <1>4, OnlyFields DEF Only
<1>6. Only({"transaction"}, u, v) /\ v.transaction = given  BY <1>0, <1>5, CounterSteps
<1> HIDE DEF v
<1>7. v.objectDepth = s.objectDepth + 1 /\ v.currentObject = current
  BY <1>4, <1>5, <1>6, OnlyFields
<1>8. Only({"objectDepth"} \union {"currentObject"} \union {"transaction"}, s, v)
  BY <1>2, <1>4, <1>6, OnlyTwice
<1>9. {"objectDepth"} \union {"currentObject"} \union {"transaction"}
        = {"objectDepth", "currentObject", "transaction"}
  OBVIOUS
<1>10. Only({"objectDepth", "currentObject", "transaction"}, s, v)  BY <1>8, <1>9
<1> QED  BY <1>1, <1>6, <1>7, <1>10 DEF current, given

\* ... and the end of the third one sets it back.
LEMMA NotificationEndStep ==
  ASSUME NEW s \in Result, s.objectDepth >= 1
  PROVE  LET t == NotificationEndObject(s)
         IN  /\ Only({"objectDepth", "currentObject"}, s, t)
             /\ t.objectDepth = s.objectDepth - 1
             /\ t.currentObject = IF s.objectDepth = 3 THEN NoKey ELSE s.currentObject
<1> DEFINE current == IF s.objectDepth = 3 THEN NoKey ELSE s.currentObject
           o == [s EXCEPT !.objectDepth = s.objectDepth - 1]
           u == [o EXCEPT !.currentObject = current]
<1>0. /\ s.objectDepth \in Nat /\ s.objectDepth - 1 \in Nat
      /\ current \in Keys \union {NoKey}
  BY ResultTypes
<1>1. NotificationEndObject(s) = u
  <2>1. s.objectDepth - 1 = 2 <=> s.objectDepth = 3  BY <1>0
  <2>2. NotificationEndObject(s) =
          [s EXCEPT !.objectDepth = s.objectDepth - 1, !.currentObject = current]
    BY <2>1, Zenon DEF NotificationEndObject
  <2>3. DOMAIN s = Fields  BY Zenon DEF Result, Fields
  <2> HIDE DEF current
  <2>4. [s EXCEPT !.objectDepth = s.objectDepth - 1, !.currentObject = current] = u
    BY <2>3, Zenon DEF o, u
  <2> QED  BY <2>2, <2>4
<1> HIDE DEF current
<1>2. Only({"objectDepth"}, s, o) /\ o.objectDepth = s.objectDepth - 1
  BY <1>0, CounterSteps
<1> HIDE DEF o
<1>3. o \in Result  BY <1>2 DEF Only
<1>4. Only({"currentObject"}, o, u) /\ u.currentObject = current  BY <1>0, <1>3, FieldSteps
<1> HIDE DEF u
<1>5. u.objectDepth = s.objectDepth - 1  BY <1>2, <1>4, OnlyFields
<1>6. Only({"objectDepth"} \union {"currentObject"}, s, u)  BY <1>2, <1>4, OnlyTwice
<1>7. {"objectDepth"} \union {"currentObject"} = {"objectDepth", "currentObject"}  OBVIOUS
<1>8. Only({"objectDepth", "currentObject"}, s, u)  BY <1>6, <1>7
<1> QED  BY <1>1, <1>4, <1>5, <1>8 DEF current

\* A bracket of an array, seen by both counters of the page.
LEMMA BulkArrayStep ==
  ASSUME NEW s \in Result, NEW b \in Nat, NEW a \in Nat
  PROVE  LET t == [[s EXCEPT !.bulkDepth = b] EXCEPT !.arrayDepth = a] IN
           /\ Only({"bulkDepth", "arrayDepth"}, s, t)
           /\ t.bulkDepth = b /\ t.arrayDepth = a
           /\ [s EXCEPT !.bulkDepth = b].arrayDepth = s.arrayDepth
<1> DEFINE o == [s EXCEPT !.bulkDepth = b]
           u == [o EXCEPT !.arrayDepth = a]
<1>1. Only({"bulkDepth"}, s, o) /\ o.bulkDepth = b  BY CounterSteps
<1> HIDE DEF o
<1>2. o \in Result /\ o.arrayDepth = s.arrayDepth  BY <1>1, OnlyFields DEF Only
<1>3. Only({"arrayDepth"}, o, u) /\ u.arrayDepth = a  BY <1>2, CounterSteps
<1> HIDE DEF u
<1>4. u.bulkDepth = b  BY <1>1, <1>3, OnlyFields
<1>5. Only({"bulkDepth"} \union {"arrayDepth"}, s, u)  BY <1>1, <1>3, OnlyTwice
<1>6. {"bulkDepth"} \union {"arrayDepth"} = {"bulkDepth", "arrayDepth"}  OBVIOUS
<1>7. Only({"bulkDepth", "arrayDepth"}, s, u)  BY <1>5, <1>6
<1> QED  BY <1>2, <1>3, <1>4, <1>7 DEF o, u

---------------------------------------------------------------------------
(* What LedgerApiParser makes of a bracket, for each parser.               *)

\* A new transaction is put at the end of the result, and is the current one.
Began(s, t) ==
  /\ t.transactions = Append(s.transactions, {})
  /\ t.transaction = Len(s.transactions) + 1
Page == ~isFailure /\ Parser = "page"
Transactions == ~isFailure /\ Parser = "transactions"
Block == ~isFailure /\ Parser = "block"
Notification == ~isFailure /\ Parser = "notification"

\* The level is counted first.
LEMMA LevelStep ==
  ASSUME NEW s \in Result, NEW n \in Nat
  PROVE  LET d == [s EXCEPT !.depth = n] IN
           /\ Only({"depth"}, s, d) /\ d \in Result /\ d.depth = n /\ d.lastKey = s.lastKey
           /\ d.bulkDepth = s.bulkDepth /\ d.arrayDepth = s.arrayDepth
           /\ d.objectDepth = s.objectDepth /\ d.currentObject = s.currentObject
           /\ d.transaction = s.transaction /\ d.transactions = s.transactions
<1> DEFINE d == [s EXCEPT !.depth = n]
<1>1. Only({"depth"}, s, d) /\ d.depth = n  BY CounterSteps
<1> HIDE DEF d
<1>2. d \in Result  BY <1>1 DEF Only
<1> QED  BY <1>1, <1>2, OnlyFields DEF d

\* The beginning of an object.
LEMMA StartObjectStep ==
  ASSUME NEW s \in Result
  PROVE  LET t == StartObject(s) IN
           /\ t.depth = s.depth + 1
           /\ isFailure \/ Block => Only({"depth"}, s, t)
           /\ Page /\ s.bulkDepth = 0 => Only({"depth"}, s, t)
           /\ Transactions \/ (Page /\ s.bulkDepth > 0) =>
                /\ t.objectDepth = s.objectDepth + 1
                /\ s.arrayDepth = 1 /\ s.objectDepth = 0 =>
                     /\ Only({"depth", "objectDepth", "transactions", "transaction"}, s, t)
                     /\ Began(s, t)
                /\ ~(s.arrayDepth = 1 /\ s.objectDepth = 0) => Only({"depth", "objectDepth"}, s, t)
           /\ Notification =>
                LET current == IF s.objectDepth = 2 THEN s.lastKey ELSE s.currentObject IN
                  /\ Only({"depth", "objectDepth", "currentObject", "transaction"}, s, t)
                  /\ t.objectDepth = s.objectDepth + 1
                  /\ t.currentObject = current
                  /\ t.transaction = IF current = "transaction" THEN 1 ELSE s.transaction
<1> DEFINE d == [s EXCEPT !.depth = s.depth + 1]
           t == StartObject(s)
<1>0. s.depth \in Nat /\ s.depth + 1 \in Nat /\ s.bulkDepth \in Nat  BY ResultTypes
<1>1. /\ Only({"depth"}, s, d) /\ d \in Result /\ d.depth = s.depth + 1 /\ d.lastKey = s.lastKey
      /\ d.bulkDepth = s.bulkDepth /\ d.arrayDepth = s.arrayDepth
      /\ d.objectDepth = s.objectDepth /\ d.currentObject = s.currentObject
      /\ d.transaction = s.transaction /\ d.transactions = s.transactions
  BY <1>0, LevelStep
<1>2. t = IF isFailure THEN d
          ELSE CASE Parser = "page" -> BulkStartObject(d)
                 [] Parser = "transactions" -> TransactionsStartObject(d)
                 [] Parser = "notification" -> NotificationStartObject(d)
                 [] OTHER -> d
  BY Zenon DEF StartObject
<1> HIDE DEF d, t
<1>3. ASSUME isFailure \/ Block \/ (Page /\ s.bulkDepth = 0)
      PROVE  t = d
  BY <1>0, <1>1, <1>2, <1>3, SMT DEF Block, Page, BulkStartObject
<1>4. ASSUME Transactions \/ (Page /\ s.bulkDepth > 0)
      PROVE  t = TransactionsStartObject(d)
  BY <1>0, <1>1, <1>2, <1>4, SMT DEF Transactions, Page, BulkStartObject
<1>5. ASSUME Transactions \/ (Page /\ s.bulkDepth > 0)
      PROVE  /\ t.depth = s.depth + 1 /\ t.objectDepth = s.objectDepth + 1
             /\ s.arrayDepth = 1 /\ s.objectDepth = 0 =>
                  /\ Only({"depth", "objectDepth", "transactions", "transaction"}, s, t)
                  /\ Began(s, t)
             /\ ~(s.arrayDepth = 1 /\ s.objectDepth = 0) => Only({"depth", "objectDepth"}, s, t)
  <2>1. /\ t.objectDepth = d.objectDepth + 1
        /\ d.arrayDepth = 1 /\ d.objectDepth = 0 =>
             /\ Only({"objectDepth", "transactions", "transaction"}, d, t)
             /\ t.transactions = Append(d.transactions, {})
             /\ t.transaction = Len(d.transactions) + 1
        /\ ~(d.arrayDepth = 1 /\ d.objectDepth = 0) => Only({"objectDepth"}, d, t)
    BY <1>1, <1>4, <1>5, TransactionsObjectStep
  <2>2. CASE s.arrayDepth = 1 /\ s.objectDepth = 0
    <3>1. Only({"objectDepth", "transactions", "transaction"}, d, t)  BY <1>1, <2>1, <2>2
    <3>2. Only({"depth"} \union {"objectDepth", "transactions", "transaction"}, s, t)
      BY <1>1, <3>1, OnlyTwice
    <3>3. {"depth"} \union {"objectDepth", "transactions", "transaction"}
            = {"depth", "objectDepth", "transactions", "transaction"}
      OBVIOUS
    <3>4. Only({"depth", "objectDepth", "transactions", "transaction"}, s, t)  BY <3>2, <3>3
    <3>5. t.depth = d.depth  BY <3>1, OnlyFields
    <3> QED  BY <1>1, <2>1, <2>2, <3>4, <3>5 DEF Began
  <2>3. CASE ~(s.arrayDepth = 1 /\ s.objectDepth = 0)
    <3>1. Only({"objectDepth"}, d, t)  BY <1>1, <2>1, <2>3
    <3>2. Only({"depth"} \union {"objectDepth"}, s, t)  BY <1>1, <3>1, OnlyTwice
    <3>3. {"depth"} \union {"objectDepth"} = {"depth", "objectDepth"}  OBVIOUS
    <3>4. Only({"depth", "objectDepth"}, s, t)  BY <3>2, <3>3
    <3>5. t.depth = d.depth  BY <3>1, OnlyFields
    <3> QED  BY <1>1, <2>1, <2>3, <3>4, <3>5
  <2> QED  BY <2>2, <2>3
<1>6. ASSUME Notification
      PROVE  LET current == IF s.objectDepth = 2 THEN s.lastKey ELSE s.currentObject IN
               /\ Only({"depth", "objectDepth", "currentObject", "transaction"}, s, t)
               /\ t.depth = s.depth + 1
               /\ t.objectDepth = s.objectDepth + 1
               /\ t.currentObject = current
               /\ t.transaction = IF current = "transaction" THEN 1 ELSE s.transaction
  <2> DEFINE current == IF s.objectDepth = 2 THEN s.lastKey ELSE s.currentObject
  <2>1. t = NotificationStartObject(d)  BY <1>2, <1>6, SMT DEF Notification
  <2>2. /\ Only({"objectDepth", "currentObject", "transaction"}, d, t)
        /\ t.objectDepth = s.objectDepth + 1
        /\ t.currentObject = current
        /\ t.transaction = IF current = "transaction" THEN 1 ELSE s.transaction
    BY <1>1, <2>1, NotificationObjectStep
  <2>3. Only({"depth"} \union {"objectDepth", "currentObject", "transaction"}, s, t)
    BY <1>1, <2>2, OnlyTwice
  <2>4. {"depth"} \union {"objectDepth", "currentObject", "transaction"}
          = {"depth", "objectDepth", "currentObject", "transaction"}
    OBVIOUS
  <2>5. t.depth = d.depth  BY <2>2, OnlyFields
  <2> HIDE DEF current
  <2>6. Only({"depth", "objectDepth", "currentObject", "transaction"}, s, t)  BY <2>3, <2>4
  <2> QED  BY <1>1, <2>2, <2>5, <2>6 DEF current
<1> QED
  <2>1. isFailure \/ Block \/ Page \/ Transactions \/ Notification \/ (t = d)
    BY <1>2, SMT DEF Block, Page, Transactions, Notification
  <2>2. s.bulkDepth = 0 \/ s.bulkDepth > 0  BY <1>0
  <2>3. t.depth = s.depth + 1  BY <1>1, <1>3, <1>5, <1>6, <2>1, <2>2
  <2> QED  BY <1>1, <1>3, <1>5, <1>6, <2>3 DEF t

\* The end of an object.
LEMMA EndObjectStep ==
  ASSUME NEW s \in Result, s.depth >= 1,
         Notification \/ Transactions \/ (Page /\ s.bulkDepth > 0) => s.objectDepth >= 1,
         Transactions \/ (Page /\ s.bulkDepth > 0) => s.arrayDepth > 0
  PROVE  LET t == EndObject(s) IN
           /\ t.depth = s.depth - 1
           /\ isFailure \/ Block => Only({"depth"}, s, t)
           /\ Page /\ s.bulkDepth = 0 => Only({"depth"}, s, t)
           /\ Transactions \/ (Page /\ s.bulkDepth > 0) =>
                Only({"depth", "objectDepth"}, s, t) /\ t.objectDepth = s.objectDepth - 1
           /\ Notification =>
                /\ Only({"depth", "objectDepth", "currentObject"}, s, t)
                /\ t.objectDepth = s.objectDepth - 1
                /\ t.currentObject = IF s.objectDepth = 3 THEN NoKey ELSE s.currentObject
<1> DEFINE d == [s EXCEPT !.depth = s.depth - 1]
           t == EndObject(s)
<1>0. /\ s.depth \in Nat /\ s.depth - 1 \in Nat /\ s.bulkDepth \in Nat
      /\ s.objectDepth \in Nat /\ s.arrayDepth \in Nat
  BY ResultTypes
<1>1. /\ Only({"depth"}, s, d) /\ d \in Result /\ d.depth = s.depth - 1 /\ d.lastKey = s.lastKey
      /\ d.bulkDepth = s.bulkDepth /\ d.arrayDepth = s.arrayDepth
      /\ d.objectDepth = s.objectDepth /\ d.currentObject = s.currentObject
      /\ d.transaction = s.transaction /\ d.transactions = s.transactions
  BY <1>0, LevelStep
<1>2. t = IF isFailure THEN d
          ELSE CASE Parser = "page" -> BulkEndObject(d)
                 [] Parser = "transactions" -> TransactionsEndObject(d)
                 [] Parser = "notification" -> NotificationEndObject(d)
                 [] OTHER -> d
  BY Zenon DEF EndObject
<1> HIDE DEF d, t
<1>3. ASSUME isFailure \/ Block \/ (Page /\ s.bulkDepth = 0)
      PROVE  t = d
  BY <1>0, <1>1, <1>2, <1>3, SMT DEF Block, Page, BulkEndObject
<1>4. ASSUME Transactions \/ (Page /\ s.bulkDepth > 0)
      PROVE  /\ Only({"depth", "objectDepth"}, s, t) /\ t.objectDepth = s.objectDepth - 1
             /\ t.depth = s.depth - 1
  <2>1. t = TransactionsEndObject(d)
    BY <1>0, <1>1, <1>2, <1>4, SMT DEF Transactions, Page, BulkEndObject
  <2>2. s.arrayDepth > 0 /\ s.objectDepth - 1 \in Nat  BY <1>0, <1>4
  <2> DEFINE u == [d EXCEPT !.objectDepth = d.objectDepth - 1]
  <2>3. t = u  BY <1>1, <2>1, <2>2, Zenon DEF TransactionsEndObject
  <2>4. Only({"objectDepth"}, d, u) /\ u.objectDepth = d.objectDepth - 1
    BY <1>1, <2>2, CounterSteps
  <2> HIDE DEF u
  <2>5. Only({"depth"} \union {"objectDepth"}, s, u)  BY <1>1, <2>4, OnlyTwice
  <2>6. {"depth"} \union {"objectDepth"} = {"depth", "objectDepth"}  OBVIOUS
  <2>7. Only({"depth", "objectDepth"}, s, u)  BY <2>5, <2>6
  <2>8. u.depth = d.depth  BY <2>4, OnlyFields
  <2> QED  BY <1>1, <2>3, <2>4, <2>7, <2>8
<1>5. ASSUME Notification
      PROVE  /\ Only({"depth", "objectDepth", "currentObject"}, s, t)
             /\ t.depth = s.depth - 1
             /\ t.objectDepth = s.objectDepth - 1
             /\ t.currentObject = IF s.objectDepth = 3 THEN NoKey ELSE s.currentObject
  <2>1. t = NotificationEndObject(d)  BY <1>2, <1>5, SMT DEF Notification
  <2>2. d.objectDepth >= 1  BY <1>1, <1>5
  <2>3. /\ Only({"objectDepth", "currentObject"}, d, t)
        /\ t.objectDepth = s.objectDepth - 1
        /\ t.currentObject = IF s.objectDepth = 3 THEN NoKey ELSE s.currentObject
    BY <1>1, <2>1, <2>2, NotificationEndStep
  <2>4. Only({"depth"} \union {"objectDepth", "currentObject"}, s, t)
    BY <1>1, <2>3, OnlyTwice
  <2>5. {"depth"} \union {"objectDepth", "currentObject"}
          = {"depth", "objectDepth", "currentObject"}
    OBVIOUS
  <2>6. t.depth = d.depth  BY <2>3, OnlyFields
  <2>7. Only({"depth", "objectDepth", "currentObject"}, s, t)  BY <2>4, <2>5
  <2> QED  BY <1>1, <2>3, <2>6, <2>7
<1> QED
  <2>1. isFailure \/ Block \/ Page \/ Transactions \/ Notification \/ (t = d)
    BY <1>2, SMT DEF Block, Page, Transactions, Notification
  <2>2. s.bulkDepth = 0 \/ s.bulkDepth > 0  BY <1>0
  <2>3. t.depth = s.depth - 1  BY <1>1, <1>3, <1>4, <1>5, <2>1, <2>2
  <2> QED  BY <1>1, <1>3, <1>4, <1>5, <2>3 DEF t

\* The beginning of an array.
LEMMA StartArrayStep ==
  ASSUME NEW s \in Result
  PROVE  LET t == StartArray(s) IN
           /\ t.depth = s.depth + 1
           /\ isFailure \/ Block \/ Notification => Only({"depth"}, s, t)
           /\ Page /\ s.bulkDepth = 0 /\ s.lastKey # "txs" => Only({"depth"}, s, t)
           /\ Page /\ (s.bulkDepth >= 1 \/ s.lastKey = "txs") =>
                /\ Only({"depth", "bulkDepth", "arrayDepth"}, s, t)
                /\ t.bulkDepth = s.bulkDepth + 1 /\ t.arrayDepth = s.arrayDepth + 1
           /\ Transactions =>
                Only({"depth", "arrayDepth"}, s, t) /\ t.arrayDepth = s.arrayDepth + 1
<1> DEFINE d == [s EXCEPT !.depth = s.depth + 1]
           t == StartArray(s)
<1>0. /\ s.depth \in Nat /\ s.depth + 1 \in Nat /\ s.bulkDepth \in Nat /\ s.bulkDepth + 1 \in Nat
      /\ s.arrayDepth \in Nat /\ s.arrayDepth + 1 \in Nat
  BY ResultTypes
<1>1. /\ Only({"depth"}, s, d) /\ d \in Result /\ d.depth = s.depth + 1 /\ d.lastKey = s.lastKey
      /\ d.bulkDepth = s.bulkDepth /\ d.arrayDepth = s.arrayDepth
      /\ d.objectDepth = s.objectDepth /\ d.currentObject = s.currentObject
      /\ d.transaction = s.transaction /\ d.transactions = s.transactions
  BY <1>0, LevelStep
<1>2. t = IF isFailure THEN d
          ELSE CASE Parser = "page" -> BulkStartArray(d)
                 [] Parser = "transactions" -> TransactionsStartArray(d)
                 [] OTHER -> d
  BY Zenon DEF StartArray
<1> HIDE DEF d, t
<1>3. ASSUME \/ isFailure \/ Block \/ Notification
             \/ Page /\ s.bulkDepth = 0 /\ s.lastKey # "txs"
      PROVE  t = d
  BY <1>0, <1>1, <1>2, <1>3, SMT DEF Block, Notification, Page, BulkStartArray
<1>4. ASSUME Page, s.bulkDepth >= 1 \/ s.lastKey = "txs"
      PROVE  /\ Only({"depth", "bulkDepth", "arrayDepth"}, s, t) /\ t.depth = s.depth + 1
             /\ t.bulkDepth = s.bulkDepth + 1 /\ t.arrayDepth = s.arrayDepth + 1
  <2>1. t = BulkStartArray(d)  BY <1>2, <1>4, Zenon DEF Page
  <2> DEFINE o == [d EXCEPT !.bulkDepth = s.bulkDepth + 1]
             u == [o EXCEPT !.arrayDepth = s.arrayDepth + 1]
  <2>2. /\ Only({"bulkDepth", "arrayDepth"}, d, u)
        /\ u.bulkDepth = s.bulkDepth + 1 /\ u.arrayDepth = s.arrayDepth + 1
        /\ o.arrayDepth = s.arrayDepth
    <3>1. s.bulkDepth + 1 \in Nat /\ s.arrayDepth + 1 \in Nat /\ d \in Result  BY <1>0, <1>1
    <3>2. /\ Only({"bulkDepth", "arrayDepth"}, d, u)
          /\ u.bulkDepth = s.bulkDepth + 1 /\ u.arrayDepth = s.arrayDepth + 1
          /\ o.arrayDepth = d.arrayDepth
      BY <3>1, BulkArrayStep, Zenon
    <3> QED  BY <3>2, <1>1
  <2>3. BulkStartArray(d) = TransactionsStartArray(o)
    BY <1>1, <1>4, Zenon DEF BulkStartArray
  <2>4. TransactionsStartArray(o) = u  BY <2>2, Zenon DEF TransactionsStartArray
  <2> HIDE DEF o, u
  <2>5. Only({"depth"} \union {"bulkDepth", "arrayDepth"}, s, u)  BY <1>1, <2>2, OnlyTwice
  <2>6. {"depth"} \union {"bulkDepth", "arrayDepth"} = {"depth", "bulkDepth", "arrayDepth"}
    OBVIOUS
  <2>7. Only({"depth", "bulkDepth", "arrayDepth"}, s, u)  BY <2>5, <2>6
  <2>8. u.depth = d.depth  BY <2>2, OnlyFields
  <2> QED  BY <1>1, <2>1, <2>2, <2>3, <2>4, <2>7, <2>8
<1>5. ASSUME Transactions
      PROVE  /\ Only({"depth", "arrayDepth"}, s, t) /\ t.depth = s.depth + 1
             /\ t.arrayDepth = s.arrayDepth + 1
  <2> DEFINE u == [d EXCEPT !.arrayDepth = s.arrayDepth + 1]
  <2>1. t = TransactionsStartArray(d)  BY <1>2, <1>5, SMT DEF Transactions
  <2>2. TransactionsStartArray(d) = u  BY <1>1, Zenon DEF TransactionsStartArray
  <2>3. Only({"arrayDepth"}, d, u) /\ u.arrayDepth = s.arrayDepth + 1
    BY <1>0, <1>1, CounterSteps
  <2> HIDE DEF u
  <2>4. Only({"depth"} \union {"arrayDepth"}, s, u)  BY <1>1, <2>3, OnlyTwice
  <2>5. {"depth"} \union {"arrayDepth"} = {"depth", "arrayDepth"}  OBVIOUS
  <2>6. Only({"depth", "arrayDepth"}, s, u)  BY <2>4, <2>5
  <2>7. u.depth = d.depth  BY <2>3, OnlyFields
  <2> QED  BY <1>1, <2>1, <2>2, <2>3, <2>6, <2>7
<1> QED
  <2>1. isFailure \/ Block \/ Page \/ Transactions \/ Notification \/ (t = d)
    BY <1>2, SMT DEF Block, Page, Transactions, Notification
  <2>2. (s.bulkDepth = 0 /\ s.lastKey # "txs") \/ (s.bulkDepth >= 1 \/ s.lastKey = "txs")
    BY <1>0
  <2>3. t.depth = s.depth + 1  BY <1>1, <1>3, <1>4, <1>5, <2>1, <2>2
  <2> QED  BY <1>1, <1>3, <1>4, <1>5, <2>3 DEF t

\* The end of an array: of the page, that of "txs" stays counted.
LEMMA EndArrayStep ==
  ASSUME NEW s \in Result, s.depth >= 1,
         Transactions \/ (Page /\ s.bulkDepth > 1) => s.arrayDepth >= 1
  PROVE  LET t == EndArray(s) IN
           /\ t.depth = s.depth - 1
           /\ isFailure \/ Block \/ Notification => Only({"depth"}, s, t)
           /\ Page /\ s.bulkDepth <= 1 => Only({"depth", "bulkDepth"}, s, t) /\ t.bulkDepth = 0
           /\ Page /\ s.bulkDepth > 1 =>
                /\ Only({"depth", "bulkDepth", "arrayDepth"}, s, t)
                /\ t.bulkDepth = s.bulkDepth - 1 /\ t.arrayDepth = s.arrayDepth - 1
           /\ Transactions =>
                Only({"depth", "arrayDepth"}, s, t) /\ t.arrayDepth = s.arrayDepth - 1
<1> DEFINE d == [s EXCEPT !.depth = s.depth - 1]
           t == EndArray(s)
<1>0. /\ s.depth \in Nat /\ s.depth - 1 \in Nat /\ s.bulkDepth \in Nat /\ s.arrayDepth \in Nat
  BY ResultTypes
<1>1. /\ Only({"depth"}, s, d) /\ d \in Result /\ d.depth = s.depth - 1 /\ d.lastKey = s.lastKey
      /\ d.bulkDepth = s.bulkDepth /\ d.arrayDepth = s.arrayDepth
      /\ d.objectDepth = s.objectDepth /\ d.currentObject = s.currentObject
      /\ d.transaction = s.transaction /\ d.transactions = s.transactions
  BY <1>0, LevelStep
<1>2. t = IF isFailure THEN d
          ELSE CASE Parser = "page" -> BulkEndArray(d)
                 [] Parser = "transactions" -> TransactionsEndArray(d)
                 [] OTHER -> d
  BY Zenon DEF EndArray
<1> HIDE DEF d, t
<1>3. ASSUME isFailure \/ Block \/ Notification
      PROVE  t = d
  BY <1>2, <1>3, SMT DEF Block, Notification
<1>4. ASSUME Page, s.bulkDepth <= 1
      PROVE  /\ Only({"depth", "bulkDepth"}, s, t) /\ t.depth = s.depth - 1 /\ t.bulkDepth = 0
  <2> DEFINE u == [d EXCEPT !.bulkDepth = 0]
  <2>1. t = BulkEndArray(d)  BY <1>2, <1>4, Zenon DEF Page
  <2>2. ~(d.bulkDepth > 1)  BY <1>0, <1>1, <1>4
  <2>3. BulkEndArray(d) = u  BY <2>2, Zenon DEF BulkEndArray
  <2>4. Only({"bulkDepth"}, d, u) /\ u.bulkDepth = 0  BY <1>1, CounterSteps
  <2> HIDE DEF u
  <2>5. Only({"depth"} \union {"bulkDepth"}, s, u)  BY <1>1, <2>4, OnlyTwice
  <2>6. {"depth"} \union {"bulkDepth"} = {"depth", "bulkDepth"}  OBVIOUS
  <2>7. Only({"depth", "bulkDepth"}, s, u)  BY <2>5, <2>6
  <2>8. u.depth = d.depth  BY <2>4, OnlyFields
  <2> QED  BY <1>1, <2>1, <2>3, <2>4, <2>7, <2>8
<1>5. ASSUME Page, s.bulkDepth > 1
      PROVE  /\ Only({"depth", "bulkDepth", "arrayDepth"}, s, t) /\ t.depth = s.depth - 1
             /\ t.bulkDepth = s.bulkDepth - 1 /\ t.arrayDepth = s.arrayDepth - 1
  <2>0. s.bulkDepth - 1 \in Nat /\ s.arrayDepth - 1 \in Nat  BY <1>0, <1>5
  <2>1. t = BulkEndArray(d)  BY <1>2, <1>5, Zenon DEF Page
  <2> DEFINE o == [d EXCEPT !.bulkDepth = s.bulkDepth - 1]
             u == [o EXCEPT !.arrayDepth = s.arrayDepth - 1]
  <2>2. /\ Only({"bulkDepth", "arrayDepth"}, d, u)
        /\ u.bulkDepth = s.bulkDepth - 1 /\ u.arrayDepth = s.arrayDepth - 1
        /\ o.arrayDepth = s.arrayDepth
    <3>1. s.bulkDepth - 1 \in Nat /\ s.arrayDepth - 1 \in Nat /\ d \in Result  BY <2>0, <1>1
    <3>2. /\ Only({"bulkDepth", "arrayDepth"}, d, u)
          /\ u.bulkDepth = s.bulkDepth - 1 /\ u.arrayDepth = s.arrayDepth - 1
          /\ o.arrayDepth = d.arrayDepth
      BY <3>1, BulkArrayStep, Zenon
    <3> QED  BY <3>2, <1>1
  <2>3. BulkEndArray(d) = TransactionsEndArray(o)
    BY <1>1, <1>5, Zenon DEF BulkEndArray
  <2>4. TransactionsEndArray(o) = u  BY <2>2, Zenon DEF TransactionsEndArray
  <2> HIDE DEF o, u
  <2>5. Only({"depth"} \union {"bulkDepth", "arrayDepth"}, s, u)  BY <1>1, <2>2, OnlyTwice
  <2>6. {"depth"} \union {"bulkDepth", "arrayDepth"} = {"depth", "bulkDepth", "arrayDepth"}
    OBVIOUS
  <2>7. Only({"depth", "bulkDepth", "arrayDepth"}, s, u)  BY <2>5, <2>6
  <2>8. u.depth = d.depth  BY <2>2, OnlyFields
  <2> QED  BY <1>1, <2>1, <2>2, <2>3, <2>4, <2>7, <2>8
<1>6. ASSUME Transactions
      PROVE  /\ Only({"depth", "arrayDepth"}, s, t) /\ t.depth = s.depth - 1
             /\ t.arrayDepth = s.arrayDepth - 1
  <2>0. s.arrayDepth - 1 \in Nat  BY <1>0, <1>6
  <2> DEFINE u == [d EXCEPT !.arrayDepth = s.arrayDepth - 1]
  <2>1. t = TransactionsEndArray(d)  BY <1>2, <1>6, SMT DEF Transactions
  <2>2. TransactionsEndArray(d) = u  BY <1>1, Zenon DEF TransactionsEndArray
  <2>3. Only({"arrayDepth"}, d, u) /\ u.arrayDepth = s.arrayDepth - 1
    BY <2>0, <1>1, CounterSteps
  <2> HIDE DEF u
  <2>4. Only({"depth"} \union {"arrayDepth"}, s, u)  BY <1>1, <2>3, OnlyTwice
  <2>5. {"depth"} \union {"arrayDepth"} = {"depth", "arrayDepth"}  OBVIOUS
  <2>6. Only({"depth", "arrayDepth"}, s, u)  BY <2>4, <2>5
  <2>7. u.depth = d.depth  BY <2>3, OnlyFields
  <2> QED  BY <1>1, <2>1, <2>2, <2>3, <2>6, <2>7
<1> QED
  <2>1. isFailure \/ Block \/ Page \/ Transactions \/ Notification \/ (t = d)
    BY <1>2, SMT DEF Block, Page, Transactions, Notification
  <2>2. s.bulkDepth <= 1 \/ s.bulkDepth > 1  BY <1>0
  <2>3. t.depth = s.depth - 1  BY <1>1, <1>3, <1>4, <1>5, <1>6, <2>1, <2>2
  <2> QED  BY <1>1, <1>3, <1>4, <1>5, <1>6, <2>3 DEF t

---------------------------------------------------------------------------
(* What a value does.                                                      *)

\* A value put into the transaction that is the current one.
ValueInto(s, t, owner) ==
  /\ Only({"transactions"}, s, t)
  /\ t.transactions = [s.transactions EXCEPT ![s.transaction] = @ \union {owner}]

\* TransactionParser, once it was given a transaction.
LEMMA TransactionValueStep ==
  ASSUME NEW s \in Result, NEW owner \in Nat, s.transaction \in DOMAIN s.transactions
  PROVE  ValueInto(s, TransactionValue(s, owner), owner)
<1> DEFINE ts == [s.transactions EXCEPT ![s.transaction] = s.transactions[s.transaction] \union {owner}]
           t == [s EXCEPT !.transactions = ts]
<1>1. s.transactions \in Seq(SUBSET Nat) /\ s.transaction \in Nat  BY ResultTypes
<1>2. s.transaction # 0  BY <1>1
<1>3. s.transactions[s.transaction] \union {owner} \in SUBSET Nat  BY <1>1
<1>4. ts \in Seq(SUBSET Nat)  BY <1>1, <1>3
<1>5. TransactionValue(s, owner) = t  BY <1>2, Zenon DEF TransactionValue
<1>6. ts = [s.transactions EXCEPT ![s.transaction] = @ \union {owner}]  OBVIOUS
<1> HIDE DEF ts
<1>7. Only({"transactions"}, s, t) /\ t.transactions = ts  BY <1>4, FieldSteps, Zenon
<1> HIDE DEF t
<1> QED  BY <1>5, <1>6, <1>7 DEF ValueInto

\* BlockParser: one of its fields, by the last key and the kind.
LEMMA BlockValueStep ==
  ASSUME NEW s \in Result, NEW kind, NEW own \in BOOLEAN
  PROVE  LET t == BlockValue(s, kind, own) IN
           /\ <<s.lastKey, kind>> \in BlockFields =>
                Only({"block"}, s, t) /\ t.block = s.block \union {own}
           /\ <<s.lastKey, kind>> \notin BlockFields => t = s
<1> DEFINE t == [s EXCEPT !.block = s.block \union {own}]
<1>1. s.block \union {own} \in SUBSET BOOLEAN  BY ResultTypes
<1>2. Only({"block"}, s, t) /\ t.block = s.block \union {own}  BY <1>1, FieldSteps, Zenon
<1>3. <<s.lastKey, kind>> \in BlockFields => BlockValue(s, kind, own) = t
  BY Zenon DEF BlockValue
<1>4. <<s.lastKey, kind>> \notin BlockFields => BlockValue(s, kind, own) = s
  BY Zenon DEF BlockValue
<1> HIDE DEF t
<1> QED  BY <1>2, <1>3, <1>4

\* What LedgerApiParser makes of a value, for each parser.
LEMMA ScalarStep ==
  ASSUME NEW s \in Result, NEW kind, NEW b \in BOOLEAN, Owner \in Nat, InBlock \in BOOLEAN
  PROVE  LET t == ScalarValue(s, kind, b)
             named == s.transaction \in DOMAIN s.transactions
             fields == <<s.lastKey, kind>> \in BlockFields
         IN  /\ isFailure => Only({"error"}, s, t)
             /\ Page /\ s.bulkDepth > 0 /\ s.arrayDepth > 0 /\ named => ValueInto(s, t, Owner)
             /\ Page /\ s.bulkDepth = 0 =>
                  IF kind = "bool" /\ s.lastKey = "truncated"
                  THEN Only({"hasNext"}, s, t) /\ t.hasNext = b
                  ELSE t = s
             /\ Transactions /\ s.arrayDepth > 0 /\ named => ValueInto(s, t, Owner)
             /\ Block \/ (Notification /\ s.currentObject = "block") =>
                  IF fields THEN Only({"block"}, s, t) /\ t.block = s.block \union {InBlock}
                  ELSE t = s
             /\ Notification /\ s.currentObject = "transaction" /\ named => ValueInto(s, t, Owner)
             /\ Notification /\ s.currentObject \notin {"block", "transaction"} => t = s
<1> DEFINE t == ScalarValue(s, kind, b)
           named == s.transaction \in DOMAIN s.transactions
           fields == <<s.lastKey, kind>> \in BlockFields
<1>0. s.bulkDepth \in Nat /\ s.arrayDepth \in Nat  BY ResultTypes
<1>1. named => ValueInto(s, TransactionValue(s, Owner), Owner)  BY TransactionValueStep
<1>2. IF fields THEN /\ Only({"block"}, s, BlockValue(s, kind, InBlock))
                     /\ BlockValue(s, kind, InBlock).block = s.block \union {InBlock}
      ELSE BlockValue(s, kind, InBlock) = s
  BY BlockValueStep
<1>3. isFailure => Only({"error"}, s, t)
  <2>1. (s.error \/ IsError(s, kind)) \in BOOLEAN  BY ResultTypes, Zenon DEF IsError
  <2>2. Only({"error"}, s, [s EXCEPT !.error = s.error \/ IsError(s, kind)])
    BY <2>1, FieldSteps, Zenon
  <2> QED  BY <2>2, Zenon DEF ScalarValue
<1>4. ~isFailure =>
        t = CASE Parser = "page" -> BulkValue(s, kind, b, Owner)
              [] Parser = "transactions" -> TransactionsValue(s, Owner)
              [] Parser = "block" -> BlockValue(s, kind, InBlock)
              [] OTHER -> NotificationValue(s, kind, Owner, InBlock)
  BY Zenon DEF ScalarValue
<1>5. /\ Page => t = BulkValue(s, kind, b, Owner)
      /\ Transactions => t = TransactionsValue(s, Owner)
      /\ Block => t = BlockValue(s, kind, InBlock)
      /\ Notification => t = NotificationValue(s, kind, Owner, InBlock)
  BY <1>4, SMT DEF Page, Transactions, Block, Notification
<1> HIDE DEF t
<1>6. Page /\ s.bulkDepth > 0 /\ s.arrayDepth > 0 /\ named => ValueInto(s, t, Owner)
  BY <1>1, <1>5, Zenon DEF BulkValue, TransactionsValue
<1>7. ASSUME Page, s.bulkDepth = 0
      PROVE  IF kind = "bool" /\ s.lastKey = "truncated"
             THEN Only({"hasNext"}, s, t) /\ t.hasNext = b
             ELSE t = s
  <2>1. ~(s.bulkDepth > 0)  BY <1>0, <1>7
  <2>2. Only({"hasNext"}, s, [s EXCEPT !.hasNext = b]) /\ [s EXCEPT !.hasNext = b].hasNext = b
    BY FieldSteps, Zenon
  <2>3. t = IF kind = "bool" /\ s.lastKey = "truncated" THEN [s EXCEPT !.hasNext = b] ELSE s
    BY <2>1, <1>5, <1>7, Zenon DEF BulkValue
  <2> QED  BY <2>2, <2>3, Zenon
<1>8. Transactions /\ s.arrayDepth > 0 /\ named => ValueInto(s, t, Owner)
  BY <1>1, <1>5, Zenon DEF TransactionsValue
<1>9. NotificationValue(s, kind, Owner, InBlock) =
        CASE s.currentObject = "block" -> BlockValue(s, kind, InBlock)
          [] s.currentObject = "transaction" -> TransactionValue(s, Owner)
          [] OTHER -> s
  BY Zenon DEF NotificationValue
<1>10. /\ s.currentObject = "block" =>
            NotificationValue(s, kind, Owner, InBlock) = BlockValue(s, kind, InBlock)
       /\ s.currentObject = "transaction" =>
            NotificationValue(s, kind, Owner, InBlock) = TransactionValue(s, Owner)
       /\ s.currentObject \notin {"block", "transaction"} =>
            NotificationValue(s, kind, Owner, InBlock) = s
  BY <1>9, SMT
<1>11. Block \/ (Notification /\ s.currentObject = "block") => t = BlockValue(s, kind, InBlock)
  BY <1>5, <1>10, Zenon
<1>12. Block \/ (Notification /\ s.currentObject = "block") =>
         IF fields THEN Only({"block"}, s, t) /\ t.block = s.block \union {InBlock}
         ELSE t = s
  BY <1>2, <1>11, Zenon
<1>13. Notification /\ s.currentObject = "transaction" /\ named => ValueInto(s, t, Owner)
  BY <1>1, <1>5, <1>10, Zenon
<1>14. Notification /\ s.currentObject \notin {"block", "transaction"} => t = s
  BY <1>5, <1>10, Zenon
<1> HIDE DEF named, fields
<1> QED  BY <1>3, <1>6, <1>7, <1>8, <1>12, <1>13, <1>14, Zenon DEF t, named, fields

---------------------------------------------------------------------------
(* The invariant: what each parser counts, against the brackets of the     *)
(* document that are open.  o is the reader, s what the parser keeps and d *)
(* what the document said.                                                 *)

Said == [elements : Nat, valued : SUBSET Nat, next : BOOLEAN, txs : BOOLEAN, block : BOOLEAN]

\* Only an object has a key, and the last key is the one of the innermost.
KeyInv(o, s) ==
  /\ \A i \in DOMAIN o : o[i].array => o[i].key = NoKey
  /\ o # <<>> /\ o[Len(o)].key # NoKey => s.lastKey = o[Len(o)].key

\* Each transaction that began is in the result, the last one current.
CountRead(s, d) == s.transaction = d.elements /\ Len(s.transactions) = d.elements

\* The page counts only inside of "txs", where its own object does not count.
PageInv(o, s, d) ==
  /\ Len(o) >= 1 => ~o[1].array
  /\ Len(o) >= 2 => /\ o[1].key = "txs" /\ o[2].array /\ d.txs
                    /\ s.bulkDepth = ArrayCount(o) /\ s.arrayDepth = ArrayCount(o)
                    /\ s.objectDepth = Len(o) - ArrayCount(o) - 1
  /\ Len(o) < 2 => s.bulkDepth = 0 /\ s.objectDepth = 0
  /\ Len(o) >= 3 => d.elements >= 1
  /\ ~d.txs => s.arrayDepth = 0
  /\ CountRead(s, d)

TransactionsInv(o, s, d) ==
  /\ Len(o) >= 1 => o[1].array
  /\ Len(o) >= 2 => d.elements >= 1
  /\ s.arrayDepth = ArrayCount(o)
  /\ s.objectDepth = Len(o) - ArrayCount(o)
  /\ CountRead(s, d)

BlockInv(o, s) ==
  /\ Len(o) >= 1 => ~o[1].array
  /\ Len(o) >= 2 => Len(o) = 2 /\ o[2].array /\ s.lastKey = "txs"
  /\ s.transactions = <<>>

\* From the third object on, what the values are of is known.
NotificationInv(o, s) ==
  /\ \A i \in 1 .. 3 : i <= Len(o) => ~o[i].array
  /\ Len(o) >= 2 => o[1].key = "payload"
  /\ Len(o) >= 3 => /\ o[2].key \in {"transaction", "block"} /\ s.currentObject = o[2].key
                    /\ o[2].key = "transaction" => s.transaction = 1
  /\ Len(o) < 3 => s.currentObject = NoKey
  /\ Len(o) >= 4 /\ o[2].key = "block" => Len(o) = 4 /\ o[4].array /\ s.lastKey = "txs"
  /\ s.objectDepth = Len(o) - ArrayCount(o)
  /\ Len(s.transactions) = 1

\* With an error status nothing of the document is handed on.
FailureInv(s, d) ==
  /\ d.elements = 0 /\ d.valued = {} /\ ~d.next /\ ~d.block
  /\ Parser # "notification" => s.transactions = <<>>

ParserInv(o, s, d) ==
  /\ isFailure => FailureInv(s, d)
  /\ Page => PageInv(o, s, d)
  /\ Transactions => TransactionsInv(o, s, d)
  /\ Block => BlockInv(o, s)
  /\ Notification => NotificationInv(o, s)

TypedInv(o, s, d) ==
  o \in Seq(Opened) /\ s \in Result /\ d \in Said /\ s.depth = Len(o)

\* What was read is what was said.
ContentInv(s, d) ==
  /\ d.valued \subseteq DOMAIN s.transactions
  /\ \A i \in DOMAIN s.transactions : s.transactions[i] = IF i \in d.valued THEN {i} ELSE {}
  /\ ~s.wild /\ s.hasNext = d.next
  /\ s.block = IF d.block THEN {TRUE} ELSE {}

DocumentInv(o, s, d) ==
  TypedInv(o, s, d) /\ KeyInv(o, s) /\ ParserInv(o, s, d) /\ ContentInv(s, d)

AnswerInv ==
  /\ request \in [parser : Parsers, named : BOOLEAN, status : {"ok", "error", "unreachable"}]
  /\ reading \in {"reading", "done", "cut", "threw"}
  /\ answer \in {"none", "failed", "result", "API_ERROR", "BLOCK_NOT_FOUND", "TRANSACTION_NOT_FOUND"}
  /\ answer = "result" => request.status = "ok" /\ reading # "reading"
  /\ answer \in {"API_ERROR", "BLOCK_NOT_FOUND"} => isFailure

ReadInv == DocumentInv(open, api, said) /\ AnswerInv

\* The invariant is stronger than what the run checks.
LEMMA ReadInvImplies ==
  ReadInv => TypeOK /\ TransactionsRead /\ NothingElseRead
<1> SUFFICES ASSUME ReadInv PROVE TypeOK /\ TransactionsRead /\ NothingElseRead
  OBVIOUS
<1> USE DEF ReadInv, DocumentInv
<1>1. TypeOK  BY DEF TypedInv, AnswerInv, TypeOK, Opened, Result, Said
<1>2. Parser \in {"page", "transactions"} => Len(api.transactions) = said.elements
  BY SMT DEF ParserInv, FailureInv, Page, PageInv, Transactions, TransactionsInv, CountRead
<1>3. TransactionsRead  BY <1>2, Zenon DEF ContentInv, TransactionsRead
<1>4. isFailure => \A i \in DOMAIN api.transactions : api.transactions[i] = {}
  BY Zenon DEF ContentInv, ParserInv, FailureInv
<1>5. NothingElseRead  BY <1>4, Zenon DEF ContentInv, AnswerInv, NothingElseRead
<1> QED  BY <1>1, <1>3, <1>5

\* Nothing is open and nothing was said before the first bracket.
LEMMA ReadInit == Init => ReadInv
<1> SUFFICES ASSUME Init PROVE ReadInv
  OBVIOUS
<1>1. AnswerInv  BY Zenon DEF Init, AnswerInv
<1>2. /\ open = <<>> /\ Len(open) = 0
      /\ said = [elements |-> 0, valued |-> {}, next |-> FALSE, txs |-> FALSE, block |-> FALSE]
      /\ api.depth = 0 /\ api.bulkDepth = 0 /\ api.arrayDepth = 0 /\ api.objectDepth = 0
      /\ api.currentObject = NoKey /\ api.transaction = 0
      /\ api.transactions = IF Parser = "notification" THEN <<{}>> ELSE <<>>
      /\ api.hasNext = FALSE /\ api.block = {} /\ api.wild = FALSE
  BY DEF Init
<1>3. ArrayCount(open) = 0
  <2>1. Arrays(open) = {}  BY <1>2 DEF Arrays
  <2> QED  BY <2>1, FS_EmptySet DEF ArrayCount
<1>4. TypedInv(open, api, said)
  <2>2. <<>> \in Seq(SUBSET Nat) /\ <<{}>> \in Seq(SUBSET Nat)  OBVIOUS
  <2>3. api \in Result
    <3>1. NoKey \in Keys \union {NoKey} /\ 0 \in Nat /\ FALSE \in BOOLEAN /\ {} \in SUBSET BOOLEAN
      OBVIOUS
    <3>2. (IF Parser = "notification" THEN <<{}>> ELSE <<>>) \in Seq(SUBSET Nat)  BY <2>2
    <3> QED  BY <3>1, <3>2, Zenon DEF Init, Result
  <2>4. said \in Said  BY <1>2 DEF Said
  <2> QED  BY <1>2, <2>3, <2>4 DEF TypedInv
<1>5. KeyInv(open, api)  BY <1>2 DEF KeyInv
<1>6. ParserInv(open, api, said)
  BY <1>2, <1>3, SMT DEF ParserInv, FailureInv, Page, PageInv, Transactions, TransactionsInv,
     Block, BlockInv, Notification, NotificationInv, CountRead
<1>7. ContentInv(api, said)
  <2>1. \A i \in DOMAIN api.transactions : api.transactions[i] = {}  BY <1>2
  <2>2. said.valued = {} /\ said.next = FALSE /\ said.block = FALSE  BY <1>2
  <2> QED  BY <1>2, <2>1, <2>2, Zenon DEF ContentInv
<1> QED  BY <1>1, <1>4, <1>5, <1>6, <1>7 DEF ReadInv, DocumentInv

\* The invariant of the next state, from what the variables become.
LEMMA DocumentNext ==
  ASSUME NEW o, NEW s, NEW d, open' = o, api' = s, said' = d, request' = request,
         DocumentInv(o, s, d)
  PROVE  DocumentInv(open, api, said)'
<1>1. TypedInv(open, api, said)'  BY DEF DocumentInv, TypedInv
<1>2. KeyInv(open, api)'  BY DEF DocumentInv, KeyInv
<1>3. ContentInv(api, said)'  BY DEF DocumentInv, ContentInv
<1>4. ParserInv(open, api, said)'
  <2> USE DEF isFailure, Parser
  <2>1. (isFailure => FailureInv(api, said))'  BY DEF DocumentInv, ParserInv, FailureInv
  <2>2. (Page => PageInv(open, api, said))'
    BY DEF DocumentInv, ParserInv, Page, PageInv, CountRead, ArrayCount, Arrays
  <2>3. (Transactions => TransactionsInv(open, api, said))'
    BY DEF DocumentInv, ParserInv, Transactions, TransactionsInv, CountRead, ArrayCount, Arrays
  <2>4. (Block => BlockInv(open, api))'  BY DEF DocumentInv, ParserInv, Block, BlockInv
  <2>5. (Notification => NotificationInv(open, api))'
    BY DEF DocumentInv, ParserInv, Notification, NotificationInv, ArrayCount, Arrays
  <2> QED  BY <2>1, <2>2, <2>3, <2>4, <2>5 DEF ParserInv
<1> QED  BY <1>1, <1>2, <1>3, <1>4 DEF DocumentInv

\* Where the reader can be, for each parser.
LEMMA Where ==
  /\ Parser = "page" => (InTransactions <=> Len(open) >= 2 /\ open[1].key = "txs")
  /\ Parser = "transactions" => (InTransactions <=> Len(open) >= 1)
  /\ Parser \notin {"page", "transactions"} => ~InTransactions
  /\ Parser = "page" => (InTransaction <=> InTransactions /\ Len(open) > 2)
  /\ Parser = "transactions" => (InTransaction <=> InTransactions /\ Len(open) > 1)
  /\ Parser = "block" => ~InTransaction
  /\ Parser = "notification" => (InTransaction <=> Within("transaction") /\ Len(open) >= 3)
  /\ InBlock <=> \/ Parser = "block" /\ Len(open) = 1
                 \/ Parser = "notification" /\ Within("block") /\ Len(open) >= 3
<1>1. /\ Parser = "page" => (InTransactions <=> Len(open) >= 2 /\ open[1].key = "txs")
      /\ Parser = "transactions" => (InTransactions <=> Len(open) >= 1)
      /\ Parser \notin {"page", "transactions"} => ~InTransactions
  BY SMT DEF InTransactions, ArrayOfTransactions
<1>2. /\ Parser = "page" => (InTransaction <=> InTransactions /\ Len(open) > 2)
      /\ Parser = "transactions" => (InTransaction <=> InTransactions /\ Len(open) > 1)
      /\ Parser = "block" => ~InTransaction
      /\ Parser = "notification" => (InTransaction <=> Within("transaction") /\ Len(open) >= 3)
  BY <1>1, SMT DEF InTransaction, ArrayOfTransactions
<1> QED  BY <1>1, <1>2, Zenon DEF InBlock

\* Where the reader can be, for each parser, and what may begin there.
LEMMA Places ==
  ASSUME open \in Seq(Opened), Len(open) \in Nat, NEW array \in BOOLEAN, MayBegin(array)
  PROVE  /\ Page => /\ InTransactions <=> Len(open) >= 2 /\ open[1].key = "txs"
                    /\ InTransaction <=> InTransactions /\ Len(open) > 2
                    /\ Len(open) = 0 => ~array
                    /\ Len(open) = 1 => array /\ Top.key = "txs" /\ ~said.txs
                    /\ Len(open) = 2 => ~array
         /\ Transactions => /\ InTransactions <=> Len(open) >= 1
                            /\ InTransaction <=> Len(open) > 1
                            /\ Len(open) = 0 => array
                            /\ Len(open) = 1 => ~array
         /\ Block => /\ ~InTransactions /\ ~InTransaction
                     /\ Len(open) = 0 => ~array
                     /\ Len(open) # 0 => Len(open) = 1 /\ array /\ Top.key = "txs"
         /\ Notification =>
              /\ ~InTransactions
              /\ Len(open) < 3 => ~array
              /\ Len(open) = 1 => Top.key = "payload"
              /\ Len(open) = 2 => Top.key \in {"transaction", "block"}
              /\ Len(open) >= 3 => Within("transaction") \/ (Within("block") /\ array /\ Top.key = "txs")
<1>0. open = <<>> <=> Len(open) = 0  OBVIOUS
<1>2. \/ isFailure \/ InTransaction
      \/ open = <<>> /\ (array <=> Parser = "transactions")
      \/ InTransactions /\ ~array
      \/ Parser = "page" /\ Len(open) = 1 /\ array /\ Top.key = "txs" /\ ~said.txs
      \/ Parser = "notification" /\ Len(open) = 1 /\ ~array /\ Top.key = "payload"
      \/ Parser = "notification" /\ Len(open) = 2 /\ ~array /\ Top.key \in {"transaction", "block"}
      \/ InBlock /\ array /\ Top.key = "txs"
  BY Zenon DEF MayBegin
<1>1. /\ ~(Len(open) = 0 /\ Len(open) = 1) /\ ~(Len(open) = 0 /\ Len(open) = 2)
      /\ ~(Len(open) = 1 /\ Len(open) = 2)
      /\ Len(open) >= 1 <=> Len(open) # 0
      /\ Len(open) >= 2 <=> Len(open) # 0 /\ Len(open) # 1
      /\ Len(open) > 1 <=> Len(open) >= 2
      /\ Len(open) >= 3 <=> Len(open) >= 2 /\ Len(open) # 2
      /\ Len(open) > 2 <=> Len(open) >= 3
      /\ Len(open) < 3 <=> ~(Len(open) >= 3)
  <2>1. \A n \in Nat :
          /\ ~(n = 0 /\ n = 1) /\ ~(n = 0 /\ n = 2) /\ ~(n = 1 /\ n = 2)
          /\ (n >= 1 <=> n # 0) /\ (n >= 2 <=> n # 0 /\ n # 1) /\ (n > 1 <=> n >= 2)
          /\ (n >= 3 <=> n >= 2 /\ n # 2) /\ (n > 2 <=> n >= 3) /\ (n < 3 <=> ~(n >= 3))
    OBVIOUS
  <2> QED  BY <2>1, Zenon
<1>3. ASSUME Page
      PROVE  /\ InTransactions <=> Len(open) >= 2 /\ open[1].key = "txs"
             /\ InTransaction <=> InTransactions /\ Len(open) > 2
             /\ Len(open) = 0 => ~array
             /\ Len(open) = 1 => array /\ Top.key = "txs" /\ ~said.txs
             /\ Len(open) = 2 => ~array
  BY <1>0, <1>1, Where, <1>2, <1>3, Zenon DEF Page
<1>4. ASSUME Transactions
      PROVE  /\ InTransactions <=> Len(open) >= 1
             /\ InTransaction <=> Len(open) > 1
             /\ Len(open) = 0 => array
             /\ Len(open) = 1 => ~array
  BY <1>0, <1>1, Where, <1>2, <1>4, Zenon DEF Transactions
<1>5. ASSUME Block
      PROVE  /\ ~InTransactions /\ ~InTransaction
             /\ Len(open) = 0 => ~array
             /\ Len(open) # 0 => Len(open) = 1 /\ array /\ Top.key = "txs"
  BY <1>0, <1>1, Where, <1>2, <1>5, Zenon DEF Block
<1>6. ASSUME Notification
      PROVE  /\ ~InTransactions
             /\ Len(open) < 3 => ~array
             /\ Len(open) = 1 => Top.key = "payload"
             /\ Len(open) = 2 => Top.key \in {"transaction", "block"}
             /\ Len(open) >= 3 => Within("transaction") \/ (Within("block") /\ array /\ Top.key = "txs")
  BY <1>0, <1>1, Where, <1>2, <1>6, Zenon DEF Notification
<1> QED  BY <1>3, <1>4, <1>5, <1>6, Zenon

\* The result is still what was said when neither changes, ...
LEMMA ContentKept ==
  ASSUME NEW s, NEW d, NEW t, NEW e, ContentInv(s, d),
         t.transactions = s.transactions, t.wild = s.wild, t.hasNext = s.hasNext, t.block = s.block,
         e.valued = d.valued, e.next = d.next, e.block = d.block
  PROVE  ContentInv(t, e)
BY Zenon DEF ContentInv

\* ... and when a transaction begins: it has no value yet.
LEMMA ContentBegan ==
  ASSUME NEW s \in Result, NEW d \in Said, NEW t \in Result, NEW e, ContentInv(s, d),
         Began(s, t), t.wild = s.wild, t.hasNext = s.hasNext, t.block = s.block,
         e.valued = d.valued, e.next = d.next, e.block = d.block
  PROVE  ContentInv(t, e)
<1> DEFINE n == Len(s.transactions)
<1>1. s.transactions \in Seq(SUBSET Nat)  BY ResultTypes
<1>2. /\ n \in Nat /\ DOMAIN s.transactions = 1 .. n /\ DOMAIN t.transactions = 1 .. n + 1
      /\ \A i \in 1 .. n : t.transactions[i] = s.transactions[i]
      /\ t.transactions[n + 1] = {}
  BY <1>1 DEF Began
<1> HIDE DEF n
<1>3. \A i \in 1 .. n + 1 : i \in 1 .. n \/ i = n + 1  BY <1>2
<1>4. n + 1 \notin 1 .. n /\ 1 .. n \subseteq 1 .. n + 1  BY <1>2
<1>5. d.valued \subseteq 1 .. n  BY <1>2, Zenon DEF ContentInv
<1>6. \A i \in 1 .. n + 1 : t.transactions[i] = IF i \in d.valued THEN {i} ELSE {}
  <2> TAKE i \in 1 .. n + 1
  <2>1. CASE i \in 1 .. n
    BY <1>2, <2>1, Zenon DEF ContentInv
  <2>2. CASE i = n + 1
    BY <1>2, <1>4, <1>5, <2>2, Zenon
  <2> QED  BY <1>3, <2>1, <2>2
<1>7. e.valued \subseteq 1 .. n + 1  BY <1>4, <1>5, Zenon
<1> QED  BY <1>2, <1>6, <1>7, Zenon DEF ContentInv

\* What every step knows of the state it starts in.
LEMMA Here ==
  ASSUME ReadInv
  PROVE  /\ open \in Seq(Opened) /\ Len(open) \in Nat /\ ArrayCount(open) \in Nat
         /\ open = <<>> <=> Len(open) = 0
         /\ api \in Result /\ said \in Said /\ api.depth = Len(open)
         /\ KeyInv(open, api) /\ ParserInv(open, api, said) /\ ContentInv(api, said)
         /\ isFailure \/ Page \/ Transactions \/ Block \/ Notification
         /\ said.elements \in Nat /\ said.valued \in SUBSET Nat
         /\ said.next \in BOOLEAN /\ said.txs \in BOOLEAN /\ said.block \in BOOLEAN
<1>1. open \in Seq(Opened) /\ api \in Result /\ said \in Said /\ api.depth = Len(open)
  BY DEF ReadInv, DocumentInv, TypedInv
<1>2. Parser \in {"page", "transactions", "block", "notification"}
  BY ParsersAssumption DEF ReadInv, AnswerInv, Parser
<1>3. isFailure \/ Page \/ Transactions \/ Block \/ Notification
  BY <1>2, Zenon DEF Page, Transactions, Block, Notification
<1>4. Len(open) \in Nat /\ (open = <<>> <=> Len(open) = 0)  BY <1>1
<1>5. ArrayCount(open) \in Nat  BY <1>1, ArraysFinite
<1>6. /\ said.elements \in Nat /\ said.valued \in SUBSET Nat
      /\ said.next \in BOOLEAN /\ said.txs \in BOOLEAN /\ said.block \in BOOLEAN
  BY <1>1 DEF Said
<1> QED  BY <1>1, <1>3, <1>4, <1>5, <1>6, Zenon DEF ReadInv, DocumentInv

\* A value that begins, for each parser.
LEMMA BeginKeeps ==
  ASSUME ReadInv, NEW array \in BOOLEAN, Begin(array)
  PROVE  ReadInv'
<1> DEFINE n == Len(open)
           v == [array |-> array, key |-> NoKey]
           more == InTransactions /\ ~InTransaction /\ ~isFailure
<1>0. /\ open \in Seq(Opened) /\ n \in Nat /\ ArrayCount(open) \in Nat
      /\ open = <<>> <=> n = 0
      /\ api \in Result /\ said \in Said /\ api.depth = n
      /\ KeyInv(open, api) /\ ParserInv(open, api, said) /\ ContentInv(api, said)
      /\ isFailure \/ Page \/ Transactions \/ Block \/ Notification
      /\ said.elements \in Nat /\ said.valued \in SUBSET Nat
      /\ said.next \in BOOLEAN /\ said.txs \in BOOLEAN /\ said.block \in BOOLEAN
  BY Here
<1>1. PICK o : open' = o  OBVIOUS
<1>2. PICK s : api' = s  OBVIOUS
<1>3. PICK d : said' = d  OBVIOUS
<1>4. /\ MayBegin(array) /\ (n = 0 \/ Top.array \/ Top.key # NoKey)
      /\ request' = request /\ reading' = reading /\ answer' = answer
      /\ o = Append(open, v)
  BY <1>0, <1>1, Zenon DEF Begin, ValueExpected
<1>5. s = IF array THEN StartArray(api) ELSE StartObject(api)
  BY <1>2, Zenon DEF Begin
<1>6. /\ d \in Said /\ d.valued = said.valued /\ d.next = said.next /\ d.block = said.block
      /\ d.elements = IF more THEN said.elements + 1 ELSE said.elements
      /\ d.txs <=> said.txs \/ (Parser = "page" /\ n = 1)
  <2>1. d = [said EXCEPT !.elements = IF more THEN said.elements + 1 ELSE said.elements,
                         !.txs = said.txs \/ (Parser = "page" /\ n = 1)]
    BY <1>3, Zenon DEF Begin
  <2>2. (IF more THEN said.elements + 1 ELSE said.elements) \in Nat  BY <1>0
  <2>3. (said.txs \/ (Parser = "page" /\ n = 1)) \in BOOLEAN  OBVIOUS
  <2> HIDE DEF n, more
  <2>4. d \in Said  BY <1>0, <2>1, <2>2, <2>3, Zenon DEF Said
  <2>5. DOMAIN said = {"elements", "valued", "next", "txs", "block"}  BY <1>0, Zenon DEF Said
  <2> QED  BY <2>1, <2>4, <2>5, Zenon
<1>7. /\ o \in Seq(Opened) /\ Len(o) = n + 1 /\ DOMAIN o = 1 .. n + 1 /\ o[n + 1] = v
      /\ \A i \in 1 .. n : o[i] = open[i]
      /\ ArrayCount(o) = ArrayCount(open) + (IF array THEN 1 ELSE 0)
  <2>1. v \in Opened /\ v.array = array  BY DEF Opened
  <2> HIDE DEF v
  <2>2. ArrayCount(o) = ArrayCount(open) + (IF array THEN 1 ELSE 0)
    BY <1>0, <1>4, <2>1, ArraysPushed
  <2> QED  BY <1>0, <1>4, <2>1, <2>2
<1>8. v.array = array /\ v.key = NoKey  OBVIOUS
<1> HIDE DEF v
<1>9. KeyInv(o, s)
  <2>1. \A i \in 1 .. n + 1 : i \in 1 .. n \/ i = n + 1  BY <1>0
  <2>2. DOMAIN open = 1 .. n  BY <1>0
  <2>3. \A i \in DOMAIN o : o[i].array => o[i].key = NoKey
    BY <1>0, <1>7, <1>8, <2>1, <2>2, Zenon DEF KeyInv
  <2> QED  BY <1>7, <1>8, <2>3, Zenon DEF KeyInv
<1>10. s.depth = n + 1
  BY <1>0, <1>5, StartArrayStep, StartObjectStep
<1> DEFINE Ends == s \in Result /\ ParserInv(o, s, d) /\ ContentInv(s, d)
<1>a. ASSUME NEW F, Only(F, api, s), F \cap {"transactions", "wild", "hasNext", "block"} = {}
      PROVE  s \in Result /\ ContentInv(s, d)
  <2>1. s \in Result  BY <1>a, Zenon DEF Only
  <2>2. /\ s.transactions = api.transactions /\ s.wild = api.wild
        /\ s.hasNext = api.hasNext /\ s.block = api.block
    BY <1>a, OnlyFields, Zenon
  <2> QED  BY <1>0, <1>6, <2>1, <2>2, ContentKept, Zenon
<1> HIDE DEF n, more
<1>11. ASSUME isFailure PROVE Ends
  <2>1. Only({"depth"}, api, s)  BY <1>0, <1>5, <1>11, StartArrayStep, StartObjectStep
  <2>2. s.transactions = api.transactions  BY <2>1, OnlyFields
  <2>3. FailureInv(api, said)  BY <1>0, <1>11, Zenon DEF ParserInv
  <2>4. d.elements = said.elements  BY <1>6, <1>11, Zenon DEF more
  <2>5. FailureInv(s, d)  BY <1>6, <2>2, <2>3, <2>4, Zenon DEF FailureInv
  <2>6. ParserInv(o, s, d)
    BY <1>11, <2>5, Zenon DEF ParserInv, Page, Transactions, Block, Notification
  <2>7. s \in Result /\ ContentInv(s, d)  BY <1>a, <2>1
  <2> QED  BY <2>6, <2>7
<1>12. ASSUME Page PROVE Ends
  <2>1. PageInv(open, api, said)  BY <1>0, <1>12, Zenon DEF ParserInv
  <2>2. /\ InTransactions <=> n >= 2 /\ open[1].key = "txs"
        /\ InTransaction <=> InTransactions /\ n > 2
        /\ n = 0 => ~array
        /\ n = 1 => array /\ Top.key = "txs" /\ ~said.txs
        /\ n = 2 => ~array
    BY <1>0, <1>4, <1>12, Places, Zenon DEF n
  <2>3. more <=> n = 2
    <3>1. ~isFailure  BY <1>12 DEF Page
    <3>2. n >= 2 => open[1].key = "txs"  BY <2>1 DEF PageInv, n
    <3> QED  BY <1>0, <2>2, <3>1, <3>2 DEF more
  <2>4. ASSUME PageInv(o, s, d) PROVE ParserInv(o, s, d)
    BY <1>12, <2>4, SMT DEF ParserInv, Page, Transactions, Block, Notification
  <2>5. CASE n = 0
    <3>1. ~array /\ api.bulkDepth = 0 /\ api.objectDepth = 0 /\ (~said.txs => api.arrayDepth = 0)
          /\ CountRead(api, said)
      BY <1>0, <2>1, <2>2, <2>5, SMT DEF PageInv, n
    <3>2. Only({"depth"}, api, s)  BY <1>0, <1>5, <1>12, <3>1, StartObjectStep
    <3>3. /\ s.bulkDepth = 0 /\ s.objectDepth = 0 /\ s.arrayDepth = api.arrayDepth
          /\ s.transaction = api.transaction /\ s.transactions = api.transactions
      BY <3>1, <3>2, OnlyFields
    <3>4. d.elements = said.elements /\ (~d.txs => ~said.txs)  BY <1>0, <1>6, <2>3, <2>5
    <3>5. CountRead(s, d)  BY <3>1, <3>3, <3>4 DEF CountRead
    <3>6. Len(o) = 1 /\ ~o[1].array  BY <1>7, <1>8, <2>5, <3>1
    <3>7. PageInv(o, s, d)  BY <3>1, <3>3, <3>4, <3>5, <3>6 DEF PageInv
    <3>8. s \in Result /\ ContentInv(s, d)  BY <1>a, <3>2
    <3> QED  BY <2>4, <3>7, <3>8
  <2>6. CASE n = 1
    <3>1. /\ array /\ ~open[1].array /\ open[1].key = "txs" /\ ~said.txs
          /\ api.bulkDepth = 0 /\ api.objectDepth = 0 /\ api.arrayDepth = 0 /\ CountRead(api, said)
      BY <1>0, <2>1, <2>2, <2>6 DEF PageInv, n, Top
    <3>2. api.lastKey = "txs"
      <4>1. Top.key # NoKey /\ Top = open[Len(open)]  BY <2>2, <2>6 DEF NoKey, Top
      <4> QED  BY <1>0, <2>2, <2>6, <4>1, Zenon DEF KeyInv, Top
    <3>3. ArrayCount(open) = 0
      <4>1. \A i \in 1 .. 1 : ~open[i].array  BY <3>1
      <4>2. 1 \in Nat /\ 1 <= Len(open)  BY <2>6 DEF n
      <4>3. ArrayCount(open) <= Len(open) - 1  BY <1>0, <4>1, <4>2, ArraysBounded
      <4> QED  BY <1>0, <2>6, <4>3 DEF n
    <3>4. /\ Only({"depth", "bulkDepth", "arrayDepth"}, api, s)
          /\ s.bulkDepth = 1 /\ s.arrayDepth = 1
      BY <1>0, <1>5, <1>12, <3>1, <3>2, StartArrayStep
    <3>5. s.objectDepth = 0 /\ s.transaction = api.transaction /\ s.transactions = api.transactions
      BY <3>1, <3>4, OnlyFields
    <3>6. d.elements = said.elements /\ d.txs  BY <1>0, <1>6, <1>12, <2>3, <2>6 DEF Page
    <3>7. CountRead(s, d)  BY <3>1, <3>5, <3>6 DEF CountRead
    <3>8. /\ Len(o) = 2 /\ ~o[1].array /\ o[1].key = "txs" /\ o[2].array /\ ArrayCount(o) = 1
      <4>1. Len(o) = 2 /\ o[1] = open[1] /\ o[2] = v  BY <1>7, <2>6
      <4>2. ArrayCount(o) = 1  BY <1>7, <3>1, <3>3
      <4> QED  BY <1>8, <3>1, <4>1, <4>2, Zenon
    <3>9. PageInv(o, s, d)  BY <3>4, <3>5, <3>6, <3>7, <3>8 DEF PageInv
    <3>10. s \in Result /\ ContentInv(s, d)  BY <1>a, <3>4
    <3> QED  BY <2>4, <3>9, <3>10
  <2>7. CASE n = 2
    <3>1. /\ ~array /\ ~open[1].array /\ open[1].key = "txs" /\ open[2].array /\ said.txs
          /\ api.bulkDepth = ArrayCount(open) /\ api.arrayDepth = ArrayCount(open)
          /\ api.objectDepth = 1 - ArrayCount(open) /\ CountRead(api, said)
      BY <1>0, <2>1, <2>2, <2>7 DEF PageInv, n
    <3>2. ArrayCount(open) = 1
      <4>1. \A i \in 1 .. 1 : ~open[i].array  BY <3>1
      <4>2. 1 \in Nat /\ 1 <= Len(open) /\ 2 \in Nat /\ 2 <= Len(open)  BY <2>7 DEF n
      <4>3. ArrayCount(open) <= Len(open) - 1  BY <1>0, <4>1, <4>2, ArraysBounded
      <4>4. ArrayCount(open) >= 1  BY <1>0, <3>1, <4>2, ArraysBounded
      <4> QED  BY <1>0, <2>7, <4>3, <4>4 DEF n
    <3>3. /\ Only({"depth", "objectDepth", "transactions", "transaction"}, api, s)
          /\ Began(api, s) /\ s.objectDepth = 1
      BY <1>0, <1>5, <1>12, <3>1, <3>2, StartObjectStep
    <3>4. /\ s.bulkDepth = 1 /\ s.arrayDepth = 1
          /\ s.wild = api.wild /\ s.hasNext = api.hasNext /\ s.block = api.block /\ s \in Result
      BY <3>1, <3>2, <3>3, OnlyFields DEF Only
    <3>5. d.elements = said.elements + 1 /\ d.txs  BY <1>0, <1>6, <2>3, <2>7, <3>1
    <3>6. CountRead(s, d)
      <4>1. api.transactions \in Seq(SUBSET Nat)  BY <1>0, ResultTypes
      <4> QED  BY <3>1, <3>3, <3>5, <4>1 DEF CountRead, Began
    <3>7. /\ Len(o) = 3 /\ ~o[1].array /\ o[1].key = "txs" /\ o[2].array /\ ArrayCount(o) = 1
      BY <1>7, <1>8, <2>7, <3>1, <3>2
    <3>8. PageInv(o, s, d)  BY <1>0, <3>3, <3>4, <3>5, <3>6, <3>7 DEF PageInv
    <3>9. ContentInv(s, d)  BY <1>0, <1>6, <3>3, <3>4, ContentBegan
    <3> QED  BY <2>4, <3>4, <3>8, <3>9
  <2>8. CASE n >= 3
    <3>1. /\ ~open[1].array /\ open[1].key = "txs" /\ open[2].array /\ said.txs
          /\ said.elements >= 1
          /\ api.bulkDepth = ArrayCount(open) /\ api.arrayDepth = ArrayCount(open)
          /\ api.objectDepth = n - ArrayCount(open) - 1 /\ CountRead(api, said)
      BY <1>0, <2>1, <2>8 DEF PageInv, n
    <3>2. ArrayCount(open) >= 1
      <4>1. 2 \in Nat /\ 2 <= Len(open)  BY <1>0, <2>8 DEF n
      <4> QED  BY <1>0, <3>1, <4>1, ArraysBounded
    <3>3. d.elements = said.elements /\ d.txs  BY <1>0, <1>6, <2>3, <2>8, <3>1
    <3>4. /\ Len(o) = n + 1 /\ ~o[1].array /\ o[1].key = "txs" /\ o[2].array
          /\ ArrayCount(o) = ArrayCount(open) + (IF array THEN 1 ELSE 0)
      BY <1>0, <1>7, <2>8, <3>1
    <3>5. CASE array
      <4>1. /\ Only({"depth", "bulkDepth", "arrayDepth"}, api, s)
            /\ s.bulkDepth = ArrayCount(open) + 1 /\ s.arrayDepth = ArrayCount(open) + 1
        BY <1>0, <1>5, <1>12, <3>1, <3>2, <3>5, StartArrayStep
      <4>2. /\ s.objectDepth = api.objectDepth
            /\ s.transaction = api.transaction /\ s.transactions = api.transactions
        BY <4>1, OnlyFields
      <4>3. CountRead(s, d)  BY <3>1, <3>3, <4>2 DEF CountRead
      <4>4. ArrayCount(o) = ArrayCount(open) + 1  BY <3>4, <3>5
      <4>5. PageInv(o, s, d)
        <5>1. ~(Len(o) < 2) /\ d.elements >= 1  BY <1>0, <2>8, <3>1, <3>3, <3>4
        <5>2. /\ s.bulkDepth = ArrayCount(o) /\ s.arrayDepth = ArrayCount(o)
              /\ s.objectDepth = Len(o) - ArrayCount(o) - 1
          BY <1>0, <3>1, <3>4, <4>1, <4>2, <4>4
        <5> QED  BY <3>3, <3>4, <4>3, <5>1, <5>2, Zenon DEF PageInv
      <4>6. s \in Result /\ ContentInv(s, d)  BY <1>a, <4>1
      <4> QED  BY <2>4, <4>5, <4>6
    <3>6. CASE ~array
      <4>1. ~(api.arrayDepth = 1 /\ api.objectDepth = 0)  BY <1>0, <2>8, <3>1
      <4>2. api.bulkDepth > 0  BY <1>0, <3>1, <3>2
      <4>3. Only({"depth", "objectDepth"}, api, s) /\ s.objectDepth = api.objectDepth + 1
        BY <1>0, <1>5, <1>12, <3>6, <4>1, <4>2, StartObjectStep
      <4>4. /\ s.bulkDepth = api.bulkDepth /\ s.arrayDepth = api.arrayDepth
            /\ s.transaction = api.transaction /\ s.transactions = api.transactions
        BY <4>3, OnlyFields
      <4>5. CountRead(s, d)  BY <3>1, <3>3, <4>4 DEF CountRead
      <4>6. ArrayCount(o) = ArrayCount(open)  BY <1>0, <3>4, <3>6
      <4>7. PageInv(o, s, d)
        BY <1>0, <2>8, <3>1, <3>3, <3>4, <4>3, <4>4, <4>5, <4>6 DEF PageInv
      <4>8. s \in Result /\ ContentInv(s, d)  BY <1>a, <4>3
      <4> QED  BY <2>4, <4>7, <4>8
    <3> QED  BY <3>5, <3>6
  <2> QED  BY <1>0, <2>5, <2>6, <2>7, <2>8
<1>13. ASSUME Transactions PROVE Ends
  <2>1. TransactionsInv(open, api, said)  BY <1>0, <1>13, Zenon DEF ParserInv
  <2>2. /\ InTransactions <=> n >= 1
        /\ InTransaction <=> n > 1
        /\ n = 0 => array
        /\ n = 1 => ~array
    BY <1>0, <1>4, <1>13, Places, Zenon DEF n
  <2>3. more <=> n = 1
    <3>1. ~isFailure  BY <1>13 DEF Transactions
    <3> QED  BY <1>0, <2>2, <3>1 DEF more
  <2>4. ASSUME TransactionsInv(o, s, d) PROVE ParserInv(o, s, d)
    BY <1>13, <2>4, SMT DEF ParserInv, Page, Transactions, Block, Notification
  <2>5. /\ n >= 1 => open[1].array
        /\ n >= 2 => said.elements >= 1
        /\ api.arrayDepth = ArrayCount(open) /\ api.objectDepth = n - ArrayCount(open)
        /\ CountRead(api, said)
    BY <2>1 DEF TransactionsInv, n
  <2>6. Len(o) >= 1 => o[1].array
    <3>1. CASE n = 0
      <4>1. o[1] = v  BY <1>7, <3>1
      <4> QED  BY <1>8, <2>2, <3>1, <4>1, Zenon
    <3>2. CASE n >= 1
      <4>1. o[1] = open[1]  BY <1>0, <1>7, <3>2
      <4> QED  BY <2>5, <3>2, <4>1, Zenon
    <3> QED  BY <1>0, <3>1, <3>2
  <2>7. CASE array
    <3>1. /\ Only({"depth", "arrayDepth"}, api, s) /\ s.arrayDepth = ArrayCount(open) + 1
      BY <1>0, <1>5, <1>13, <2>5, <2>7, StartArrayStep
    <3>2. /\ s.objectDepth = api.objectDepth
          /\ s.transaction = api.transaction /\ s.transactions = api.transactions
      BY <3>1, OnlyFields
    <3>3. d.elements = said.elements  BY <1>6, <2>2, <2>3, <2>7
    <3>4. CountRead(s, d)  BY <2>5, <3>2, <3>3 DEF CountRead
    <3>5. ArrayCount(o) = ArrayCount(open) + 1  BY <1>7, <2>7
    <3>6. /\ s.arrayDepth = ArrayCount(o) /\ s.objectDepth = Len(o) - ArrayCount(o)
          /\ Len(o) >= 2 => d.elements >= 1
      <4>1. n # 1  BY <2>2, <2>7, Zenon
      <4>2. s.arrayDepth = ArrayCount(o) /\ s.objectDepth = Len(o) - ArrayCount(o)
        BY <1>0, <1>7, <2>5, <3>1, <3>2, <3>5
      <4>3. Len(o) >= 2 => n >= 2  BY <1>0, <1>7, <4>1
      <4> QED  BY <2>5, <3>3, <4>2, <4>3, Zenon
    <3>7. TransactionsInv(o, s, d)  BY <2>6, <3>4, <3>6, Zenon DEF TransactionsInv
    <3>8. s \in Result /\ ContentInv(s, d)  BY <1>a, <3>1
    <3> QED  BY <2>4, <3>7, <3>8
  <2>8. CASE ~array /\ n = 1
    <3>1. ArrayCount(open) = 1
      <4>1. 1 \in Nat /\ 1 <= Len(open) /\ 0 \in Nat /\ 0 <= Len(open)  BY <2>8 DEF n
      <4>2. ArrayCount(open) >= 1  BY <1>0, <2>5, <2>8, <4>1, ArraysBounded
      <4>3. \A i \in 1 .. 0 : ~open[i].array  OBVIOUS
      <4>4. ArrayCount(open) <= Len(open) - 0  BY <1>0, <4>1, <4>3, ArraysBounded
      <4> QED  BY <1>0, <2>8, <4>2, <4>4 DEF n
    <3>2. api.arrayDepth = 1 /\ api.objectDepth = 0  BY <2>5, <2>8, <3>1
    <3>3. /\ Only({"depth", "objectDepth", "transactions", "transaction"}, api, s)
          /\ Began(api, s) /\ s.objectDepth = 1
      BY <1>0, <1>5, <1>13, <2>8, <3>2, StartObjectStep
    <3>4. /\ s.arrayDepth = 1
          /\ s.wild = api.wild /\ s.hasNext = api.hasNext /\ s.block = api.block /\ s \in Result
      BY <3>2, <3>3, OnlyFields DEF Only
    <3>5. d.elements = said.elements + 1  BY <1>6, <2>3, <2>8
    <3>6. CountRead(s, d)
      <4>1. api.transactions \in Seq(SUBSET Nat)  BY <1>0, ResultTypes
      <4> QED  BY <2>5, <3>3, <3>5, <4>1 DEF CountRead, Began
    <3>7. ArrayCount(o) = 1
      <4>1. ArrayCount(o) = ArrayCount(open)  BY <1>0, <1>7, <2>8
      <4> QED  BY <3>1, <4>1
    <3>8. /\ s.arrayDepth = ArrayCount(o) /\ s.objectDepth = Len(o) - ArrayCount(o)
          /\ d.elements >= 1
      BY <1>0, <1>7, <2>8, <3>3, <3>4, <3>5, <3>7
    <3>9. TransactionsInv(o, s, d)  BY <2>6, <3>6, <3>8, Zenon DEF TransactionsInv
    <3>10. ContentInv(s, d)  BY <1>0, <1>6, <3>3, <3>4, ContentBegan
    <3> QED  BY <2>4, <3>4, <3>9, <3>10
  <2>9. CASE ~array /\ n >= 2
    <3>1. ~(api.arrayDepth = 1 /\ api.objectDepth = 0)  BY <1>0, <2>5, <2>9
    <3>2. Only({"depth", "objectDepth"}, api, s) /\ s.objectDepth = api.objectDepth + 1
      BY <1>0, <1>5, <1>13, <2>9, <3>1, StartObjectStep
    <3>3. /\ s.arrayDepth = api.arrayDepth
          /\ s.transaction = api.transaction /\ s.transactions = api.transactions
      BY <3>2, OnlyFields
    <3>4. d.elements = said.elements  BY <1>6, <2>3, <2>9
    <3>5. CountRead(s, d)  BY <2>5, <3>3, <3>4 DEF CountRead
    <3>6. ArrayCount(o) = ArrayCount(open)  BY <1>0, <1>7, <2>9
    <3>7. /\ s.arrayDepth = ArrayCount(o) /\ s.objectDepth = Len(o) - ArrayCount(o)
          /\ d.elements >= 1
      BY <1>0, <1>7, <2>5, <2>9, <3>2, <3>3, <3>4, <3>6
    <3>8. TransactionsInv(o, s, d)  BY <2>6, <3>5, <3>7, Zenon DEF TransactionsInv
    <3>9. s \in Result /\ ContentInv(s, d)  BY <1>a, <3>2
    <3> QED  BY <2>4, <3>8, <3>9
  <2>10. ~array => n # 0  BY <2>2, Zenon
  <2> QED  BY <1>0, <2>7, <2>8, <2>9, <2>10
<1>14. ASSUME Block PROVE Ends
  <2>1. BlockInv(open, api)  BY <1>0, <1>14, Zenon DEF ParserInv
  <2>2. (n = 0 /\ ~array) \/ (n = 1 /\ array /\ Top.key = "txs")
    BY <1>0, <1>4, <1>14, Places, Zenon DEF n
  <2>3. Only({"depth"}, api, s)  BY <1>0, <1>5, <1>14, StartArrayStep, StartObjectStep
  <2>4. s.lastKey = api.lastKey /\ s.transactions = api.transactions  BY <2>3, OnlyFields
  <2>5. s.transactions = <<>>  BY <2>1, <2>4 DEF BlockInv
  <2>6. BlockInv(o, s)
    <3>1. CASE n = 0 /\ ~array
      <4>1. Len(o) = 1 /\ o[1] = v  BY <1>7, <3>1
      <4>2. ~(Len(o) >= 2)  BY <4>1
      <4> QED  BY <1>8, <2>5, <3>1, <4>1, <4>2, Zenon DEF BlockInv
    <3>2. CASE n = 1 /\ array /\ Top.key = "txs"
      <4>1. Len(o) = 2 /\ o[1] = open[1] /\ o[2] = v  BY <1>7, <3>2
      <4>2. ~open[1].array  BY <2>1, <3>2 DEF BlockInv, n
      <4>3. api.lastKey = "txs"
        <5>1. "txs" # NoKey /\ open # <<>>  BY <1>0, <3>2 DEF NoKey
        <5> QED  BY <1>0, <3>2, <5>1, Zenon DEF KeyInv, Top
      <4> QED  BY <1>8, <2>4, <2>5, <3>2, <4>1, <4>2, <4>3, Zenon DEF BlockInv
    <3> QED  BY <2>2, <3>1, <3>2
  <2>7. ParserInv(o, s, d)
    BY <1>14, <2>6, SMT DEF ParserInv, Page, Transactions, Block, Notification
  <2>8. s \in Result /\ ContentInv(s, d)  BY <1>a, <2>3
  <2> QED  BY <2>7, <2>8
<1>15. ASSUME Notification PROVE Ends
  <2>1. NotificationInv(open, api)  BY <1>0, <1>15, Zenon DEF ParserInv
  <2>2. /\ n < 3 => ~array
        /\ n = 1 => Top.key = "payload"
        /\ n = 2 => Top.key \in {"transaction", "block"}
        /\ n >= 3 => Within("transaction") \/ (Within("block") /\ array /\ Top.key = "txs")
    BY <1>0, <1>4, <1>15, Places, Zenon DEF n
  <2>3. ASSUME NotificationInv(o, s) PROVE ParserInv(o, s, d)
    BY <1>15, <2>3, SMT DEF ParserInv, Page, Transactions, Block, Notification
  <2>4. /\ \A i \in 1 .. 3 : i <= n => ~open[i].array
        /\ n >= 2 => open[1].key = "payload"
        /\ n >= 3 => /\ open[2].key \in {"transaction", "block"} /\ api.currentObject = open[2].key
                     /\ open[2].key = "transaction" => api.transaction = 1
        /\ n < 3 => api.currentObject = NoKey
        /\ n >= 4 /\ open[2].key = "block" => n = 4 /\ open[4].array
        /\ api.objectDepth = n - ArrayCount(open)
        /\ Len(api.transactions) = 1
    BY <2>1 DEF NotificationInv, n
  <2>5. \A i \in 1 .. 3 : i <= Len(o) => ~o[i].array
    <3> TAKE i \in 1 .. 3
    <3> HAVE i <= Len(o)
    <3>1. CASE i <= n
      <4>1. o[i] = open[i]  BY <1>0, <1>7, <3>1
      <4> QED  BY <2>4, <3>1, <4>1
    <3>2. CASE i = n + 1
      <4>1. o[i] = v /\ n < 3  BY <1>0, <1>7, <3>2
      <4> QED  BY <1>8, <2>2, <4>1, Zenon
    <3> QED  BY <1>0, <1>7, <3>1, <3>2
  <2>6. Len(o) >= 2 => o[1].key = "payload"
    <3>1. CASE n = 1
      <4>1. o[1] = Top  BY <1>7, <3>1 DEF Top, n
      <4> QED  BY <2>2, <3>1, <4>1
    <3>2. CASE n >= 2
      <4>1. o[1] = open[1]  BY <1>0, <1>7, <3>2
      <4> QED  BY <2>4, <3>2, <4>1
    <3>3. n = 0 => ~(Len(o) >= 2)  BY <1>7
    <3> QED  BY <1>0, <3>1, <3>2, <3>3
  <2>7. n >= 2 => o[2] = open[2]  BY <1>0, <1>7
  <2>8. CASE array
    <3>1. n >= 3  BY <1>0, <2>2, <2>8
    <3>2. Only({"depth"}, api, s)  BY <1>0, <1>5, <1>15, <2>8, StartArrayStep
    <3>3. /\ s.lastKey = api.lastKey /\ s.objectDepth = api.objectDepth
          /\ s.currentObject = api.currentObject
          /\ s.transaction = api.transaction /\ s.transactions = api.transactions
      BY <3>2, OnlyFields
    <3>4. /\ o[2].key \in {"transaction", "block"} /\ s.currentObject = o[2].key
          /\ o[2].key = "transaction" => s.transaction = 1
      BY <1>0, <2>4, <2>7, <3>1, <3>3
    <3>5. o[2].key = "block" => Len(o) = 4 /\ o[4].array /\ s.lastKey = "txs"
      <4> SUFFICES ASSUME o[2].key = "block" PROVE Len(o) = 4 /\ o[4].array /\ s.lastKey = "txs"
        OBVIOUS
      <4>1. open[2].key = "block"  BY <1>0, <2>7, <3>1
      <4>2. Top.key = "txs"  BY <2>2, <3>1, <4>1 DEF Within
      <4>3. "txs" # NoKey /\ open # <<>> /\ Len(open) \in DOMAIN open  BY <1>0, <3>1 DEF NoKey, n
      <4>4. api.lastKey = "txs" /\ ~Top.array  BY <1>0, <4>2, <4>3, Zenon DEF KeyInv, Top
      <4>5. ~(n >= 4)
        <5>1. n = 4 => Top = open[4]  BY DEF n, Top
        <5> QED  BY <2>4, <4>1, <4>4, <5>1, Zenon
      <4>6. n = 3  BY <1>0, <3>1, <4>5
      <4>7. Len(o) = 4 /\ o[4] = v  BY <1>7, <4>6
      <4> QED  BY <1>8, <2>8, <3>3, <4>4, <4>7, Zenon
    <3>6. s.objectDepth = Len(o) - ArrayCount(o) /\ ~(Len(o) < 3) /\ Len(s.transactions) = 1
      <4>1. ArrayCount(o) = ArrayCount(open) + 1  BY <1>7, <2>8
      <4>2. Len(o) = n + 1 /\ ArrayCount(open) \in Nat /\ n \in Nat  BY <1>0, <1>7
      <4>3. s.objectDepth = n - ArrayCount(open) /\ Len(s.transactions) = 1  BY <2>4, <3>3
      <4> QED  BY <3>1, <4>1, <4>2, <4>3
    <3>7. NotificationInv(o, s)  BY <2>5, <2>6, <3>4, <3>5, <3>6, Zenon DEF NotificationInv
    <3>8. s \in Result /\ ContentInv(s, d)  BY <1>a, <3>2
    <3> QED  BY <2>3, <3>7, <3>8
  <2>9. CASE ~array
    <3> DEFINE current == IF api.objectDepth = 2 THEN api.lastKey ELSE api.currentObject
    <3>1. /\ Only({"depth", "objectDepth", "currentObject", "transaction"}, api, s)
          /\ s.objectDepth = api.objectDepth + 1
          /\ s.currentObject = current
          /\ s.transaction = IF current = "transaction" THEN 1 ELSE api.transaction
      BY <1>0, <1>5, <1>15, <2>9, StartObjectStep
    <3>2. s.transactions = api.transactions /\ s.lastKey = api.lastKey  BY <3>1, OnlyFields
    <3>3. ArrayCount(o) = ArrayCount(open)  BY <1>0, <1>7, <2>9
    <3>4. ASSUME NEW m \in Nat, m <= n, m <= 3
          PROVE  ArrayCount(open) <= n - m
      <4>1. \A i \in 1 .. m : ~open[i].array  BY <1>0, <2>4, <3>4
      <4> QED  BY <1>0, <3>4, <4>1, ArraysBounded DEF n
    <3>5. s.objectDepth = Len(o) - ArrayCount(o) /\ Len(s.transactions) = 1
      BY <1>0, <1>7, <2>4, <3>1, <3>2, <3>3
    <3>6. n < 2 => api.objectDepth # 2  BY <1>0, <2>4
    <3>7. n = 2 => api.objectDepth = 2
      <4>1. n = 2 => ArrayCount(open) <= 0  BY <3>4
      <4> QED  BY <1>0, <2>4, <4>1
    <3>8. n >= 3 => api.objectDepth # 2
      <4>1. n >= 3 => ArrayCount(open) <= n - 3  BY <3>4
      <4> QED  BY <1>0, <2>4, <4>1
    <3>9. Len(o) < 3 => s.currentObject = NoKey
      <4>1. Len(o) < 3 => n < 2 /\ n < 3  BY <1>0, <1>7
      <4> QED  BY <2>4, <3>1, <3>6, <4>1
    <3>10. Len(o) >= 3 => /\ o[2].key \in {"transaction", "block"} /\ s.currentObject = o[2].key
                          /\ o[2].key = "transaction" => s.transaction = 1
      <4>1. CASE n = 2
        <5>1. Top = open[2] /\ o[2] = open[2]  BY <2>7, <4>1 DEF Top, n
        <5>2. Top.key \in {"transaction", "block"}  BY <2>2, <4>1
        <5>3. Top.key # NoKey  BY <5>2 DEF NoKey
        <5>4. open # <<>>  BY <1>0, <4>1
        <5>5. api.lastKey = Top.key  BY <1>0, <5>3, <5>4, Zenon DEF KeyInv, Top
        <5> QED  BY <3>1, <3>7, <4>1, <5>1, <5>2, <5>5
      <4>2. CASE n >= 3
        <5>1. /\ open[2].key \in {"transaction", "block"} /\ current = open[2].key
              /\ open[2].key = "transaction" => api.transaction = 1
          BY <2>4, <3>8, <4>2
        <5>2. o[2] = open[2]  BY <1>0, <2>7, <4>2
        <5> HIDE DEF current
        <5> QED  BY <3>1, <5>1, <5>2
      <4>3. n < 2 => ~(Len(o) >= 3)  BY <1>0, <1>7
      <4> QED  BY <1>0, <4>1, <4>2, <4>3
    <3>11. ~(Len(o) >= 4 /\ o[2].key = "block")
      <4> SUFFICES ASSUME Len(o) >= 4, o[2].key = "block" PROVE FALSE
        OBVIOUS
      <4>1. n >= 3 /\ open[2].key = "block"  BY <1>0, <1>7, <2>7
      <4>2. ~Within("transaction")  BY <4>1 DEF Within
      <4> QED  BY <2>2, <2>9, <4>1, <4>2, Zenon
    <3>12. NotificationInv(o, s)
      BY <2>5, <2>6, <3>5, <3>9, <3>10, <3>11, Zenon DEF NotificationInv
    <3>13. s \in Result /\ ContentInv(s, d)  BY <1>a, <3>1
    <3> QED  BY <2>3, <3>12, <3>13
  <2> QED  BY <2>8, <2>9
<1>16. Ends  BY <1>0, <1>11, <1>12, <1>13, <1>14, <1>15
<1>17. DocumentInv(o, s, d)  BY <1>6, <1>7, <1>9, <1>10, <1>16 DEF DocumentInv, TypedInv
<1>18. DocumentInv(open, api, said)'  BY <1>1, <1>2, <1>3, <1>4, <1>17, DocumentNext
<1>19. AnswerInv'  BY <1>4 DEF ReadInv, AnswerInv, isFailure
<1> QED  BY <1>18, <1>19 DEF ReadInv

\* A key: the counters are as they were.
LEMMA KeyKeeps ==
  ASSUME ReadInv, NEW key \in Keys, Key(key)
  PROVE  ReadInv'
<1> DEFINE n == Len(open)
           v == [open[n] EXCEPT !.key = key]
<1>0. /\ open \in Seq(Opened) /\ n \in Nat /\ ArrayCount(open) \in Nat
      /\ open = <<>> <=> n = 0
      /\ api \in Result /\ said \in Said /\ api.depth = n
      /\ KeyInv(open, api) /\ ParserInv(open, api, said) /\ ContentInv(api, said)
      /\ isFailure \/ Page \/ Transactions \/ Block \/ Notification
  BY Here
<1>1. PICK o : open' = o  OBVIOUS
<1>2. PICK s : api' = s  OBVIOUS
<1>3. PICK d : said' = d  OBVIOUS
<1>4. /\ open # <<>> /\ ~Top.array /\ Top.key = NoKey /\ key \in KeysHere
      /\ request' = request /\ reading' = reading /\ answer' = answer /\ d = said
      /\ o = [open EXCEPT ![n] = v] /\ s = [api EXCEPT !.lastKey = key]
  BY <1>1, <1>2, <1>3, Zenon DEF Key
<1>5. n >= 1 /\ n \in DOMAIN open /\ open[n] \in Opened  BY <1>0, <1>4
<1>6. v \in Opened /\ v.array = open[n].array /\ v.key = key /\ ~v.array
  BY <1>4, <1>5 DEF Opened, Top
<1> HIDE DEF v
<1>7. /\ o \in Seq(Opened) /\ Len(o) = n /\ DOMAIN o = 1 .. n /\ o[n] = v
      /\ \A i \in 1 .. n - 1 : o[i] = open[i]
      /\ ArrayCount(o) = ArrayCount(open)
  <2>1. open \in [1 .. n -> Opened] /\ n \in 1 .. n  BY <1>0, <1>5
  <2>2. o \in [1 .. n -> Opened]  BY <1>4, <1>6, <2>1
  <2>3. o \in Seq(Opened)  BY <2>2, <1>0, SeqDef
  <2>4. DOMAIN o = 1 .. n /\ o[n] = v /\ \A i \in 1 .. n \ {n} : o[i] = open[i]
    BY <1>4, <2>1
  <2>5. \A k \in Nat : \A i \in 1 .. k - 1 : i \in 1 .. k \ {k}  OBVIOUS
  <2>6. \A i \in 1 .. n - 1 : o[i] = open[i]  BY <1>0, <2>4, <2>5
  <2>7. \A i \in DOMAIN open : open[i].array = o[i].array
    <3>1. DOMAIN open = 1 .. n  BY <2>1
    <3> QED  BY <1>6, <2>4, <3>1, Zenon
  <2>8. ArrayCount(o) = ArrayCount(open)
    <3>1. DOMAIN open = DOMAIN o  BY <2>1, <2>4
    <3> QED  BY <2>7, <3>1, ArraysOfBrackets
  <2>9. Len(o) = n  BY <1>0, <2>3, <2>4
  <2> QED  BY <2>3, <2>4, <2>6, <2>8, <2>9
<1>8. Only({"lastKey"}, api, s) /\ s.lastKey = key /\ s \in Result
  <2>1. Only({"lastKey"}, api, s) /\ s.lastKey = key  BY <1>0, <1>4, FieldSteps, Zenon
  <2> QED  BY <2>1 DEF Only
<1>9. /\ s.depth = api.depth /\ s.bulkDepth = api.bulkDepth /\ s.arrayDepth = api.arrayDepth
      /\ s.objectDepth = api.objectDepth /\ s.currentObject = api.currentObject
      /\ s.transaction = api.transaction /\ s.transactions = api.transactions
      /\ s.hasNext = api.hasNext /\ s.block = api.block /\ s.wild = api.wild
  BY <1>8, OnlyFields
<1>10. KeyInv(o, s)
  <2>1. \A i \in 1 .. n : i \in 1 .. n - 1 \/ i = n  BY <1>0
  <2>2. DOMAIN open = 1 .. n  BY <1>0
  <2>3. \A i \in 1 .. n - 1 : o[i].array => o[i].key = NoKey
    <3>1. \A i \in 1 .. n - 1 : i \in 1 .. n  BY <1>0
    <3> QED  BY <1>0, <1>7, <2>2, <3>1, Zenon DEF KeyInv
  <2>4. \A i \in DOMAIN o : o[i].array => o[i].key = NoKey
    BY <1>6, <1>7, <2>1, <2>3, Zenon
  <2> QED  BY <1>6, <1>7, <1>8, <2>4, Zenon DEF KeyInv
<1>11. ContentInv(s, d)  BY <1>0, <1>4, <1>9, ContentKept
<1>12. /\ \A i \in 1 .. n : o[i].array = open[i].array
       /\ \A i \in 1 .. n - 1 : o[i].key = open[i].key
       /\ d = said
  <2>1. \A i \in 1 .. n : i \in 1 .. n - 1 \/ i = n  BY <1>0
  <2> QED  BY <1>4, <1>6, <1>7, <2>1, Zenon
<1>13. ParserInv(o, s, d)
  <2>1. ASSUME isFailure PROVE FailureInv(s, d)
    BY <1>0, <1>9, <1>12, <2>1, Zenon DEF ParserInv, FailureInv
  <2>2. ASSUME Page PROVE PageInv(o, s, d)
    <3>1. PageInv(open, api, said)  BY <1>0, <2>2, Zenon DEF ParserInv
    <3>2. /\ n >= 1 => o[1].array = open[1].array
          /\ n >= 2 => o[1].key = open[1].key /\ o[2].array = open[2].array
      BY <1>0, <1>12
    <3> QED  BY <1>7, <1>9, <1>12, <3>1, <3>2, Zenon DEF PageInv, CountRead
  <2>3. ASSUME Transactions PROVE TransactionsInv(o, s, d)
    <3>1. TransactionsInv(open, api, said)  BY <1>0, <2>3, Zenon DEF ParserInv
    <3>2. n >= 1 => o[1].array = open[1].array  BY <1>0, <1>12
    <3> QED  BY <1>7, <1>9, <1>12, <3>1, <3>2, Zenon DEF TransactionsInv, CountRead
  <2>4. ASSUME Block PROVE BlockInv(o, s)
    <3>1. BlockInv(open, api)  BY <1>0, <2>4, Zenon DEF ParserInv
    <3>2. ~(n >= 2)
      <4>1. n = 2 => Top = open[2]  BY DEF Top
      <4> QED  BY <1>4, <3>1, <4>1, Zenon DEF BlockInv
    <3>3. n >= 1 => o[1].array = open[1].array  BY <1>0, <1>12
    <3> QED  BY <1>7, <1>9, <3>1, <3>2, <3>3, Zenon DEF BlockInv
  <2>5. ASSUME Notification PROVE NotificationInv(o, s)
    <3>1. NotificationInv(open, api)  BY <1>0, <2>5, Zenon DEF ParserInv
    <3>2. /\ \A i \in 1 .. 3 : i <= n => o[i].array = open[i].array
          /\ n >= 2 => o[1].key = open[1].key
          /\ n >= 3 => o[2].key = open[2].key
          /\ n >= 4 => n >= 3
      BY <1>0, <1>12
    <3>3. ~(n >= 4 /\ open[2].key = "block")
      <4>1. n = 4 => Top = open[4]  BY DEF Top
      <4> QED  BY <1>4, <3>1, <4>1, Zenon DEF NotificationInv
    <3>4. /\ \A i \in 1 .. 3 : i <= n => ~open[i].array
          /\ n >= 2 => open[1].key = "payload"
          /\ n >= 3 => /\ open[2].key \in {"transaction", "block"} /\ api.currentObject = open[2].key
                       /\ open[2].key = "transaction" => api.transaction = 1
          /\ n < 3 => api.currentObject = NoKey
          /\ api.objectDepth = n - ArrayCount(open)
          /\ Len(api.transactions) = 1
      BY <3>1, Zenon DEF NotificationInv
    <3>5. \A i \in 1 .. 3 : i <= n => ~o[i].array  BY <3>2, <3>4, Zenon
    <3>6. ~(n >= 4 /\ o[2].key = "block")  BY <3>2, <3>3, Zenon
    <3> QED  BY <1>7, <1>9, <3>2, <3>4, <3>5, <3>6, Zenon DEF NotificationInv
  <2> QED  BY <2>1, <2>2, <2>3, <2>4, <2>5, Zenon DEF ParserInv
<1>14. DocumentInv(o, s, d)
  BY <1>0, <1>4, <1>7, <1>8, <1>9, <1>10, <1>11, <1>13 DEF DocumentInv, TypedInv
<1>15. DocumentInv(open, api, said)'  BY <1>1, <1>2, <1>3, <1>4, <1>14, DocumentNext
<1>16. AnswerInv'  BY <1>4 DEF ReadInv, AnswerInv, isFailure
<1> QED  BY <1>15, <1>16 DEF ReadInv

\* A bracket that ends a value, for each parser.
LEMMA EndKeeps ==
  ASSUME ReadInv, End
  PROVE  ReadInv'
<1> DEFINE n == Len(open)
           r == SubSeq(open, 1, n - 1)
<1>0. /\ open \in Seq(Opened) /\ n \in Nat /\ ArrayCount(open) \in Nat
      /\ open = <<>> <=> n = 0
      /\ api \in Result /\ said \in Said /\ api.depth = n
      /\ KeyInv(open, api) /\ ParserInv(open, api, said) /\ ContentInv(api, said)
      /\ isFailure \/ Page \/ Transactions \/ Block \/ Notification
  BY Here
<1>1. PICK o : open' = o  OBVIOUS
<1>2. PICK s : api' = s  OBVIOUS
<1>3. PICK d : said' = d  OBVIOUS
<1>4. /\ open # <<>> /\ request' = request /\ answer' = answer /\ d = said
      /\ o = ValueOver(r)
      /\ s = IF Top.array THEN EndArray(api) ELSE EndObject(api)
      /\ reading = "reading" /\ reading' = IF n = 1 THEN "done" ELSE "reading"
  BY <1>1, <1>2, <1>3, Zenon DEF End, Reading
<1>5. n >= 1 /\ n \in DOMAIN open /\ Top = open[n] /\ Top \in Opened
  <2>1. n >= 1 /\ n \in DOMAIN open /\ open[n] \in Opened  BY <1>0, <1>4
  <2> QED  BY <2>1 DEF Top
<1>6. /\ r \in Seq(Opened) /\ Len(r) = n - 1 /\ \A i \in 1 .. n - 1 : r[i] = open[i]
      /\ ArrayCount(open) = ArrayCount(r) + (IF Top.array THEN 1 ELSE 0)
  BY <1>0, <1>4, <1>5, ArraysPopped
<1> HIDE DEF r
<1>7. \A i \in DOMAIN r : r[i].array => r[i].key = NoKey
  <2>1. DOMAIN r = 1 .. n - 1 /\ DOMAIN open = 1 .. n  BY <1>0, <1>6
  <2>2. \A i \in 1 .. n - 1 : i \in 1 .. n  BY <1>0
  <2> QED  BY <1>0, <1>6, <2>1, <2>2, Zenon DEF KeyInv
<1>8. /\ o \in Seq(Opened) /\ Len(o) = n - 1 /\ DOMAIN o = 1 .. n - 1
      /\ \A i \in 1 .. n - 1 : o[i].array = open[i].array
      /\ \A i \in 1 .. n - 2 : o[i] = open[i]
      /\ o # <<>> => o[Len(o)].key = NoKey
      /\ ArrayCount(open) = ArrayCount(o) + (IF Top.array THEN 1 ELSE 0)
      /\ ArrayCount(o) \in Nat /\ ArrayCount(o) <= n - 1
  <2>1. /\ o \in Seq(Opened) /\ Len(o) = Len(r)
        /\ \A i \in 1 .. Len(r) : o[i].array = r[i].array
        /\ \A i \in 1 .. Len(r) - 1 : o[i] = r[i]
        /\ r # <<>> => o[Len(r)].key = NoKey
        /\ ArrayCount(o) = ArrayCount(r)
    BY <1>4, <1>6, <1>7, ValueOverFacts
  <2>2. Len(o) = n - 1 /\ DOMAIN o = 1 .. n - 1 /\ (o # <<>> => r # <<>>)
    BY <1>0, <1>5, <1>6, <2>1
  <2>3. \A i \in 1 .. n - 1 : o[i].array = open[i].array  BY <1>6, <2>1
  <2>4. \A i \in 1 .. n - 2 : o[i] = open[i]
    <3>1. \A i \in 1 .. n - 2 : i \in 1 .. Len(r) - 1 /\ i \in 1 .. n - 1  BY <1>0, <1>6
    <3> QED  BY <1>6, <2>1, <3>1, Zenon
  <2>5. ArrayCount(o) \in Nat /\ ArrayCount(o) <= n - 1
    <3>1. ArrayCount(o) \in Nat  BY <2>1, ArraysFinite
    <3>2. 0 \in Nat /\ 0 <= Len(o) /\ \A i \in 1 .. 0 : ~o[i].array  BY <2>1
    <3>3. ArrayCount(o) <= Len(o) - 0  BY <2>1, <3>2, ArraysBounded
    <3> QED  BY <1>0, <2>2, <3>1, <3>3
  <2> QED  BY <1>6, <2>1, <2>2, <2>3, <2>4, <2>5
<1>9. KeyInv(o, s)
  <2>1. \A i \in 1 .. n - 1 : i \in 1 .. n - 2 \/ i = n - 1  BY <1>0
  <2>2. DOMAIN open = 1 .. n /\ \A i \in 1 .. n - 2 : i \in 1 .. n  BY <1>0
  <2>3. \A i \in 1 .. n - 1 : o # <<>>  BY <1>8
  <2>4. \A i \in DOMAIN o : o[i].array => o[i].key = NoKey
    <3> TAKE i \in DOMAIN o
    <3>1. CASE i \in 1 .. n - 2
      <4>1. o[i] = open[i] /\ i \in DOMAIN open  BY <1>8, <2>2, <3>1
      <4> QED  BY <1>0, <4>1, Zenon DEF KeyInv
    <3>2. CASE i = n - 1
      <4>1. i = Len(o) /\ o # <<>>  BY <1>8, <2>3, <3>2
      <4> QED  BY <1>8, <4>1
    <3> QED  BY <1>8, <2>1, <3>1, <3>2
  <2> QED  BY <1>8, <2>4, Zenon DEF KeyInv
<1> DEFINE Ends == s \in Result /\ s.depth = n - 1 /\ ParserInv(o, s, d) /\ ContentInv(s, d)
<1>a. ASSUME NEW F, Only(F, api, s), F \cap {"transactions", "wild", "hasNext", "block"} = {}
      PROVE  s \in Result /\ ContentInv(s, d) /\ s.transactions = api.transactions
  <2>1. s \in Result  BY <1>a, Zenon DEF Only
  <2>2. /\ s.transactions = api.transactions /\ s.wild = api.wild
        /\ s.hasNext = api.hasNext /\ s.block = api.block
    BY <1>a, OnlyFields, Zenon
  <2> QED  BY <1>0, <1>4, <2>1, <2>2, ContentKept, Zenon
<1> HIDE DEF n
<1>11. ASSUME isFailure PROVE Ends
  <2>0. ~Transactions /\ ~Page /\ ~Notification  BY <1>11 DEF Transactions, Page, Notification
  <2>1. Only({"depth"}, api, s) /\ s.depth = n - 1
    BY <1>0, <1>4, <1>5, <1>11, <2>0, EndArrayStep, EndObjectStep
  <2>2. s \in Result /\ ContentInv(s, d) /\ s.transactions = api.transactions  BY <1>a, <2>1
  <2>3. FailureInv(api, said)  BY <1>0, <1>11, Zenon DEF ParserInv
  <2>4. FailureInv(s, d)  BY <1>4, <2>2, <2>3, Zenon DEF FailureInv
  <2>5. ParserInv(o, s, d)
    BY <1>11, <2>4, Zenon DEF ParserInv, Page, Transactions, Block, Notification
  <2> QED  BY <2>1, <2>2, <2>5
<1>12. ASSUME Page PROVE Ends
  <2>1. PageInv(open, api, said)  BY <1>0, <1>12, Zenon DEF ParserInv
  <2>2. ~isFailure /\ ~Transactions /\ ~Block /\ ~Notification
    BY <1>12, SMT DEF Page, Transactions, Block, Notification
  <2>3. ASSUME PageInv(o, s, d) PROVE ParserInv(o, s, d)
    BY <2>2, <2>3, Zenon DEF ParserInv
  <2>4. /\ ~open[1].array
        /\ n >= 2 => /\ open[1].key = "txs" /\ open[2].array /\ said.txs
                     /\ api.bulkDepth = ArrayCount(open) /\ api.arrayDepth = ArrayCount(open)
                     /\ api.objectDepth = n - ArrayCount(open) - 1
        /\ n < 2 => api.bulkDepth = 0 /\ api.objectDepth = 0
        /\ n >= 3 => said.elements >= 1
        /\ ~said.txs => api.arrayDepth = 0
        /\ CountRead(api, said)
    BY <1>5, <2>1 DEF PageInv, n
  <2>5. Len(o) >= 1 => ~o[1].array
    <3>1. Len(o) >= 1 => 1 \in 1 .. n - 1  BY <1>0, <1>8
    <3> QED  BY <1>8, <2>4, <3>1, Zenon
  <2>6. CASE n = 1
    <3>1. ~Top.array /\ api.bulkDepth = 0 /\ api.objectDepth = 0  BY <1>5, <2>4, <2>6
    <3>2. Only({"depth"}, api, s) /\ s.depth = n - 1
      BY <1>0, <1>4, <1>5, <1>12, <2>2, <3>1, EndObjectStep
    <3>3. /\ s.bulkDepth = 0 /\ s.objectDepth = 0 /\ s.arrayDepth = api.arrayDepth
          /\ s.transaction = api.transaction
      BY <3>1, <3>2, OnlyFields
    <3>4. s \in Result /\ ContentInv(s, d) /\ s.transactions = api.transactions  BY <1>a, <3>2
    <3>5. CountRead(s, d)  BY <1>4, <2>4, <3>3, <3>4 DEF CountRead
    <3>6. ~(Len(o) >= 2) /\ ~(Len(o) >= 3)  BY <1>8, <2>6
    <3>7. PageInv(o, s, d)  BY <1>4, <2>4, <2>5, <3>3, <3>5, <3>6, Zenon DEF PageInv
    <3> QED  BY <2>3, <3>2, <3>4, <3>7
  <2>7. CASE n = 2
    <3>1. /\ Top.array /\ said.txs /\ api.bulkDepth = ArrayCount(open)
          /\ api.objectDepth = 1 - ArrayCount(open)
      BY <1>0, <1>5, <2>4, <2>7
    <3>2. ArrayCount(open) = 1
      <4>1. \A i \in 1 .. 1 : ~open[i].array  BY <2>4
      <4>2. 1 \in Nat /\ 1 <= Len(open) /\ 2 \in Nat /\ 2 <= Len(open) /\ open[2].array
        BY <2>4, <2>7 DEF n
      <4>3. ArrayCount(open) <= Len(open) - 1  BY <1>0, <4>1, <4>2, ArraysBounded
      <4>4. ArrayCount(open) >= 1  BY <1>0, <4>2, ArraysBounded
      <4> QED  BY <1>0, <2>7, <4>3, <4>4 DEF n
    <3>3. api.bulkDepth <= 1 /\ ~(api.bulkDepth > 1)  BY <3>1, <3>2
    <3>4. Only({"depth", "bulkDepth"}, api, s) /\ s.bulkDepth = 0 /\ s.depth = n - 1
      BY <1>0, <1>4, <1>5, <1>12, <2>2, <3>1, <3>3, EndArrayStep
    <3>5. s.objectDepth = 0 /\ s.transaction = api.transaction
      BY <3>1, <3>2, <3>4, OnlyFields
    <3>6. s \in Result /\ ContentInv(s, d) /\ s.transactions = api.transactions  BY <1>a, <3>4
    <3>7. CountRead(s, d)  BY <1>4, <2>4, <3>5, <3>6 DEF CountRead
    <3>8. ~(Len(o) >= 2) /\ ~(Len(o) >= 3)  BY <1>8, <2>7
    <3>9. PageInv(o, s, d)
      BY <1>4, <2>5, <3>1, <3>4, <3>5, <3>7, <3>8, Zenon DEF PageInv
    <3> QED  BY <2>3, <3>4, <3>6, <3>9
  <2>8. CASE n >= 3
    <3>1. /\ open[1].key = "txs" /\ open[2].array /\ said.txs /\ said.elements >= 1
          /\ api.bulkDepth = ArrayCount(open) /\ api.arrayDepth = ArrayCount(open)
          /\ api.objectDepth = n - ArrayCount(open) - 1
      BY <1>0, <2>4, <2>8
    <3>2. Len(o) >= 2 /\ 1 \in 1 .. n - 2 /\ 1 \in 1 .. n - 1 /\ 2 \in 1 .. n - 1
      BY <1>0, <1>8, <2>8
    <3>3. o[1].key = "txs" /\ o[2].array /\ ~o[1].array
      BY <1>8, <2>4, <3>1, <3>2, Zenon
    <3>4. ArrayCount(o) >= 1 /\ ArrayCount(o) <= Len(o) - 1
      <4>1. 2 \in Nat /\ 2 <= Len(o) /\ 1 \in Nat /\ 1 <= Len(o) /\ 2 >= 1
        BY <1>0, <1>8, <2>8
      <4>2. \A i \in 1 .. 1 : ~o[i].array  BY <3>3
      <4> QED  BY <1>8, <3>3, <4>1, <4>2, ArraysBounded
    <3>5. CASE Top.array
      <4>1. ArrayCount(open) = ArrayCount(o) + 1  BY <1>8, <3>5
      <4>2. api.bulkDepth > 1 /\ api.arrayDepth >= 1  BY <1>8, <3>1, <3>4, <4>1
      <4>3. /\ Only({"depth", "bulkDepth", "arrayDepth"}, api, s) /\ s.depth = n - 1
            /\ s.bulkDepth = api.bulkDepth - 1 /\ s.arrayDepth = api.arrayDepth - 1
        BY <1>0, <1>4, <1>5, <1>12, <2>2, <3>5, <4>2, EndArrayStep
      <4>4. s.objectDepth = api.objectDepth /\ s.transaction = api.transaction
        BY <4>3, OnlyFields
      <4>5. s \in Result /\ ContentInv(s, d) /\ s.transactions = api.transactions  BY <1>a, <4>3
      <4>6. CountRead(s, d)  BY <1>4, <2>4, <4>4, <4>5 DEF CountRead
      <4>7. /\ s.bulkDepth = ArrayCount(o) /\ s.arrayDepth = ArrayCount(o)
            /\ s.objectDepth = Len(o) - ArrayCount(o) - 1 /\ ~(Len(o) < 2)
        <5>1. Len(o) = n - 1 /\ ArrayCount(o) \in Nat  BY <1>8
        <5>2. s.bulkDepth = ArrayCount(o) /\ s.arrayDepth = ArrayCount(o)
          BY <3>1, <4>1, <4>3, <4>4, <5>1
        <5>3. s.objectDepth = Len(o) - ArrayCount(o) - 1
          BY <1>0, <3>1, <4>1, <4>3, <4>4, <5>1
        <5> QED  BY <1>0, <3>2, <5>1, <5>2, <5>3
      <4>8. PageInv(o, s, d)  BY <1>4, <3>1, <3>3, <4>6, <4>7, Zenon DEF PageInv
      <4> QED  BY <2>3, <4>3, <4>5, <4>8
    <3>6. CASE ~Top.array
      <4>1. ArrayCount(open) = ArrayCount(o)  BY <1>8, <3>6
      <4>2. api.objectDepth >= 1 /\ api.arrayDepth > 0 /\ api.bulkDepth > 0
        BY <1>0, <1>8, <3>1, <3>4, <4>1
      <4>3. /\ Only({"depth", "objectDepth"}, api, s) /\ s.depth = n - 1
            /\ s.objectDepth = api.objectDepth - 1
        BY <1>0, <1>4, <1>5, <1>12, <2>2, <3>6, <4>2, EndObjectStep
      <4>4. /\ s.bulkDepth = api.bulkDepth /\ s.arrayDepth = api.arrayDepth
            /\ s.transaction = api.transaction
        BY <4>3, OnlyFields
      <4>5. s \in Result /\ ContentInv(s, d) /\ s.transactions = api.transactions  BY <1>a, <4>3
      <4>6. CountRead(s, d)  BY <1>4, <2>4, <4>4, <4>5 DEF CountRead
      <4>7. /\ s.bulkDepth = ArrayCount(o) /\ s.arrayDepth = ArrayCount(o)
            /\ s.objectDepth = Len(o) - ArrayCount(o) - 1 /\ ~(Len(o) < 2)
        <5>1. Len(o) = n - 1 /\ ArrayCount(o) \in Nat  BY <1>8
        <5>2. s.bulkDepth = ArrayCount(o) /\ s.arrayDepth = ArrayCount(o)
          BY <3>1, <4>1, <4>3, <4>4, <5>1
        <5>3. s.objectDepth = Len(o) - ArrayCount(o) - 1
          BY <1>0, <3>1, <4>1, <4>3, <4>4, <5>1
        <5> QED  BY <1>0, <3>2, <5>1, <5>2, <5>3
      <4>8. PageInv(o, s, d)  BY <1>4, <3>1, <3>3, <4>6, <4>7, Zenon DEF PageInv
      <4> QED  BY <2>3, <4>3, <4>5, <4>8
    <3> QED  BY <3>5, <3>6
  <2> QED  BY <1>0, <1>5, <2>6, <2>7, <2>8
<1>13. ASSUME Transactions PROVE Ends
  <2>1. TransactionsInv(open, api, said)  BY <1>0, <1>13, Zenon DEF ParserInv
  <2>2. ~isFailure /\ ~Page /\ ~Block /\ ~Notification
    BY <1>13, SMT DEF Page, Transactions, Block, Notification
  <2>3. ASSUME TransactionsInv(o, s, d) PROVE ParserInv(o, s, d)
    BY <2>2, <2>3, Zenon DEF ParserInv
  <2>4. /\ open[1].array
        /\ n >= 2 => said.elements >= 1
        /\ api.arrayDepth = ArrayCount(open) /\ api.objectDepth = n - ArrayCount(open)
        /\ CountRead(api, said)
    BY <1>0, <1>5, <2>1 DEF TransactionsInv, n
  <2>5. Len(o) >= 1 => o[1].array
    <3>1. Len(o) >= 1 => 1 \in 1 .. n - 1  BY <1>0, <1>8
    <3> QED  BY <1>8, <2>4, <3>1, Zenon
  <2>6. Len(o) >= 2 => said.elements >= 1  BY <1>0, <1>8, <2>4
  <2>7. CASE Top.array
    <3>1. ArrayCount(open) = ArrayCount(o) + 1  BY <1>8, <2>7
    <3>2. /\ Only({"depth", "arrayDepth"}, api, s) /\ s.depth = n - 1
          /\ s.arrayDepth = api.arrayDepth - 1
      BY <1>0, <1>4, <1>5, <1>8, <1>13, <2>2, <2>4, <2>7, <3>1, EndArrayStep
    <3>3. s.objectDepth = api.objectDepth /\ s.transaction = api.transaction  BY <3>2, OnlyFields
    <3>4. s \in Result /\ ContentInv(s, d) /\ s.transactions = api.transactions  BY <1>a, <3>2
    <3>5. s.arrayDepth = ArrayCount(o) /\ s.objectDepth = Len(o) - ArrayCount(o)
      BY <1>0, <1>8, <2>4, <3>1, <3>2, <3>3
    <3>6. CountRead(s, d)  BY <1>4, <2>4, <3>3, <3>4 DEF CountRead
    <3>7. TransactionsInv(o, s, d)
      BY <1>4, <2>5, <2>6, <3>5, <3>6, Zenon DEF TransactionsInv
    <3> QED  BY <2>3, <3>2, <3>4, <3>7
  <2>8. CASE ~Top.array
    <3>1. ArrayCount(open) = ArrayCount(o)  BY <1>8, <2>8
    <3>2. api.objectDepth >= 1  BY <1>0, <1>8, <2>4, <3>1
    <3>3. api.arrayDepth > 0
      <4>1. 1 \in Nat /\ 1 <= Len(open)  BY <1>5 DEF n
      <4> QED  BY <1>0, <2>4, <4>1, ArraysBounded
    <3>4. /\ Only({"depth", "objectDepth"}, api, s) /\ s.depth = n - 1
          /\ s.objectDepth = api.objectDepth - 1
      BY <1>0, <1>4, <1>5, <1>13, <2>2, <2>8, <3>2, <3>3, EndObjectStep
    <3>5. s.arrayDepth = api.arrayDepth /\ s.transaction = api.transaction  BY <3>4, OnlyFields
    <3>6. s \in Result /\ ContentInv(s, d) /\ s.transactions = api.transactions  BY <1>a, <3>4
    <3>7. s.arrayDepth = ArrayCount(o) /\ s.objectDepth = Len(o) - ArrayCount(o)
      BY <1>0, <1>8, <2>4, <3>1, <3>4, <3>5
    <3>8. CountRead(s, d)  BY <1>4, <2>4, <3>5, <3>6 DEF CountRead
    <3>9. TransactionsInv(o, s, d)
      BY <1>4, <2>5, <2>6, <3>7, <3>8, Zenon DEF TransactionsInv
    <3> QED  BY <2>3, <3>4, <3>6, <3>9
  <2> QED  BY <2>7, <2>8
<1>14. ASSUME Block PROVE Ends
  <2>1. BlockInv(open, api)  BY <1>0, <1>14, Zenon DEF ParserInv
  <2>2. ~isFailure /\ ~Page /\ ~Transactions /\ ~Notification
    BY <1>14, SMT DEF Page, Transactions, Block, Notification
  <2>3. Only({"depth"}, api, s) /\ s.depth = n - 1
    BY <1>0, <1>4, <1>5, <1>14, <2>2, EndArrayStep, EndObjectStep
  <2>4. s \in Result /\ ContentInv(s, d) /\ s.transactions = api.transactions  BY <1>a, <2>3
  <2>5. ~(Len(o) >= 2)
    <3>1. n >= 2 => n = 2  BY <2>1 DEF BlockInv, n
    <3> QED  BY <1>0, <1>8, <3>1
  <2>6. Len(o) >= 1 => ~o[1].array
    <3>1. Len(o) >= 1 => 1 \in 1 .. n - 1  BY <1>0, <1>8
    <3>2. ~open[1].array  BY <1>5, <2>1 DEF BlockInv, n
    <3> QED  BY <1>8, <3>1, <3>2, Zenon
  <2>7. BlockInv(o, s)  BY <2>1, <2>4, <2>5, <2>6, Zenon DEF BlockInv
  <2>8. ParserInv(o, s, d)  BY <2>2, <2>7, Zenon DEF ParserInv
  <2> QED  BY <2>3, <2>4, <2>8
<1>15. ASSUME Notification PROVE Ends
  <2>1. NotificationInv(open, api)  BY <1>0, <1>15, Zenon DEF ParserInv
  <2>2. ~isFailure /\ ~Page /\ ~Transactions /\ ~Block
    BY <1>15, SMT DEF Page, Transactions, Block, Notification
  <2>3. ASSUME NotificationInv(o, s) PROVE ParserInv(o, s, d)
    BY <2>2, <2>3, Zenon DEF ParserInv
  <2>4. /\ \A i \in 1 .. 3 : i <= n => ~open[i].array
        /\ n >= 2 => open[1].key = "payload"
        /\ n >= 3 => /\ open[2].key \in {"transaction", "block"} /\ api.currentObject = open[2].key
                     /\ open[2].key = "transaction" => api.transaction = 1
        /\ n < 3 => api.currentObject = NoKey
        /\ n >= 4 /\ open[2].key = "block" => n = 4
        /\ api.objectDepth = n - ArrayCount(open)
        /\ Len(api.transactions) = 1
    BY <2>1 DEF NotificationInv, n
  <2>5. \A i \in 1 .. 3 : i <= Len(o) => ~o[i].array
    <3>1. \A i \in 1 .. 3 : i <= Len(o) => i <= n /\ i \in 1 .. n - 1  BY <1>0, <1>8
    <3> QED  BY <1>8, <2>4, <3>1, Zenon
  <2>6. /\ Len(o) >= 2 => n >= 2 /\ o[1] = open[1]
        /\ Len(o) >= 3 => n >= 3 /\ o[2] = open[2]
    <3>1. /\ Len(o) >= 2 => n >= 2 /\ 1 \in 1 .. n - 2
          /\ Len(o) >= 3 => n >= 3 /\ 2 \in 1 .. n - 2
      BY <1>0, <1>8
    <3> QED  BY <1>8, <3>1, Zenon
  <2>7. Len(o) >= 2 => o[1].key = "payload"  BY <2>4, <2>6
  <2>8. ~(Len(o) >= 4 /\ o[2].key = "block")
    <3>1. Len(o) >= 4 => n >= 5 /\ n >= 4 /\ n # 4 /\ Len(o) >= 3  BY <1>0, <1>8
    <3> QED  BY <2>4, <2>6, <3>1, Zenon
  <2>9. ASSUME NEW m \in Nat, m <= n - 1, m <= 3
        PROVE  ArrayCount(o) <= n - 1 - m
    <3>1. \A i \in 1 .. m : ~o[i].array  BY <1>0, <1>8, <2>5, <2>9
    <3>2. m <= Len(o)  BY <1>8, <2>9
    <3> QED  BY <1>8, <2>9, <3>1, <3>2, ArraysBounded
  <2>10. CASE Top.array
    <3>1. n >= 4
      <4>1. \A i \in 1 .. 3 : n # i  BY <1>5, <2>4, <2>10
      <4> QED  BY <1>0, <1>5, <4>1
    <3>2. Only({"depth"}, api, s) /\ s.depth = n - 1
      BY <1>0, <1>4, <1>5, <1>15, <2>2, <2>10, EndArrayStep
    <3>3. /\ s.objectDepth = api.objectDepth /\ s.currentObject = api.currentObject
          /\ s.transaction = api.transaction
      BY <3>2, OnlyFields
    <3>4. s \in Result /\ ContentInv(s, d) /\ s.transactions = api.transactions  BY <1>a, <3>2
    <3>5. s.objectDepth = Len(o) - ArrayCount(o)
      <4>1. ArrayCount(open) = ArrayCount(o) + 1  BY <1>8, <2>10
      <4> QED  BY <1>0, <1>8, <2>4, <3>3, <4>1
    <3>6. Len(o) >= 3 /\ ~(Len(o) < 3)  BY <1>0, <1>8, <3>1
    <3>7. /\ o[2].key \in {"transaction", "block"} /\ s.currentObject = o[2].key
          /\ o[2].key = "transaction" => s.transaction = 1
      BY <2>4, <2>6, <3>3, <3>6, Zenon
    <3>8. NotificationInv(o, s)
      BY <2>4, <2>5, <2>7, <2>8, <3>4, <3>5, <3>6, <3>7, Zenon DEF NotificationInv
    <3> QED  BY <2>3, <3>2, <3>4, <3>8
  <2>11. CASE ~Top.array
    <3>1. ArrayCount(open) = ArrayCount(o)  BY <1>8, <2>11
    <3>2. api.objectDepth >= 1  BY <1>0, <1>8, <2>4, <3>1
    <3>3. /\ Only({"depth", "objectDepth", "currentObject"}, api, s) /\ s.depth = n - 1
          /\ s.objectDepth = api.objectDepth - 1
          /\ s.currentObject = IF api.objectDepth = 3 THEN NoKey ELSE api.currentObject
      BY <1>0, <1>4, <1>5, <1>15, <2>2, <2>11, <3>2, EndObjectStep
    <3>4. s.transaction = api.transaction  BY <3>3, OnlyFields
    <3>5. s \in Result /\ ContentInv(s, d) /\ s.transactions = api.transactions  BY <1>a, <3>3
    <3>6. s.objectDepth = Len(o) - ArrayCount(o)  BY <1>0, <1>8, <2>4, <3>1, <3>3
    <3>7. n < 3 => s.currentObject = NoKey  BY <2>4, <3>3
    <3>8. n = 3 => s.currentObject = NoKey
      <4>1. n = 3 => ArrayCount(o) <= 0
        <5>1. n = 3 => 2 \in Nat /\ 2 <= n - 1 /\ 2 <= 3  OBVIOUS
        <5>2. n = 3 => ArrayCount(o) <= n - 1 - 2  BY <2>9, <5>1
        <5> QED  BY <5>2
      <4>2. n = 3 => api.objectDepth = 3  BY <1>8, <2>4, <3>1, <4>1
      <4> QED  BY <3>3, <4>2
    <3>9. n >= 4 => s.currentObject = api.currentObject
      <4>1. n >= 4 => ArrayCount(o) <= n - 1 - 3
        <5>1. n >= 4 => 3 \in Nat /\ 3 <= n - 1 /\ 3 <= 3  BY <1>0
        <5> QED  BY <2>9, <5>1
      <4>2. n >= 4 => api.objectDepth # 3  BY <1>0, <1>8, <2>4, <3>1, <4>1
      <4> QED  BY <3>3, <4>2
    <3>10. Len(o) < 3 => s.currentObject = NoKey
      <4>1. Len(o) < 3 => n < 3 \/ n = 3  BY <1>0, <1>8
      <4> QED  BY <3>7, <3>8, <4>1
    <3>11. Len(o) >= 3 => /\ o[2].key \in {"transaction", "block"} /\ s.currentObject = o[2].key
                          /\ o[2].key = "transaction" => s.transaction = 1
      <4>1. Len(o) >= 3 => n >= 4 /\ n >= 3  BY <1>0, <1>8
      <4> QED  BY <2>4, <2>6, <3>4, <3>9, <4>1, Zenon
    <3>12. NotificationInv(o, s)
      BY <2>4, <2>5, <2>7, <2>8, <3>5, <3>6, <3>10, <3>11, Zenon DEF NotificationInv
    <3> QED  BY <2>3, <3>3, <3>5, <3>12
  <2> QED  BY <2>10, <2>11
<1>16. Ends  BY <1>0, <1>11, <1>12, <1>13, <1>14, <1>15
<1>17. DocumentInv(o, s, d)  BY <1>0, <1>4, <1>8, <1>9, <1>16 DEF DocumentInv, TypedInv
<1>18. DocumentInv(open, api, said)'  BY <1>1, <1>2, <1>3, <1>4, <1>17, DocumentNext
<1>19. AnswerInv'  BY <1>4 DEF ReadInv, AnswerInv, isFailure
<1> QED  BY <1>18, <1>19 DEF ReadInv

\* A value put into a transaction is one of its own, said of it.
LEMMA ContentValued ==
  ASSUME NEW s \in Result, NEW d \in Said, NEW t, NEW e, NEW i \in Nat, ContentInv(s, d),
         ValueInto(s, t, i), s.transaction = i, i \in DOMAIN s.transactions,
         e.valued = d.valued \union {i}, e.next = d.next, e.block = d.block
  PROVE  ContentInv(t, e) /\ Len(t.transactions) = Len(s.transactions)
<1> DEFINE ts == s.transactions
<1>1. ts \in Seq(SUBSET Nat)  BY ResultTypes
<1>2. t.transactions = [ts EXCEPT ![i] = ts[i] \union {i}]  BY Zenon DEF ValueInto
<1>3. /\ DOMAIN t.transactions = DOMAIN ts
      /\ t.transactions[i] = ts[i] \union {i}
      /\ \A j \in DOMAIN ts \ {i} : t.transactions[j] = ts[j]
  BY <1>2, Zenon
<1>4. Len(t.transactions) = Len(ts)
  <2>1. ts[i] \union {i} \in SUBSET Nat  BY <1>1
  <2>2. t.transactions \in Seq(SUBSET Nat)  BY <1>1, <1>2, <2>1
  <2> QED  BY <1>1, <1>3, <2>2
<1>5. \A j \in DOMAIN ts : ts[j] = IF j \in d.valued THEN {j} ELSE {}  BY Zenon DEF ContentInv
<1> HIDE DEF ts
<1>6. \A j \in DOMAIN ts : t.transactions[j] = IF j \in e.valued THEN {j} ELSE {}
  <2> TAKE j \in DOMAIN ts
  <2>1. CASE j = i
    <3>1. ts[i] \union {i} = {i}  BY <1>5, <2>1
    <3> QED  BY <1>3, <2>1, <3>1
  <2>2. CASE j # i
    <3>1. t.transactions[j] = ts[j] /\ (j \in e.valued <=> j \in d.valued)  BY <1>3, <2>2
    <3> QED  BY <1>5, <3>1, Zenon
  <2> QED  BY <2>1, <2>2
<1>7. t.wild = s.wild /\ t.hasNext = s.hasNext /\ t.block = s.block
  <2>1. Only({"transactions"}, s, t)  BY DEF ValueInto
  <2> QED  BY <2>1, OnlyFields
<1>8. e.valued \subseteq DOMAIN t.transactions
  <2>1. d.valued \subseteq DOMAIN ts /\ i \in DOMAIN ts  BY Zenon DEF ContentInv, ts
  <2> QED  BY <1>3, <2>1
<1>9. ~s.wild /\ s.hasNext = d.next /\ s.block = IF d.block THEN {TRUE} ELSE {}
  BY Zenon DEF ContentInv
<1>10. ContentInv(t, e)  BY <1>3, <1>6, <1>7, <1>8, <1>9, Zenon DEF ContentInv
<1> QED  BY <1>4, <1>10 DEF ts

\* Values leave what the parsers count alone.
LEMMA ParserKept ==
  ASSUME NEW o \in Seq(Opened), NEW s, NEW d, ~isFailure,
         open \in Seq(Opened), ParserInv(open, api, said),
         Len(o) = Len(open), ArrayCount(o) = ArrayCount(open),
         \A i \in 1 .. Len(open) : o[i].array = open[i].array,
         \A i \in 1 .. Len(open) - 1 : o[i] = open[i],
         s.lastKey = api.lastKey, s.bulkDepth = api.bulkDepth, s.arrayDepth = api.arrayDepth,
         s.objectDepth = api.objectDepth, s.currentObject = api.currentObject,
         s.transaction = api.transaction,
         Len(s.transactions) = Len(api.transactions),
         api.transactions = <<>> => s.transactions = <<>>,
         d.elements = said.elements, d.txs = said.txs
  PROVE  ParserInv(o, s, d)
<1> DEFINE n == Len(open)
<1>0. n \in Nat  OBVIOUS
<1>1. /\ n >= 1 => o[1].array = open[1].array
      /\ n >= 2 => o[1] = open[1] /\ o[2].array = open[2].array
      /\ n >= 3 => o[2] = open[2]
      /\ \A i \in 1 .. 3 : i <= n => o[i].array = open[i].array
      /\ n >= 4 => n >= 3 /\ o[4].array = open[4].array
  <2>1. /\ n >= 1 => 1 \in 1 .. n
        /\ n >= 2 => 1 \in 1 .. n - 1 /\ 2 \in 1 .. n
        /\ n >= 3 => 2 \in 1 .. n - 1
        /\ \A i \in 1 .. 3 : i <= n => i \in 1 .. n
        /\ n >= 4 => n >= 3 /\ 4 \in 1 .. n
    BY <1>0
  <2> QED  BY <2>1, Zenon
<1> HIDE DEF n
<1>2. Len(o) = n /\ Len(open) = n  BY DEF n
<1>3. ASSUME Page PROVE PageInv(o, s, d)
  <2>1. PageInv(open, api, said)  BY <1>3, Zenon DEF ParserInv
  <2> QED  BY <1>1, <1>2, <2>1, Zenon DEF PageInv, CountRead
<1>4. ASSUME Transactions PROVE TransactionsInv(o, s, d)
  <2>1. TransactionsInv(open, api, said)  BY <1>4, Zenon DEF ParserInv
  <2> QED  BY <1>1, <1>2, <2>1, Zenon DEF TransactionsInv, CountRead
<1>5. ASSUME Block PROVE BlockInv(o, s)
  <2>1. BlockInv(open, api)  BY <1>5, Zenon DEF ParserInv
  <2> QED  BY <1>1, <1>2, <2>1, Zenon DEF BlockInv
<1>6. ASSUME Notification PROVE NotificationInv(o, s)
  <2>1. NotificationInv(open, api)  BY <1>6, Zenon DEF ParserInv
  <2>2. n >= 4 /\ o[2].key = "block" => n = 4 /\ o[4].array /\ s.lastKey = "txs"
    BY <1>1, <1>2, <2>1, Zenon DEF NotificationInv
  <2>3. n >= 3 => /\ o[2].key \in {"transaction", "block"} /\ s.currentObject = o[2].key
                  /\ o[2].key = "transaction" => s.transaction = 1
    BY <1>1, <1>2, <2>1, Zenon DEF NotificationInv
  <2>4. \A i \in 1 .. 3 : i <= n => ~o[i].array
    BY <1>1, <1>2, <2>1, Zenon DEF NotificationInv
  <2>5. /\ n >= 2 => o[1].key = "payload"
        /\ n < 3 => s.currentObject = NoKey
        /\ s.objectDepth = n - ArrayCount(o) /\ Len(s.transactions) = 1
    BY <1>1, <1>2, <2>1, Zenon DEF NotificationInv
  <2> QED  BY <1>2, <2>2, <2>3, <2>4, <2>5, Zenon DEF NotificationInv
<1> QED  BY <1>3, <1>4, <1>5, <1>6, Zenon DEF ParserInv

\* A value, for each parser.
LEMMA ScalarKeeps ==
  ASSUME ReadInv, NEW kind \in Kinds, NEW b \in BOOLEAN, Scalar(kind, b)
  PROVE  ReadInv'
<1> DEFINE n == Len(open)
           field == <<Top.key, kind>> \in BlockFields
<1>0. /\ open \in Seq(Opened) /\ n \in Nat /\ ArrayCount(open) \in Nat
      /\ open = <<>> <=> n = 0
      /\ api \in Result /\ said \in Said /\ api.depth = n
      /\ KeyInv(open, api) /\ ParserInv(open, api, said) /\ ContentInv(api, said)
      /\ isFailure \/ Page \/ Transactions \/ Block \/ Notification
      /\ said.elements \in Nat /\ said.valued \in SUBSET Nat
      /\ said.next \in BOOLEAN /\ said.txs \in BOOLEAN /\ said.block \in BOOLEAN
  BY Here
<1>1. PICK o : open' = o  OBVIOUS
<1>2. PICK s : api' = s  OBVIOUS
<1>3. PICK d : said' = d  OBVIOUS
<1>4. /\ open # <<>> /\ (Top.array \/ Top.key # NoKey) /\ MayBeValue
      /\ request' = request /\ reading' = reading /\ answer' = answer
      /\ o = ValueOver(open) /\ s = ScalarValue(api, kind, b)
  BY <1>1, <1>2, Zenon DEF Scalar, ValueExpected
<1>5. n >= 1 /\ Len(open) \in DOMAIN open /\ Top = open[n]
  <2>1. n >= 1 /\ Len(open) \in DOMAIN open  BY <1>0, <1>4
  <2> QED  BY <2>1 DEF Top
<1>6. Owner \in Nat /\ InBlock \in BOOLEAN
  <2>1. InBlock \in BOOLEAN  BY Zenon DEF InBlock
  <2> QED  BY <1>0, <2>1 DEF Owner
<1>7. /\ d \in Said /\ d.elements = said.elements /\ d.txs = said.txs
      /\ d.valued = IF Owner = 0 \/ isFailure THEN said.valued ELSE said.valued \union {Owner}
      /\ d.next = IF RootTruncated(kind) THEN b ELSE said.next
      /\ d.block = (said.block \/ (InBlock /\ ~isFailure /\ field))
  <2> DEFINE valued == IF Owner = 0 \/ isFailure THEN said.valued ELSE said.valued \union {Owner}
             next == IF RootTruncated(kind) THEN b ELSE said.next
             block == said.block \/ (InBlock /\ ~isFailure /\ field)
  <2>1. d = [said EXCEPT !.valued = valued, !.next = next, !.block = block]
    BY <1>3, Zenon DEF Scalar
  <2>2. valued \in SUBSET Nat /\ next \in BOOLEAN /\ block \in BOOLEAN
    <3>1. valued \in SUBSET Nat  BY <1>0, <1>6
    <3>2. next \in BOOLEAN /\ block \in BOOLEAN  BY <1>0, Zenon
    <3> QED  BY <3>1, <3>2
  <2> HIDE DEF n, field, valued, next, block
  <2>3. d \in Said  BY <1>0, <2>1, <2>2, Zenon DEF Said
  <2>4. DOMAIN said = {"elements", "valued", "next", "txs", "block"}  BY <1>0, Zenon DEF Said
  <2>5. /\ d.elements = said.elements /\ d.txs = said.txs
        /\ d.valued = valued /\ d.next = next /\ d.block = block
    BY <2>1, <2>4, Zenon
  <2> QED  BY <2>3, <2>5 DEF valued, next, block
<1>8. /\ o \in Seq(Opened) /\ Len(o) = n /\ DOMAIN o = 1 .. n /\ o[n].key = NoKey
      /\ \A i \in 1 .. n : o[i].array = open[i].array
      /\ \A i \in 1 .. n - 1 : o[i] = open[i]
      /\ ArrayCount(o) = ArrayCount(open)
  <2>1. /\ o \in Seq(Opened) /\ Len(o) = n /\ o[n].key = NoKey
        /\ \A i \in 1 .. n : o[i].array = open[i].array
        /\ \A i \in 1 .. n - 1 : o[i] = open[i]
        /\ ArrayCount(o) = ArrayCount(open)
    BY <1>0, <1>4, ValueOverFacts DEF KeyInv
  <2> QED  BY <2>1
<1>9. KeyInv(o, s)
  <2>1. \A i \in 1 .. n : i \in 1 .. n - 1 \/ i = n  BY <1>0
  <2>2. DOMAIN open = 1 .. n /\ \A i \in 1 .. n - 1 : i \in 1 .. n  BY <1>0
  <2>3. \A i \in DOMAIN o : o[i].array => o[i].key = NoKey
    <3> TAKE i \in DOMAIN o
    <3>1. CASE i \in 1 .. n - 1
      <4>1. o[i] = open[i] /\ i \in DOMAIN open  BY <1>8, <2>2, <3>1
      <4> QED  BY <1>0, <4>1, Zenon DEF KeyInv
    <3>2. CASE i = n  BY <1>8, <3>2
    <3> QED  BY <1>8, <2>1, <3>1, <3>2
  <2> QED  BY <1>8, <2>3, Zenon DEF KeyInv
\* A key of the innermost object is the last one.
<1>10. ~Top.array => api.lastKey = Top.key
  BY <1>0, <1>4, Zenon DEF KeyInv, Top
<1> DEFINE Ends == s \in Result /\ s.depth = n /\ ParserInv(o, s, d) /\ ContentInv(s, d)
<1>a. ASSUME NEW F, Only(F, api, s), F \subseteq {"transactions", "hasNext", "block"}, ~isFailure,
             Len(s.transactions) = Len(api.transactions),
             api.transactions = <<>> => s.transactions = <<>>
      PROVE  s \in Result /\ s.depth = n /\ ParserInv(o, s, d)
  <2>1. s \in Result  BY <1>a, Zenon DEF Only
  <2>2. /\ s.depth = api.depth /\ s.lastKey = api.lastKey
        /\ s.bulkDepth = api.bulkDepth /\ s.arrayDepth = api.arrayDepth
        /\ s.objectDepth = api.objectDepth /\ s.currentObject = api.currentObject
        /\ s.transaction = api.transaction
    <3>1. /\ "depth" \notin F /\ "lastKey" \notin F /\ "bulkDepth" \notin F
          /\ "arrayDepth" \notin F /\ "objectDepth" \notin F /\ "currentObject" \notin F
          /\ "transaction" \notin F
      BY <1>a
    <3> QED  BY <1>a, <3>1, OnlyFields, Zenon
  <2>3. ParserInv(o, s, d)  BY <1>0, <1>7, <1>8, <1>a, <2>2, ParserKept
  <2> QED  BY <1>0, <2>1, <2>2, <2>3
<1>b. ASSUME ValueInto(api, s, Owner), api.transaction = Owner, Owner \in DOMAIN api.transactions,
             ~isFailure, ~InBlock, ~RootTruncated(kind)
      PROVE  Ends
  <2>1. api.transactions \in Seq(SUBSET Nat)  BY <1>0, ResultTypes
  <2>2. Owner # 0 /\ api.transactions # <<>>  BY <1>b, <2>1
  <2>3. d.valued = said.valued \union {Owner} /\ d.next = said.next /\ d.block = said.block
    BY <1>0, <1>7, <1>b, <2>2, Zenon
  <2>4. ContentInv(s, d) /\ Len(s.transactions) = Len(api.transactions)
    BY <1>0, <1>6, <1>b, <2>3, ContentValued
  <2>5. Only({"transactions"}, api, s)  BY <1>b DEF ValueInto
  <2>6. s \in Result /\ s.depth = n /\ ParserInv(o, s, d)
    BY <1>a, <1>b, <2>2, <2>4, <2>5
  <2> QED  BY <2>4, <2>6
<1>c. ASSUME s = api, ~isFailure, Owner = 0, ~(InBlock /\ field), ~RootTruncated(kind)
      PROVE  Ends
  <2>1. Only({}, api, s)  BY <1>0, <1>c DEF Only
  <2>2. s \in Result /\ s.depth = n /\ ParserInv(o, s, d)  BY <1>a, <1>c, <2>1
  <2>3. d.valued = said.valued /\ d.next = said.next /\ d.block = said.block
    BY <1>0, <1>7, <1>c, Zenon
  <2>4. ContentInv(s, d)  BY <1>0, <1>c, <2>3, ContentKept
  <2> QED  BY <2>2, <2>4
<1>d. ASSUME Only({"block"}, api, s), s.block = api.block \union {InBlock},
             ~isFailure, Owner = 0, InBlock, field, ~RootTruncated(kind)
      PROVE  Ends
  <2>1. s.transactions = api.transactions /\ s.wild = api.wild /\ s.hasNext = api.hasNext
    BY <1>d, OnlyFields
  <2>2. s \in Result /\ s.depth = n /\ ParserInv(o, s, d)  BY <1>a, <1>d, <2>1
  <2>3. d.valued = said.valued /\ d.next = said.next /\ d.block
    BY <1>0, <1>7, <1>d, Zenon
  <2>4. InBlock = TRUE  BY <1>6, <1>d, Zenon
  <2>5. api.block = {} \/ api.block = {TRUE}  BY <1>0, Zenon DEF ContentInv
  <2>6. s.block = {TRUE}  BY <1>d, <2>4, <2>5
  <2>7. ContentInv(s, d)  BY <1>0, <2>1, <2>3, <2>6, Zenon DEF ContentInv
  <2> QED  BY <2>2, <2>7
<1> HIDE DEF n, field
<1>11. ASSUME isFailure PROVE Ends
  <2>1. Only({"error"}, api, s)  BY <1>0, <1>4, <1>6, <1>11, ScalarStep
  <2>2. /\ s.depth = n /\ s.transactions = api.transactions /\ s.wild = api.wild
        /\ s.hasNext = api.hasNext /\ s.block = api.block
    BY <1>0, <2>1, OnlyFields
  <2>3. s \in Result  BY <2>1 DEF Only
  <2>4. d.valued = said.valued /\ d.next = said.next /\ d.block = said.block
    BY <1>0, <1>7, <1>11, Zenon DEF RootTruncated
  <2>5. ContentInv(s, d)  BY <1>0, <2>2, <2>4, ContentKept
  <2>6. FailureInv(api, said)  BY <1>0, <1>11, Zenon DEF ParserInv
  <2>7. FailureInv(s, d)  BY <1>7, <2>2, <2>4, <2>6, Zenon DEF FailureInv
  <2>8. ParserInv(o, s, d)
    BY <1>11, <2>7, Zenon DEF ParserInv, Page, Transactions, Block, Notification
  <2> QED  BY <2>2, <2>3, <2>5, <2>8
<1>12. ASSUME Page PROVE Ends
  <2>1. PageInv(open, api, said)  BY <1>0, <1>12, Zenon DEF ParserInv
  <2>2. ~isFailure /\ Parser = "page"  BY <1>12 DEF Page
  <2>3. /\ InTransactions <=> n >= 2 /\ open[1].key = "txs"
        /\ InTransaction <=> InTransactions /\ n > 2
        /\ ~InBlock
    BY <2>2, Where, SMT DEF n
  <2>4. InTransaction \/ ~InTransactions  BY <1>4, <2>2, SMT DEF MayBeValue
  <2>5. n # 2
    <3>1. n >= 2 => open[1].key = "txs"  BY <2>1, Zenon DEF PageInv, n
    <3> QED  BY <1>0, <2>3, <2>4, <3>1
  <2>6. CASE n >= 3
    <3>1. /\ open[1].key = "txs" /\ said.elements >= 1 /\ open[2].array
          /\ api.bulkDepth = ArrayCount(open) /\ api.arrayDepth = ArrayCount(open)
          /\ CountRead(api, said)
      BY <1>0, <2>1, <2>6 DEF PageInv, n
    <3>2. Owner = said.elements  BY <1>0, <2>2, <2>3, <2>6, <3>1 DEF Owner
    <3>3. api.transaction = Owner /\ Owner \in DOMAIN api.transactions
      <4>1. api.transactions \in Seq(SUBSET Nat)  BY <1>0, ResultTypes
      <4> QED  BY <1>0, <3>1, <3>2, <4>1 DEF CountRead
    <3>4. ArrayCount(open) >= 1
      <4>1. 2 \in Nat /\ 2 <= Len(open) /\ 2 >= 1  BY <1>0, <2>6 DEF n
      <4> QED  BY <1>0, <3>1, <4>1, ArraysBounded
    <3>5. api.bulkDepth > 0 /\ api.arrayDepth > 0  BY <1>0, <3>1, <3>4
    <3>6. ValueInto(api, s, Owner)
      BY <1>0, <1>4, <1>6, <1>12, <3>3, <3>5, ScalarStep
    <3>7. ~RootTruncated(kind)
      <4>1. n # 1  BY <2>6
      <4> QED  BY <4>1, Zenon DEF RootTruncated, n
    <3> QED  BY <1>b, <2>2, <2>3, <3>3, <3>6, <3>7
  <2>7. CASE n = 1
    <3>1. api.bulkDepth = 0 /\ ~open[1].array
      BY <2>1, <2>7 DEF PageInv, n
    <3>2. IF kind = "bool" /\ api.lastKey = "truncated"
          THEN Only({"hasNext"}, api, s) /\ s.hasNext = b
          ELSE s = api
      BY <1>0, <1>4, <1>6, <1>12, <3>1, ScalarStep
    <3>3. api.lastKey = Top.key  BY <1>5, <1>10, <2>7, <3>1
    <3>4. RootTruncated(kind) <=> kind = "bool" /\ api.lastKey = "truncated"
      BY <2>2, <2>7, <3>3, Zenon DEF RootTruncated, n
    <3>5. Owner = 0  BY <2>3, <2>7 DEF Owner
    <3>6. CASE RootTruncated(kind)
      <4>1. Only({"hasNext"}, api, s) /\ s.hasNext = b  BY <3>2, <3>4, <3>6, Zenon
      <4>2. s.transactions = api.transactions /\ s.wild = api.wild /\ s.block = api.block
        BY <4>1, OnlyFields
      <4>3. s \in Result /\ s.depth = n /\ ParserInv(o, s, d)  BY <1>a, <2>2, <4>1, <4>2
      <4>4. d.valued = said.valued /\ d.next = b /\ d.block = said.block
        BY <1>0, <1>7, <2>3, <3>5, <3>6, Zenon
      <4>5. ContentInv(s, d)  BY <1>0, <4>1, <4>2, <4>4, Zenon DEF ContentInv
      <4> QED  BY <4>3, <4>5
    <3>7. CASE ~RootTruncated(kind)
      <4>1. s = api  BY <3>2, <3>4, <3>7, Zenon
      <4> QED  BY <1>c, <2>2, <2>3, <3>5, <3>7, <4>1
    <3> QED  BY <3>6, <3>7
  <2> QED  BY <1>0, <1>5, <2>5, <2>6, <2>7
<1>13. ASSUME Transactions PROVE Ends
  <2>1. TransactionsInv(open, api, said)  BY <1>0, <1>13, Zenon DEF ParserInv
  <2>2. ~isFailure /\ Parser = "transactions"  BY <1>13 DEF Transactions
  <2>3. InTransaction /\ n > 1 /\ ~InBlock
    <3>1. InTransaction  BY <1>4, <2>2, SMT DEF MayBeValue
    <3> QED  BY <2>2, <3>1, Where, SMT DEF n
  <2>4. /\ open[1].array /\ said.elements >= 1
        /\ api.arrayDepth = ArrayCount(open) /\ CountRead(api, said)
    BY <1>0, <2>1, <2>3 DEF TransactionsInv, n
  <2>5. Owner = said.elements  BY <2>2, <2>3 DEF Owner
  <2>6. api.transaction = Owner /\ Owner \in DOMAIN api.transactions
    <3>1. api.transactions \in Seq(SUBSET Nat)  BY <1>0, ResultTypes
    <3> QED  BY <1>0, <2>4, <2>5, <3>1 DEF CountRead
  <2>7. api.arrayDepth > 0
    <3>1. 1 \in Nat /\ 1 <= Len(open) /\ 1 >= 1  BY <1>5 DEF n
    <3>2. ArrayCount(open) >= 1  BY <1>0, <2>4, <3>1, ArraysBounded
    <3> QED  BY <1>0, <2>4, <3>2
  <2>8. ValueInto(api, s, Owner)  BY <1>0, <1>4, <1>6, <1>13, <2>6, <2>7, ScalarStep
  <2>9. ~RootTruncated(kind)  BY <2>2 DEF RootTruncated
  <2> QED  BY <1>b, <2>2, <2>3, <2>6, <2>8, <2>9
<1>14. ASSUME Block PROVE Ends
  <2>1. BlockInv(open, api)  BY <1>0, <1>14, Zenon DEF ParserInv
  <2>2. ~isFailure /\ Parser = "block"  BY <1>14 DEF Block
  <2>3. ~InTransaction /\ (InBlock <=> n = 1)  BY <2>2, Where, SMT DEF n
  <2>4. Owner = 0 /\ ~RootTruncated(kind)  BY <2>2, <2>3 DEF Owner, RootTruncated
  <2>5. IF <<api.lastKey, kind>> \in BlockFields
        THEN Only({"block"}, api, s) /\ s.block = api.block \union {InBlock}
        ELSE s = api
    BY <1>0, <1>4, <1>6, <1>14, ScalarStep
  <2>6. CASE n = 1
    <3>1. ~Top.array  BY <1>5, <2>1, <2>6 DEF BlockInv, n
    <3>2. field <=> <<api.lastKey, kind>> \in BlockFields  BY <1>10, <3>1 DEF field
    <3> QED  BY <1>c, <1>d, <2>2, <2>3, <2>4, <2>5, <2>6, <3>2
  <2>7. CASE n # 1
    <3>1. api.lastKey = "txs"
      <4>1. n >= 2  BY <1>0, <1>5, <2>7
      <4> QED  BY <2>1, <4>1 DEF BlockInv, n
    <3>2. s = api  BY <2>5, <3>1 DEF BlockFields
    <3> QED  BY <1>c, <2>2, <2>3, <2>4, <2>7, <3>2
  <2> QED  BY <2>6, <2>7
<1>15. ASSUME Notification PROVE Ends
  <2>1. NotificationInv(open, api)  BY <1>0, <1>15, Zenon DEF ParserInv
  <2>2. ~isFailure /\ Parser = "notification"  BY <1>15 DEF Notification
  <2>3. /\ InTransaction <=> Within("transaction") /\ n >= 3
        /\ InBlock <=> Within("block") /\ n >= 3
        /\ ~RootTruncated(kind)
    BY <2>2, Where, SMT DEF n, RootTruncated
  <2>4. Owner = IF InTransaction THEN 1 ELSE 0  BY <2>2 DEF Owner
  <2>5. CASE n < 3
    <3>1. ~InTransaction /\ ~InBlock /\ Owner = 0  BY <1>0, <2>3, <2>4, <2>5
    <3>2. api.currentObject \notin {"block", "transaction"}
      BY <2>1, <2>5 DEF NotificationInv, n, NoKey
    <3>3. s = api  BY <1>0, <1>4, <1>6, <1>15, <3>2, ScalarStep
    <3> QED  BY <1>c, <2>2, <2>3, <3>1, <3>3
  <2>6. CASE n >= 3
    <3>1. /\ open[1].key = "payload" /\ open[2].key \in {"transaction", "block"}
          /\ api.currentObject = open[2].key
          /\ open[2].key = "transaction" => api.transaction = 1
          /\ ~open[3].array
      BY <1>0, <2>1, <2>6 DEF NotificationInv, n
    <3>2. /\ Within("transaction") <=> open[2].key = "transaction"
          /\ Within("block") <=> open[2].key = "block"
      BY <1>0, <2>6, <3>1 DEF Within, n
    <3>3. CASE open[2].key = "transaction"
      <4>1. InTransaction /\ ~InBlock /\ Owner = 1 /\ api.transaction = 1
        BY <2>3, <2>4, <2>6, <3>1, <3>2, <3>3
      <4>2. Owner \in DOMAIN api.transactions
        <5>1. api.transactions \in Seq(SUBSET Nat)  BY <1>0, ResultTypes
        <5>2. Len(api.transactions) = 1  BY <2>1 DEF NotificationInv
        <5> QED  BY <4>1, <5>1, <5>2
      <4>3. ValueInto(api, s, Owner)
        BY <1>0, <1>4, <1>6, <1>15, <3>1, <3>3, <4>1, <4>2, ScalarStep
      <4> QED  BY <1>b, <2>2, <2>3, <4>1, <4>2, <4>3
    <3>4. CASE open[2].key = "block"
      <4>1. ~InTransaction /\ InBlock /\ Owner = 0  BY <2>3, <2>4, <2>6, <3>2, <3>4
      <4>2. IF <<api.lastKey, kind>> \in BlockFields
            THEN Only({"block"}, api, s) /\ s.block = api.block \union {InBlock}
            ELSE s = api
        BY <1>0, <1>4, <1>6, <1>15, <3>1, <3>4, ScalarStep
      <4>3. field <=> <<api.lastKey, kind>> \in BlockFields
        <5>1. CASE n = 3
          <6>1. ~Top.array  BY <1>5, <3>1, <5>1
          <6> QED  BY <1>10, <6>1 DEF field
        <5>2. CASE n >= 4
          <6>1. n = 4 /\ open[4].array /\ api.lastKey = "txs"
            BY <2>1, <3>4, <5>2 DEF NotificationInv, n
          <6>2. Top.key = NoKey
            <7>1. Top = open[4] /\ 4 \in DOMAIN open  BY <1>5, <6>1 DEF n
            <7> QED  BY <1>0, <6>1, <7>1, Zenon DEF KeyInv
          <6> QED  BY <6>1, <6>2 DEF field, BlockFields, NoKey
        <5> QED  BY <1>0, <2>6, <5>1, <5>2
      <4> QED  BY <1>c, <1>d, <2>2, <2>3, <4>1, <4>2, <4>3
    <3> QED  BY <3>1, <3>3, <3>4
  <2> QED  BY <1>0, <2>5, <2>6
<1>16. Ends  BY <1>0, <1>11, <1>12, <1>13, <1>14, <1>15
<1>17. DocumentInv(o, s, d)  BY <1>0, <1>7, <1>8, <1>9, <1>16 DEF DocumentInv, TypedInv
<1>18. DocumentInv(open, api, said)'  BY <1>1, <1>2, <1>3, <1>4, <1>17, DocumentNext
<1>19. AnswerInv'  BY <1>4 DEF ReadInv, AnswerInv, isFailure
<1> QED  BY <1>18, <1>19 DEF ReadInv

\* The rest of the steps leave what was read alone; the answer is built of it.
LEMMA AnswerKeeps ==
  ASSUME ReadInv, Malformed \/ CutOff \/ Answer \/ UNCHANGED vars
  PROVE  ReadInv'
<1> USE DEF ReadInv
<1>1. UNCHANGED <<request, open, api, said>>
  BY Zenon DEF Malformed, CutOff, Answer, vars
<1>2. DocumentInv(open, api, said)'
  <2>1. PICK o : o = open  OBVIOUS
  <2>2. PICK s : s = api  OBVIOUS
  <2>3. PICK d : d = said  OBVIOUS
  <2>4. open' = o /\ api' = s /\ said' = d /\ request' = request  BY <1>1, <2>1, <2>2, <2>3
  <2>5. DocumentInv(o, s, d)  BY <2>1, <2>2, <2>3
  <2> QED  BY <2>4, <2>5, DocumentNext
<1>3. AnswerInv'
  <2>1. CASE Malformed \/ CutOff
    BY <2>1, Zenon DEF AnswerInv, Malformed, CutOff, Reading, isFailure
  <2>2. CASE UNCHANGED vars
    BY <2>2, Zenon DEF AnswerInv, vars, isFailure
  <2>3. CASE Answer
    <3>1. /\ request' = request /\ reading' = reading
          /\ request.status = "unreachable" \/ reading # "reading"
          /\ answer' = IF request.status = "unreachable" THEN "failed" ELSE Built
      BY <2>3, Zenon DEF Answer
    <3>2. CASE request.status = "unreachable"
      BY <3>1, <3>2 DEF AnswerInv, isFailure
    <3>3. CASE request.status # "unreachable"
      <4>1. answer' = Built /\ reading # "reading"  BY <3>1, <3>3
      <4>2. request.status \in {"ok", "error", "unreachable"}  BY DEF AnswerInv
      <4>3. /\ Built \in {"result", "API_ERROR", "BLOCK_NOT_FOUND", "TRANSACTION_NOT_FOUND"}
            /\ Built = "result" => ~isFailure
            /\ Built \in {"API_ERROR", "BLOCK_NOT_FOUND"} => isFailure
        BY SMT DEF Built
      <4> QED  BY <3>1, <3>3, <4>1, <4>2, <4>3 DEF AnswerInv, isFailure
    <3> QED  BY <3>2, <3>3
  <2> QED  BY <2>1, <2>2, <2>3
<1> QED  BY <1>2, <1>3

\* Every step keeps the invariant.
LEMMA ReadNext == ReadInv /\ [Next]_vars => ReadInv'
<1> SUFFICES ASSUME ReadInv, [Next]_vars PROVE ReadInv'
  OBVIOUS
<1>1. ASSUME NEW key \in Keys, Key(key) PROVE ReadInv'  BY <1>1, KeyKeeps
<1>2. ASSUME NEW array \in BOOLEAN, Begin(array) PROVE ReadInv'  BY <1>2, BeginKeeps
<1>3. CASE End  BY <1>3, EndKeeps
<1>4. ASSUME NEW kind \in Kinds, NEW b \in BOOLEAN, Scalar(kind, b) PROVE ReadInv'
  BY <1>4, ScalarKeeps
<1>5. CASE Malformed \/ CutOff \/ Answer \/ UNCHANGED vars  BY <1>5, AnswerKeeps
<1> QED  BY <1>1, <1>2, <1>3, <1>4, <1>5, Zenon DEF Next

\* The invariant holds of every document, however deep and however long.
THEOREM ReadInvHolds == Spec => []ReadInv
<1>1. Init => ReadInv  BY ReadInit
<1>2. ReadInv /\ [Next]_vars => ReadInv'  BY ReadNext
<1> QED  BY <1>1, <1>2, PTL DEF Spec

\* None of the counters of the parsers (AbstractTransactionsBulkParser,
\* AbstractTransactionsParser, AbstractWebSocketNotificationParser,
\* LedgerApiParser), unsigned in the code, wraps below zero.
THEOREM ParserTypes == Spec => []TypeOK
<1>1. ReadInv => TypeOK  BY ReadInvImplies
<1> QED  BY <1>1, ReadInvHolds, PTL

\* The parsers find the transactions of the document by their counters alone:
\* all of them, in order, each with its own values and no others.
THEOREM TransactionsReadHolds == Spec => []TransactionsRead
<1>1. ReadInv => TransactionsRead  BY ReadInvImplies
<1> QED  BY <1>1, ReadInvHolds, PTL

\* A block has its own values only, and an answer with an error status is
\* never a result (LedgerApiParser, HttpRequest::json).
THEOREM NothingElseReadHolds == Spec => []NothingElseRead
<1>1. ReadInv => NothingElseRead  BY ReadInvImplies
<1> QED  BY <1>1, ReadInvHolds, PTL

=============================================================================
