------------------------- MODULE FutureChainProofs -------------------------
(* Proofs about FutureChain, for any programs: a future that is completed  *)
(* holds what its functions say of the futures it is made of, and no       *)
(* combinator lets an exception out to its context.                        *)
EXTENDS FutureChain, TLAPS

Results == [ok : BOOLEAN, of : Cells]

\* What the assumptions say of the program that runs.
LEMMA ProgramFacts ==
  ASSUME program \in Programs
  PROVE  /\ NoCell \notin Cells /\ None \notin Results
         /\ \A c \in Cells :
              /\ program[c].kind \in Kinds /\ program[c].fn \in {"returns", "throws"}
              /\ Kind(c) \in Unary => program[c].src \in Cells /\ program[c].src # c
              /\ Kind(c) \in FutureKinds => program[c].inner \in Cells /\ program[c].inner # c
              /\ \A i \in DOMAIN program[c].list : program[c].list[i] \in Cells /\ program[c].list[i] # c
              /\ Kind(c) # "executeAll" => DOMAIN program[c].list = {}
<1>1. program \in Seq(Operations) /\ WellFormed(program) /\ None \notin Results
  BY ProgramsAssumption, NoneAssumption DEF Results, Cells
<1>2. Cells = 1..Len(program) /\ Len(program) \in Nat
  BY <1>1, SMT DEF Cells
<1>3. NoCell \notin Cells
  BY <1>2, SMT DEF NoCell
<1>4. ASSUME NEW c \in Cells
      PROVE  program[c].kind \in Kinds /\ program[c].fn \in {"returns", "throws"}
  <2>1. program[c] \in Operations BY <1>1, <1>2, <1>4, SMT
  <2>2. QED BY <2>1, Zenon DEF Operations
<1>5. ASSUME NEW c \in Cells
      PROVE  /\ Kind(c) \in Unary => program[c].src \in Cells /\ program[c].src # c
             /\ Kind(c) \in FutureKinds => program[c].inner \in Cells /\ program[c].inner # c
             /\ \A i \in DOMAIN program[c].list : program[c].list[i] \in Cells /\ program[c].list[i] # c
             /\ Kind(c) # "executeAll" => DOMAIN program[c].list = {}
  <2>1. \A d \in 1..(c - 1) : d \in Cells /\ d # c BY <1>2, <1>5, SMT
  <2>2. /\ Kind(c) \in Unary => program[c].src \in 1..(c - 1)
        /\ Kind(c) \in FutureKinds => program[c].inner \in 1..(c - 1)
        /\ \A i \in DOMAIN program[c].list : program[c].list[i] \in 1..(c - 1)
        /\ Kind(c) # "executeAll" => program[c].list = <<>>
    BY <1>1, <1>5, Zenon DEF WellFormed, Cells, Kind
  <2>3. DOMAIN <<>> = {} BY SMT
  <2>4. QED BY <2>1, <2>2, <2>3, Zenon
<1>6. QED BY <1>1, <1>3, <1>4, <1>5

---------------------------------------------------------------------------
(* The invariant.                                                          *)

\* What a future was made of was there; what its function returns is, or
\* can be made.
Makeable(c) ==
  Made(c) /\ (Kind(c) \in FutureKinds => program[c].inner \in built \/ CanMake(program[c].inner))
BuiltInv ==
  /\ \A c \in Cells : Kind(c) = "promise" => c \in built
  /\ \A c \in built : Makeable(c)

\* Which callback a callback is.
Own(k) ==
  \/ /\ k.part = "function"
     /\ \/ Kind(k.for) \in Unary /\ k.on = program[k.for].src
        \/ Kind(k.for) \in AsyncKinds /\ k.on = NoCell
  \/ /\ k.part = "relay"
     /\ Kind(k.for) \in FutureKinds /\ k.on = program[k.for].inner /\ program[k.for].fn = "returns"
     /\ Kind(k.for) \in Unary => result[program[k.for].src] # None
     /\ Applies(k.for)
  \/ /\ k.part = "position"
     /\ Kind(k.for) = "executeAll" /\ k.on = program[k.for].list[k.pos]
OwnInv == \A k \in callbacks : Own(k)

\* A future that has yet to be completed by a callback has one such callback,
\* those of executeAll apart.
OneInv ==
  \A k \in callbacks : k.part # "position" =>
    /\ result[k.for] = None
    /\ \A j \in callbacks : j.part # "position" /\ j.for = k.for => j = k

\* What executeAll has stored are values of its futures.
SlotsInv ==
  \A c \in Cells : Kind(c) = "executeAll" =>
    \A i \in DOMAIN program[c].list :
      LET given == result[program[c].list[i]] IN
        slots[c][i] # NoCell => given # None /\ given.ok /\ slots[c][i] = given.of

WaitInv == wait = [at |-> wait.at, on |-> wait.on, res |-> wait.res]

\* ChainsMean and AllOrFailure, of one future.
Means(c) ==
  result[c] # None =>
    /\ Kind(c) \in ValueKinds \union FutureKinds =>
         /\ Kind(c) \in Unary => result[program[c].src] # None
         /\ result[c] = Denotes(c)
    /\ Kind(c) = "failed" =>
         LET s == result[program[c].src] IN
           s # None /\ result[c] = IF s.ok THEN Outcome(FALSE, c) ELSE Outcome(TRUE, s.of)
AllOr(c) ==
  (Kind(c) = "executeAll" /\ result[c] # None) =>
    LET given(i) == result[program[c].list[i]] IN
      IF result[c].ok
      THEN \A i \in DOMAIN program[c].list :
             given(i) # None /\ given(i).ok /\ slots[c][i] = given(i).of
      ELSE \E i \in DOMAIN program[c].list : result[c] = given(i)

ChainInv ==
  /\ TypeOK /\ BuiltInv /\ OwnInv /\ OneInv /\ SlotsInv /\ WaitInv /\ OnlySinksEscape
  /\ \A c \in Cells : Means(c) /\ AllOr(c)

---------------------------------------------------------------------------
(* What was completed stays so, and what was said of it.                   *)

Stays == UNCHANGED program /\ built \subseteq built'
         /\ \A c \in Cells : result[c] # None => result'[c] = result[c]

\* A future that was completed before still holds what it should.
LEMMA MeansKept ==
  ASSUME program \in Programs, Stays, NEW c \in Cells, result'[c] = result[c], Means(c)
  PROVE  Means(c)'
<1> USE ProgramFacts DEF Stays
<1>1. Kind(c)' = Kind(c) /\ program' = program BY DEF Kind
<1>2. ASSUME result[c] # None, Kind(c) \in ValueKinds \union FutureKinds
      PROVE  /\ Kind(c) \in Unary => result'[program[c].src] = result[program[c].src] /\ result[program[c].src] # None
             /\ result[c] = Denotes(c)
  BY <1>2, Zenon DEF Means
<1>3. ASSUME result[c] # None, Kind(c) \in ValueKinds \union FutureKinds
      PROVE  result[c] = Denotes(c)'
  <2>1. CASE ~Applies(c)
    <3>1. Kind(c) \in Unary BY <1>3, <2>1 DEF Applies, Unary, OnSuccess, OnFailure, ValueKinds, FutureKinds, AsyncKinds
    <3>2. ~Applies(c)' BY <1>1, <1>2, <1>3, <2>1, <3>1, Zenon DEF Applies
    <3>3. QED BY <1>1, <1>2, <1>3, <2>1, <3>1, <3>2, Zenon DEF Denotes
  <2>2. CASE Applies(c)
    <3>1. Applies(c)' BY <1>1, <1>2, <1>3, <2>2, Zenon DEF Applies, OnSuccess, OnFailure, Unary
    <3>2. CASE program[c].fn = "throws" BY <1>1, <1>2, <1>3, <2>2, <3>1, <3>2, Zenon DEF Denotes
    <3>3. CASE program[c].fn # "throws" /\ Kind(c) \in FutureKinds
      <4>1. result[c] = result[program[c].inner] BY <1>2, <1>3, <2>2, <3>3 DEF Denotes, Kind
      <4>2. result'[program[c].inner] = result[c] BY <1>3, <3>3, <4>1
      <4>3. QED BY <1>1, <3>1, <3>3, <4>2, Zenon DEF Denotes, Kind
    <3>4. CASE program[c].fn # "throws" /\ Kind(c) = "filter"
      <4>1. result'[program[c].src] = result[program[c].src]
        BY <1>2, <1>3, <3>4 DEF Unary, OnSuccess
      <4>2. QED BY <1>1, <1>2, <1>3, <2>2, <3>1, <3>4, <4>1 DEF Denotes, Kind, FutureKinds
    <3>5. CASE program[c].fn # "throws" /\ Kind(c) # "filter" /\ Kind(c) \notin FutureKinds
      BY <1>1, <1>2, <1>3, <2>2, <3>1, <3>5, Zenon DEF Denotes, Kind, Outcome
    <3>6. QED BY <3>2, <3>3, <3>4, <3>5
  <2>3. QED BY <2>1, <2>2
<1>4. ASSUME result[c] # None, Kind(c) = "failed"
      PROVE  LET s == result'[program[c].src] IN
               s # None /\ result[c] = IF s.ok THEN Outcome(FALSE, c) ELSE Outcome(TRUE, s.of)
  <2>1. program[c].src \in Cells BY <1>4 DEF Unary
  <2>2. QED BY <1>4, <2>1, Zenon DEF Means
<1>5. QED BY <1>1, <1>2, <1>3, <1>4, Zenon DEF Means, Outcome

\* Nor does executeAll lose what it gave, once it has.
LEMMA AllOrKept ==
  ASSUME program \in Programs, Stays, NEW c \in Cells, result'[c] = result[c],
         result[c] # None => slots'[c] = slots[c], \A x \in Results : x.ok \in BOOLEAN,
         result[c] # None => result[c] \in Results, AllOr(c)
  PROVE  AllOr(c)'
<1> USE ProgramFacts DEF Stays
<1>1. Kind(c)' = Kind(c) /\ program' = program BY DEF Kind
<1>2. SUFFICES ASSUME Kind(c) = "executeAll", result[c] # None PROVE AllOr(c)'
  BY <1>1, Zenon DEF AllOr
<1>3. \A i \in DOMAIN program[c].list : program[c].list[i] \in Cells BY <1>2
<1>4. CASE result[c].ok
  <2>1. \A i \in DOMAIN program[c].list :
          /\ result[program[c].list[i]] # None /\ result[program[c].list[i]].ok
          /\ slots[c][i] = result[program[c].list[i]].of
    BY <1>2, <1>4, Zenon DEF AllOr
  <2>2. \A i \in DOMAIN program[c].list :
          /\ result'[program[c].list[i]] # None /\ result'[program[c].list[i]].ok
          /\ slots'[c][i] = result'[program[c].list[i]].of
    <3>1. slots'[c] = slots[c] BY <1>2
    <3>2. \A i \in DOMAIN program[c].list : result'[program[c].list[i]] = result[program[c].list[i]]
      BY <1>3, <2>1
    <3>3. QED BY <2>1, <3>1, <3>2
  <2>3. result'[c].ok BY <1>4
  <2>4. QED BY <1>1, <1>2, <2>2, <2>3, SMT DEF AllOr
<1>5. CASE ~result[c].ok
  <2>1. PICK i \in DOMAIN program[c].list : result[c] = result[program[c].list[i]]
    BY <1>2, <1>5, Zenon DEF AllOr
  <2>2. result'[program[c].list[i]] = result[c] BY <1>2, <1>3, <2>1
  <2>3. QED BY <1>1, <1>2, <1>5, <2>1, <2>2, Zenon DEF AllOr
<1>6. QED BY <1>4, <1>5

\* A callback keeps its meaning.
LEMMA OwnKept ==
  ASSUME program \in Programs, Stays, NEW k, k.for \in Cells, Own(k)
  PROVE  Own(k)'
<1> USE ProgramFacts DEF Stays
<1>1. Kind(k.for)' = Kind(k.for) /\ program' = program BY DEF Kind
<1>2. CASE k.part = "relay"
  <2>1. /\ Kind(k.for) \in FutureKinds /\ k.on = program[k.for].inner /\ program[k.for].fn = "returns"
        /\ Kind(k.for) \in Unary => result[program[k.for].src] # None
        /\ Applies(k.for)
    BY <1>2 DEF Own
  <2>2. Kind(k.for) \in Unary => result'[program[k.for].src] = result[program[k.for].src]
    BY <2>1
  <2>3. Applies(k.for)' BY <1>1, <2>1, <2>2, Zenon DEF Applies, OnSuccess, OnFailure, Unary
  <2>4. QED BY <1>1, <1>2, <2>1, <2>2, <2>3, Zenon DEF Own
<1>3. CASE k.part # "relay" BY <1>1, <1>3, Zenon DEF Own
<1>4. QED BY <1>2, <1>3

\* What can be made still can be, with all that it may make.
LEMMA CanMakeKept ==
  ASSUME Stays, NEW d
  PROVE  (Made(d) => Made(d)') /\ (CanMake(d) => CanMake(d)')
<1>1. program' = program /\ \A e : (Kind(e)' = Kind(e)) /\ (Made(e) => Made(e)')
  BY Zenon DEF Stays, Kind, Made
<1>2. ASSUME CanMake(d) PROVE CanMake(d)'
  <2>1. PICK new \in SUBSET Cells :
          /\ d \in new
          /\ \A e \in new : Made(e) /\ (Kind(e) \in FutureKinds => program[e].inner \in built \union new)
    BY <1>2 DEF CanMake
  <2>2. \A e \in new : Made(e)' /\ (Kind(e)' \in FutureKinds => program'[e].inner \in built' \union new)
    BY <1>1, <2>1, Zenon DEF Stays
  <2>3. new \in SUBSET Cells' BY <1>1 DEF Cells
  <2>4. QED BY <2>1, <2>2, <2>3, Zenon DEF CanMake
<1>3. QED BY <1>1, <1>2

\* What can be made has what it is called on; and what its function returns
\* is there, or can be made.
LEMMA CanMakeGives ==
  ASSUME NEW c, CanMake(c)
  PROVE  Makeable(c)
<1>1. PICK new \in SUBSET Cells :
        /\ c \in new
        /\ \A e \in new : Made(e) /\ (Kind(e) \in FutureKinds => program[e].inner \in built \union new)
  BY DEF CanMake
<1>2. \A e \in new : CanMake(e) BY <1>1, Zenon DEF CanMake
<1>3. QED BY <1>1, <1>2, Zenon DEF Makeable

LEMMA MakeableKept ==
  ASSUME Stays, NEW c, Makeable(c)
  PROVE  Makeable(c)'
<1>1. program' = program /\ Kind(c)' = Kind(c) /\ built \subseteq built' BY DEF Stays, Kind
<1>2. QED BY <1>1, CanMakeKept, Zenon DEF Makeable

\* The callbacks a new future registers.
LEMMA NewCallbacks ==
  ASSUME program \in Programs, NEW c \in Cells, Made(c)
  PROVE  \A k \in Registrations(c) :
           /\ k.for = c /\ Own(k) /\ k.on \in built \union {NoCell} /\ k.part \in {"function", "position"}
           /\ k.part = "position" => k.pos \in DOMAIN program[k.for].list
           /\ k = Callback(k.on, k.part, k.for, k.pos)
           /\ k.part # "position" => Registrations(c) = {k}
<1> USE ProgramFacts
<1>1. CASE Kind(c) \in Unary
  <2>1. Registrations(c) = {Callback(program[c].src, "function", c, 0)} BY <1>1 DEF Registrations
  <2>2. program[c].src \in built BY <1>1 DEF Made
  <2> DEFINE k == Callback(program[c].src, "function", c, 0)
  <2>3. k.for = c /\ k.on = program[c].src /\ k.part = "function" /\ k.pos = 0 BY DEF Callback
  <2> HIDE DEF k
  <2>4. QED BY <1>1, <2>1, <2>2, <2>3, Zenon DEF Own, k
<1>2. CASE Kind(c) \in AsyncKinds
  <2>1. Registrations(c) = {Callback(NoCell, "function", c, 0)}
    BY <1>2, Zenon DEF Registrations, Unary, AsyncKinds, OnSuccess, OnFailure
  <2> DEFINE k == Callback(NoCell, "function", c, 0)
  <2>2. k.for = c /\ k.on = NoCell /\ k.part = "function" /\ k.pos = 0 BY DEF Callback
  <2> HIDE DEF k
  <2>3. QED BY <1>2, <2>1, <2>2, Zenon DEF Own, k
<1>3. CASE Kind(c) \notin Unary /\ Kind(c) \notin AsyncKinds
  <2>1. Registrations(c) = {Callback(program[c].list[i], "position", c, i) : i \in DOMAIN program[c].list}
    BY <1>3 DEF Registrations
  <2>2. ASSUME NEW k \in Registrations(c)
        PROVE  /\ k.for = c /\ Own(k) /\ k.on \in built /\ k.part = "position"
               /\ k.pos \in DOMAIN program[k.for].list
               /\ k = Callback(k.on, k.part, k.for, k.pos)
    <3>1. PICK i \in DOMAIN program[c].list : k = Callback(program[c].list[i], "position", c, i)
      BY <2>1, <2>2
    <3>2. k.for = c /\ k.on = program[c].list[i] /\ k.part = "position" /\ k.pos = i BY <3>1 DEF Callback
    <3>3. program[c].list[i] \in built BY DEF Made
    <3>4. Kind(c) = "executeAll" BY <3>1
    <3>5. QED BY <3>1, <3>2, <3>3, <3>4, Zenon DEF Own
  <2>3. QED BY <2>2, Zenon
<1>4. QED BY <1>1, <1>2, <1>3

CallbackType(k) ==
  /\ k.on \in built \union {NoCell} /\ k.for \in built
  /\ k.part \in {"function", "relay", "position"}
  /\ k.part = "position" => k.pos \in DOMAIN program[k.for].list
  /\ k = Callback(k.on, k.part, k.for, k.pos)
WaitType ==
  /\ wait.at \in {"none", "start", "registered", "blocked", "woken", "returned", "threw"}
  /\ wait.on \in Cells \union {NoCell}
  /\ WaitInv
SlotsType ==
  DOMAIN slots = Cells /\ \A c \in Cells : slots[c] \in [DOMAIN program[c].list -> Cells \union {NoCell}]

\* The facts of the invariant that the steps use.
LEMMA InvFacts ==
  ASSUME ChainInv
  PROVE  /\ program \in Programs /\ built \subseteq Cells /\ escaped \subseteq Cells
         /\ result \in [Cells -> Results \union {None}]
         /\ \A c \in Cells : result[c] # None => c \in built
         /\ \A k \in callbacks : CallbackType(k) /\ Own(k) /\ k.for \in Cells
         /\ SlotsType /\ WaitType /\ BuiltInv /\ OneInv /\ SlotsInv /\ OnlySinksEscape
         /\ \A c \in Cells : Means(c) /\ AllOr(c)
BY Zenon DEF ChainInv, TypeOK, Results, CallbackType, SlotsType, WaitType, OwnInv

\* What a step owes the invariant: the rest is kept.
LEMMA ChainStep ==
  ASSUME ChainInv, Stays,
         result' \in [Cells -> Results \union {None}], built' \subseteq Cells,
         \A c \in Cells : result'[c] # None => c \in built',
         \A c \in Cells : result'[c] # result[c] => Means(c)' /\ AllOr(c)',
         \A c \in Cells : result[c] # None => slots'[c] = slots[c],
         \A c \in built' : c \notin built => Makeable(c)',
         \A k \in callbacks' : k \notin callbacks => CallbackType(k)' /\ Own(k)',
         OneInv', SlotsInv', SlotsType', WaitType',
         escaped' = escaped \/ (OnlySinksEscape' /\ escaped' \subseteq Cells)
  PROVE  ChainInv'
<1> USE InvFacts
<1>1. program' = program /\ Cells' = Cells /\ built \subseteq built' BY DEF Stays, Cells
<1>2. \A k \in callbacks' : CallbackType(k)' /\ Own(k)'
  <2> SUFFICES ASSUME NEW k \in callbacks PROVE CallbackType(k)' /\ Own(k)'
    OBVIOUS
  <2>1. Own(k)' BY OwnKept
  <2>2. CallbackType(k)' BY <1>1, Zenon DEF CallbackType
  <2>3. QED BY <2>1, <2>2
<1>3. BuiltInv'
  <2>1. \A c \in Cells : Kind(c) = "promise" => c \in built BY Zenon DEF BuiltInv
  <2>2. \A c \in Cells' : Kind(c)' = "promise" => c \in built' BY <1>1, <2>1, Zenon DEF Kind
  <2>3. \A c \in built' : Makeable(c)'
    <3> SUFFICES ASSUME NEW c \in built PROVE Makeable(c)'
      OBVIOUS
    <3>1. QED BY MakeableKept DEF BuiltInv
  <2>4. QED BY <2>2, <2>3 DEF BuiltInv
<1>4. \A c \in Cells : Means(c)' /\ AllOr(c)'
  <2> SUFFICES ASSUME NEW c \in Cells, result'[c] = result[c] PROVE Means(c)' /\ AllOr(c)'
    OBVIOUS
  <2>1. Means(c)' BY MeansKept
  <2>2. (result[c] # None => result[c] \in Results) /\ \A x \in Results : x.ok \in BOOLEAN
    <3>1. result[c] \in Results \union {None} BY SMT
    <3>2. QED BY <3>1, Zenon DEF Results
  <2>3. AllOr(c)' BY <2>2, AllOrKept
  <2>4. QED BY <2>1, <2>3
<1>5. OnlySinksEscape' /\ escaped' \subseteq Cells BY <1>1, Zenon DEF OnlySinksEscape, Kind
<1>6. TypeOK'
  BY <1>1, <1>2, <1>5, Zenon DEF TypeOK, CallbackType, SlotsType, WaitType, Results
<1>7. QED BY <1>1, <1>2, <1>3, <1>4, <1>5, <1>6, Zenon DEF ChainInv, OwnInv, WaitType

\* Steps that store nothing leave the slots as they should be.
LEMMA SlotsKept ==
  ASSUME ChainInv, Stays, slots' = slots
  PROVE  SlotsInv' /\ SlotsType'
<1> USE InvFacts, ProgramFacts DEF Stays
<1>1. program' = program /\ Cells' = Cells /\ \A c : Kind(c)' = Kind(c) BY DEF Cells, Kind
<1>2. \A c \in Cells : Kind(c) = "executeAll" => \A i \in DOMAIN program[c].list :
        slots[c][i] # NoCell => result[program[c].list[i]] # None /\ result[program[c].list[i]].ok
                                /\ slots[c][i] = result[program[c].list[i]].of
  BY Zenon DEF SlotsInv
<1>3. \A c \in Cells : \A i \in DOMAIN program[c].list :
        result[program[c].list[i]] # None => result'[program[c].list[i]] = result[program[c].list[i]]
  OBVIOUS
<1>4. SlotsInv' BY <1>1, <1>2, <1>3, SMT DEF SlotsInv
<1>5. QED BY <1>1, <1>4, Zenon DEF SlotsType

---------------------------------------------------------------------------
(* The steps.                                                              *)

\* A future completed with what its functions say holds it.
LEMMA MeansMade ==
  ASSUME program \in Programs, UNCHANGED program, NEW c \in Cells, DOMAIN result = Cells,
         Kind(c) \in ValueKinds \union FutureKinds, Kind(c) \in Unary => result[program[c].src] # None,
         result' = [result EXCEPT ![c] = Denotes(c)]
  PROVE  Means(c)'
<1> USE ProgramFacts
<1>1. Kind(c)' = Kind(c) /\ program' = program /\ Kind(c) # "failed"
  BY DEF Kind, ValueKinds, FutureKinds
<1>2. result'[c] = Denotes(c) /\ \A d \in Cells : d # c => result'[d] = result[d]
  BY SMT
<1>3. Kind(c) \in Unary => result'[program[c].src] = result[program[c].src] BY <1>2
<1>4. Denotes(c)' = Denotes(c)
  <2>1. Applies(c)' <=> Applies(c)
    <3>1. Kind(c) \in OnSuccess \union OnFailure => Kind(c) \in Unary BY DEF Unary
    <3>2. QED BY <1>1, <1>3, <3>1, Zenon DEF Applies
  <2>2. ~Applies(c) => Kind(c) \in Unary BY DEF Applies, Unary, OnSuccess, OnFailure, ValueKinds, FutureKinds, AsyncKinds
  <2>3. Kind(c) = "filter" => Kind(c) \in Unary BY DEF Unary, OnSuccess
  <2>4. Kind(c) \in FutureKinds => result'[program[c].inner] = result[program[c].inner] BY <1>2
  <2>5. QED BY <1>1, <1>3, <2>1, <2>2, <2>3, <2>4, Zenon DEF Denotes, Kind, Outcome
<1>5. QED BY <1>1, <1>2, <1>3, <1>4, Zenon DEF Means

\* A callback completes its future.
LEMMA Completes ==
  ASSUME ChainInv, NEW k \in callbacks, k.part # "position", Kind(k.for) # "executeAll",
         NEW r \in Results, SetResult(k.for, r), Done(k), UNCHANGED <<program, built, slots, wait>>,
         result' = [result EXCEPT ![k.for] = r] => Means(k.for)'
  PROVE  ChainInv'
<1> USE InvFacts, ProgramFacts
<1> DEFINE c == k.for
<1>1. c \in Cells /\ c \in built /\ result[c] = None BY Zenon DEF CallbackType, OneInv
<1>2. result' = [result EXCEPT ![c] = r] /\ escaped' = escaped BY <1>1 DEF SetResult
<1> HIDE DEF c
<1>3. result'[c] = r /\ \A d \in Cells : d # c => result'[d] = result[d] BY <1>1, <1>2, SMT
<1>4. r # None /\ result' \in [Cells -> Results \union {None}] BY <1>1, <1>2, SMT
<1>5. Stays /\ program' = program /\ built' = built /\ Cells' = Cells
  BY <1>1, <1>3, SMT DEF Stays, Cells
<1>6. \A d \in Cells : result'[d] # None => d \in built' BY <1>1, <1>3, <1>5
<1>7. \A d \in Cells : result'[d] # result[d] => Means(d)' /\ AllOr(d)'
  <2>1. Means(c)' BY <1>2 DEF c
  <2>2. AllOr(c)' BY <1>5, Zenon DEF AllOr, Kind, c
  <2>3. QED BY <1>3, <2>1, <2>2
<1>8. OneInv'
  <2>1. callbacks' = callbacks \ {k} BY DEF Done
  <2>2. ASSUME NEW j \in callbacks', j.part # "position"
        PROVE  /\ result'[j.for] = None
               /\ \A i \in callbacks' : i.part # "position" /\ i.for = j.for => i = j
    <3>1. j.for # c BY <2>1, <2>2, Zenon DEF OneInv, c
    <3>2. j.for \in Cells /\ result[j.for] = None BY <2>1, <2>2, Zenon DEF OneInv
    <3>3. QED BY <1>3, <2>1, <2>2, <3>1, <3>2, Zenon DEF OneInv
  <2>3. QED BY <2>2, Zenon DEF OneInv
<1>9. SlotsInv' /\ SlotsType' BY <1>5, SlotsKept
<1>10. WaitType' BY <1>5, Zenon DEF WaitType, WaitInv
<1>11. QED BY <1>2, <1>4, <1>5, <1>6, <1>7, <1>8, <1>9, <1>10, ChainStep DEF Done

\* What the callback of a function is handed, and whether it calls it.
LEMMA FunctionFacts ==
  ASSUME ChainInv, NEW k \in callbacks, Due(k), IsFunction(k)
  PROVE  /\ k.for \in Cells /\ Kind(k.for) \in Unary \union AsyncKinds
         /\ Kind(k.for) \in Unary =>
              Given(k) = result[program[k.for].src] /\ Given(k) # None /\ Given(k) \in Results
         /\ CallsFunction(k) <=> Applies(k.for)
<1> USE InvFacts, ProgramFacts
<1>1. k.part = "function" /\ Own(k) /\ k.for \in Cells BY DEF IsFunction
<1>2. Kind(k.for) \in Unary \union AsyncKinds /\ (Kind(k.for) \in Unary => k.on = program[k.for].src)
  BY <1>1 DEF Own, Unary, AsyncKinds, OnSuccess, OnFailure
<1>3. Kind(k.for) \in Unary =>
        Given(k) = result[program[k.for].src] /\ Given(k) # None /\ Given(k) \in Results
  <2> SUFFICES ASSUME Kind(k.for) \in Unary
               PROVE  Given(k) = result[program[k.for].src] /\ Given(k) # None /\ Given(k) \in Results
    OBVIOUS
  <2>1. k.on \in Cells /\ k.on = program[k.for].src BY <1>1, <1>2
  <2>2. result[k.on] # None BY <2>1 DEF Due
  <2>3. QED BY <2>1, <2>2, SMT DEF Given
<1>4. CallsFunction(k) <=> Applies(k.for)
  <2>1. Kind(k.for) \in OnSuccess \union OnFailure => Kind(k.for) \in Unary BY DEF Unary
  <2>2. QED BY <1>1, <1>3, <2>1, Zenon DEF CallsFunction, Applies, IsFunction
<1>5. QED BY <1>1, <1>2, <1>3, <1>4

\* An outcome of a cell is a result.
LEMMA OutcomeType ==
  ASSUME NEW c \in Cells
  PROVE  Outcome(TRUE, c) \in Results /\ Outcome(FALSE, c) \in Results
BY Zenon DEF Outcome, Results

\* A function is called, or passed by, and its future completed.
LEMMA FunctionInv ==
  ASSUME ChainInv, NEW k \in callbacks, Due(k),
         FunctionReturns(k) \/ FunctionThrows(k) \/ (IsFunction(k) /\ PassOn(k))
  PROVE  ChainInv'
<1> USE InvFacts, ProgramFacts, FunctionFacts
<1> DEFINE c == k.for
<1>1. IsFunction(k) /\ k.part # "position" /\ c \in Cells /\ DOMAIN result = Cells
  <2>1. IsFunction(k) BY Zenon DEF FunctionReturns, FunctionThrows, CallsFunction
  <2>2. DOMAIN result = Cells BY SMT
  <2>3. QED BY <2>1, <2>2 DEF IsFunction
<1>2. Kind(c) \in ValueKinds \union FutureKinds /\ Done(k) /\ UNCHANGED <<program, built, slots, wait>>
  BY <1>1, Zenon DEF FunctionReturns, FunctionThrows, PassOn, IsFunction
<1>3. Kind(c) # "executeAll" BY <1>2 DEF ValueKinds, FutureKinds
<1>4. Kind(c) \in Unary => result[program[c].src] # None BY <1>1
<1>5. SetResult(c, Denotes(c)) /\ Denotes(c) \in Results
  <2>1. CASE FunctionReturns(k)
    <3>1. Applies(c) /\ program[c].fn # "throws" /\ Kind(c) \notin FutureKinds
      BY <1>1, <2>1 DEF FunctionReturns, Returns, ValueKinds, FutureKinds
    <3>2. Kind(c) = "filter" => Kind(c) \in Unary BY DEF Unary, OnSuccess
    <3>3. Denotes(c) = IF Kind(c) = "filter" THEN Given(k) ELSE Outcome(TRUE, c)
      BY <1>1, <3>1, <3>2, Zenon DEF Denotes, Kind
    <3>4. QED BY <1>1, <2>1, <3>2, <3>3, OutcomeType, Zenon DEF FunctionReturns
  <2>2. CASE FunctionThrows(k)
    <3>1. Applies(c) /\ program[c].fn = "throws"
      BY <1>1, <2>2 DEF FunctionThrows, Returns
    <3>2. Denotes(c) = Outcome(FALSE, c) BY <3>1, Zenon DEF Denotes
    <3>3. QED BY <1>1, <2>2, <3>2, OutcomeType, Zenon DEF FunctionThrows
  <2>3. CASE IsFunction(k) /\ PassOn(k)
    <3>1. ~CallsFunction(k) /\ SetResult(c, Given(k)) BY <2>3 DEF PassOn, IsFunction
    <3>2. Kind(c) \in Unary BY <1>1, <3>1 DEF CallsFunction
    <3>3. Denotes(c) = Given(k) BY <1>1, <3>1, <3>2, Zenon DEF Denotes
    <3>4. QED BY <1>1, <3>1, <3>2, <3>3
  <2>4. QED BY <2>1, <2>2, <2>3
<1>6. result' = [result EXCEPT ![c] = Denotes(c)] => Means(c)'
  BY <1>1, <1>2, <1>4, MeansMade
<1>7. QED BY <1>1, <1>2, <1>3, <1>5, <1>6, Completes

\* A relay hands on what the inner future was completed with.
LEMMA RelayInv ==
  ASSUME ChainInv, NEW k \in callbacks, Due(k), ~IsFunction(k), PassOn(k)
  PROVE  ChainInv'
<1> USE InvFacts, ProgramFacts
<1> DEFINE c == k.for
<1>1. k.part = "relay" /\ c \in Cells /\ DOMAIN result = Cells /\ SetResult(c, Given(k)) /\ Done(k)
      /\ UNCHANGED <<program, built, slots, wait>>
  BY SMT DEF PassOn
<1>2. /\ Kind(c) \in FutureKinds /\ k.on = program[c].inner /\ program[c].fn = "returns"
      /\ Kind(c) \in Unary => result[program[c].src] # None
      /\ Applies(c)
  BY <1>1 DEF Own
<1>3. Denotes(c) = Given(k) BY <1>2, Zenon DEF Denotes, Given, Kind
<1>4. Given(k) \in Results
  <2>1. k.on \in Cells BY <1>1, <1>2
  <2>2. result[k.on] # None BY <2>1 DEF Due
  <2>3. QED BY <2>1, <2>2, SMT DEF Given
<1>5. Kind(c) # "executeAll" BY <1>2 DEF FutureKinds
<1>6. result' = [result EXCEPT ![c] = Denotes(c)] => Means(c)'
  BY <1>1, <1>2, MeansMade
<1>7. QED BY <1>1, <1>3, <1>4, <1>5, <1>6, Completes

\* failed() of a future, and the callbacks that no future comes of.
LEMMA ProjectInv ==
  ASSUME ChainInv, NEW k \in callbacks, Due(k), Project(k)
  PROVE  ChainInv'
<1> USE InvFacts, ProgramFacts
<1> DEFINE c == k.for
           r == IF Given(k).ok THEN Outcome(FALSE, c) ELSE Outcome(TRUE, Given(k).of)
<1>1. /\ IsFunction(k) /\ k.part # "position" /\ Kind(c) = "failed" /\ SetResult(c, r) /\ Done(k)
      /\ UNCHANGED <<program, built, slots, wait>>
  BY DEF Project, IsFunction
<1>2. /\ c \in Cells /\ Kind(c) \in Unary /\ Given(k) = result[program[c].src] /\ Given(k) # None
      /\ Given(k) \in Results
  BY <1>1, FunctionFacts DEF Unary
<1>3. r \in Results
  <2>1. Given(k).of \in Cells BY <1>2, Zenon DEF Results
  <2>2. QED BY <1>2, <2>1, OutcomeType
<1>4. result' = [result EXCEPT ![c] = r] => Means(c)'
  <2> SUFFICES ASSUME result' = [result EXCEPT ![c] = r] PROVE Means(c)'
    OBVIOUS
  <2>1. DOMAIN result = Cells BY SMT
  <2>2. result'[c] = r /\ result'[program[c].src] = Given(k) BY <1>2, <2>1
  <2>3. Kind(c)' = "failed" /\ program' = program BY <1>1 DEF Kind
  <2>4. "failed" \notin ValueKinds \union FutureKinds BY DEF ValueKinds, FutureKinds
  <2>5. QED BY <1>2, <2>2, <2>3, <2>4, Zenon DEF Means, Outcome
<1> HIDE DEF r
<1>5. QED BY <1>1, <1>3, <1>4, Completes

\* A callback fewer: nobody completes a future of that callback any more.
LEMMA OneFewer ==
  ASSUME ChainInv, UNCHANGED result, callbacks' \subseteq callbacks
  PROVE  OneInv'
BY InvFacts, Zenon DEF OneInv

LEMMA SinkInv ==
  ASSUME ChainInv, NEW k \in callbacks, RunSink(k)
  PROVE  ChainInv'
<1> USE InvFacts, ProgramFacts
<1>1. /\ k.for \in Cells /\ Kind(k.for) \in SinkKinds /\ callbacks' = callbacks \ {k}
      /\ UNCHANGED <<program, built, result, slots, wait>> /\ escaped' \subseteq escaped \union {k.for}
  BY DEF RunSink, Done
<1>2. Stays /\ Cells' = Cells BY <1>1, Zenon DEF Stays, Cells
<1>3. OneInv' BY <1>1, OneFewer
<1>4. SlotsInv' /\ SlotsType' BY <1>1, <1>2, SlotsKept
<1>5. WaitType' BY <1>1, <1>2, Zenon DEF WaitType, WaitInv
<1>6. OnlySinksEscape' /\ escaped' \subseteq Cells BY <1>1, Zenon DEF OnlySinksEscape, Kind
<1>7. QED BY <1>1, <1>2, <1>3, <1>4, <1>5, <1>6, ChainStep

\* executeAll stores a value, succeeds with the last, or fails with the
\* first failure; and does nothing once it has a result.
LEMMA PositionInv ==
  ASSUME ChainInv, NEW k \in callbacks, Due(k), StorePosition(k)
  PROVE  ChainInv'
<1> USE InvFacts, ProgramFacts
<1> DEFINE c == k.for
           d == program[c].list[k.pos]
           stored == [slots[c] EXCEPT ![k.pos] = Given(k).of]
<1>1. /\ k.part = "position" /\ callbacks' = callbacks \ {k} /\ UNCHANGED <<program, built, wait>>
      /\ c \in Cells /\ c \in built /\ k.pos \in DOMAIN program[c].list
      /\ Kind(c) = "executeAll" /\ k.on = d /\ d \in Cells /\ d # c
  BY Zenon DEF StorePosition, Done, CallbackType, Own
<1>2. Given(k) = result[d] /\ Given(k) # None /\ Given(k) \in Results
  <2>1. result[d] # None BY <1>1 DEF Due
  <2>2. QED BY <1>1, <2>1, SMT DEF Given
<1>3. Given(k).of \in Cells /\ Given(k).ok \in BOOLEAN BY <1>2, Zenon DEF Results
<1>4. Cells' = Cells /\ program' = program /\ \A e : Kind(e)' = Kind(e) BY <1>1 DEF Cells, Kind
<1>5. WaitType' BY <1>1, <1>4, Zenon DEF WaitType, WaitInv
<1>6. CASE Decided(c)
  <2>1. UNCHANGED <<slots, result, escaped>> BY <1>6, Zenon DEF StorePosition
  <2>2. Stays BY <1>1, <2>1, Zenon DEF Stays
  <2>3. OneInv' BY <1>1, <2>1, OneFewer
  <2>4. SlotsInv' /\ SlotsType' BY <2>1, <2>2, SlotsKept
  <2>5. QED BY <1>1, <1>4, <1>5, <2>1, <2>2, <2>3, <2>4, ChainStep
\* It has no result: what a completion of it asks for.
<1>7. ASSUME NEW r \in Results, ~Decided(c), SetResult(c, r), SlotsInv', SlotsType', AllOr(c)',
             \A e \in Cells : e # c => slots'[e] = slots[e]
      PROVE  ChainInv'
  <2>1. result[c] = None /\ result' = [result EXCEPT ![c] = r] /\ escaped' = escaped
    BY <1>7 DEF Decided, SetResult
  <2>2. result'[c] = r /\ \A e \in Cells : e # c => result'[e] = result[e] BY <1>1, <2>1, SMT
  <2>3. Stays BY <1>1, <2>1, <2>2, SMT DEF Stays
  <2>4. result' \in [Cells -> Results \union {None}] BY <1>1, <2>1, SMT
  <2>5. Means(c)' BY <1>1, <1>4, Zenon DEF Means, ValueKinds, FutureKinds
  <2>6. OneInv'
    <3>1. \A j \in callbacks : j.part # "position" => j.for # c
      BY <1>1, Zenon DEF Own, Unary, AsyncKinds, FutureKinds, OnSuccess, OnFailure
    <3>2. QED BY <1>1, <2>2, <3>1, Zenon DEF OneInv
  <2>7. QED BY <1>1, <1>4, <1>5, <1>7, <2>1, <2>2, <2>3, <2>4, <2>5, <2>6, ChainStep
<1>8. CASE ~Decided(c) /\ Given(k).ok
  <2>1. slots' = [slots EXCEPT ![c] = stored]
    BY <1>8, Zenon DEF StorePosition
  <2>2. /\ slots[c] \in [DOMAIN program[c].list -> Cells \union {NoCell}] /\ DOMAIN slots = Cells
    BY <1>1 DEF SlotsType
  <2>3. /\ slots'[c] = stored /\ \A e \in Cells : e # c => slots'[e] = slots[e]
        /\ stored[k.pos] = Given(k).of /\ \A i \in DOMAIN program[c].list : i # k.pos => stored[i] = slots[c][i]
        /\ stored \in [DOMAIN program[c].list -> Cells \union {NoCell}] /\ DOMAIN slots' = Cells
    BY <1>1, <1>3, <2>1, <2>2, SMT
  <2> HIDE DEF d, stored
  <2>4. SlotsType'
    <3>1. \A e \in Cells : slots'[e] \in [DOMAIN program[e].list -> Cells \union {NoCell}]
      <4> SUFFICES ASSUME NEW e \in Cells PROVE slots'[e] \in [DOMAIN program[e].list -> Cells \union {NoCell}]
        OBVIOUS
      <4>1. CASE e = c BY <2>3, <4>1
      <4>2. CASE e # c BY <2>3, <4>2 DEF SlotsType
      <4>3. QED BY <4>1, <4>2
    <3>2. QED BY <1>4, <2>3, <3>1, Zenon DEF SlotsType
  <2>o. \A e \in Cells : Kind(e) = "executeAll" => \A i \in DOMAIN program[e].list :
          slots[e][i] # NoCell => result[program[e].list[i]] # None /\ result[program[e].list[i]].ok
                                  /\ slots[e][i] = result[program[e].list[i]].of
    BY Zenon DEF SlotsInv
  <2>5. \A i \in DOMAIN program[c].list : stored[i] # NoCell =>
          /\ result[program[c].list[i]] # None /\ result[program[c].list[i]].ok
          /\ stored[i] = result[program[c].list[i]].of
    <3> SUFFICES ASSUME NEW i \in DOMAIN program[c].list, stored[i] # NoCell
                 PROVE  /\ result[program[c].list[i]] # None /\ result[program[c].list[i]].ok
                        /\ stored[i] = result[program[c].list[i]].of
      OBVIOUS
    <3>1. CASE i = k.pos BY <1>2, <1>8, <2>3, <3>1 DEF d
    <3>2. CASE i # k.pos BY <1>1, <2>3, <2>o, <3>2
    <3>3. QED BY <3>1, <3>2
  <2>6. ASSUME \A e \in Cells : result[e] # None => result'[e] = result[e]
        PROVE  SlotsInv'
    <3>1. \A e \in Cells : \A i \in DOMAIN program[e].list :
            result[program[e].list[i]] # None => result'[program[e].list[i]] = result[program[e].list[i]]
      BY <2>6
    <3>2. \A e \in Cells : Kind(e) = "executeAll" => \A i \in DOMAIN program[e].list :
            slots'[e][i] # NoCell =>
              /\ result[program[e].list[i]] # None /\ result[program[e].list[i]].ok
              /\ slots'[e][i] = result[program[e].list[i]].of
      <4> SUFFICES ASSUME NEW e \in Cells, Kind(e) = "executeAll", NEW i \in DOMAIN program[e].list,
                          slots'[e][i] # NoCell
                   PROVE  /\ result[program[e].list[i]] # None /\ result[program[e].list[i]].ok
                          /\ slots'[e][i] = result[program[e].list[i]].of
        OBVIOUS
      <4>1. CASE e = c BY <2>3, <2>5, <4>1
      <4>2. CASE e # c BY <2>3, <2>o, <4>2
      <4>3. QED BY <4>1, <4>2
    <3>3. QED BY <1>4, <3>1, <3>2, SMT DEF SlotsInv
  <2>7. CASE Filled(stored)
    <3>1. SetResult(c, Outcome(TRUE, c)) BY <1>8, <2>7, Zenon DEF StorePosition, stored
    <3>2. result[c] = None /\ result' = [result EXCEPT ![c] = Outcome(TRUE, c)]
      BY <1>8, <3>1 DEF Decided, SetResult
    <3>3. result'[c] = Outcome(TRUE, c) /\ \A e \in Cells : e # c => result'[e] = result[e]
      <4>1. DOMAIN result = Cells BY SMT
      <4>2. QED BY <1>1, <3>2, <4>1, Zenon
    <3>4. SlotsInv' BY <2>6, <3>2, <3>3
    <3>5. \A i \in DOMAIN program[c].list :
            /\ result'[program[c].list[i]] # None /\ result'[program[c].list[i]].ok
            /\ slots'[c][i] = result'[program[c].list[i]].of
      <4>1. DOMAIN stored = DOMAIN program[c].list BY <2>3
      <4>2. \A i \in DOMAIN program[c].list : stored[i] # NoCell BY <2>7, <4>1 DEF Filled
      <4>3. QED BY <1>1, <2>3, <2>5, <3>3, <4>2
    <3>6. result'[c].ok BY <3>3 DEF Outcome
    <3>7. AllOr(c)' BY <1>4, <3>5, <3>6, SMT DEF AllOr
    <3>8. QED BY <1>1, <1>7, <1>8, <2>3, <2>4, <3>1, <3>4, <3>7, OutcomeType
  <2>8. CASE ~Filled(stored)
    <3>1. UNCHANGED <<result, escaped>> BY <1>8, <2>8, Zenon DEF StorePosition, stored
    <3>2. Stays BY <1>1, <3>1, Zenon DEF Stays
    <3>3. SlotsInv' BY <2>6, <3>1
    <3>4. OneInv' BY <1>1, <3>1, OneFewer
    <3>5. \A e \in Cells : result[e] # None => slots'[e] = slots[e] BY <1>8, <2>3 DEF Decided
    <3>6. QED BY <1>1, <1>4, <1>5, <2>4, <3>1, <3>2, <3>3, <3>4, <3>5, ChainStep
  <2>9. QED BY <2>7, <2>8
<1>9. CASE ~Decided(c) /\ ~Given(k).ok
  <2>1. SetResult(c, Given(k)) /\ slots' = slots BY <1>9, Zenon DEF StorePosition
  <2>2. result[c] = None /\ result' = [result EXCEPT ![c] = Given(k)] BY <1>9, <2>1 DEF Decided, SetResult
  <2>3. result'[c] = Given(k) /\ \A e \in Cells : e # c => result'[e] = result[e] BY <1>1, <2>2, SMT
  <2>4. Stays BY <1>1, <2>2, <2>3, SMT DEF Stays
  <2>5. SlotsInv' /\ SlotsType' BY <2>1, <2>4, SlotsKept
  <2>6. result'[d] = result'[c] BY <1>1, <1>2, <2>3
  <2>7. ~result'[c].ok BY <1>9, <2>3
  <2>8. AllOr(c)' BY <1>1, <1>4, <2>6, <2>7, SMT DEF AllOr
  <2>9. QED BY <1>2, <1>7, <1>9, <2>1, <2>5, <2>8
<1>10. QED BY <1>6, <1>8, <1>9

\* A future is made, by the program or by the function of another one; rest
\* is what the other callbacks are after it.
LEMMA NewFutureInv ==
  ASSUME ChainInv, NEW c \in Cells, c \notin built, CanMake(c),
         built' = built \union {c}, result' = ResultsAfterMaking(c),
         UNCHANGED <<program, slots, escaped, wait>>,
         NEW rest, callbacks' = rest \union Registrations(c),
         \A k \in rest : k \notin callbacks =>
           /\ k.for \in built /\ k.on \in built' /\ k.part = "relay" /\ Own(k)
           /\ k = Callback(k.on, k.part, k.for, k.pos),
         \A k \in rest : k.part # "position" =>
           /\ result[k.for] = None
           /\ \A j \in rest : j.part # "position" /\ j.for = k.for => j = k
  PROVE  ChainInv'
<1> USE InvFacts, ProgramFacts
<1>1. result[c] = None /\ program' = program /\ Cells' = Cells /\ Makeable(c)
  BY CanMakeGives DEF Cells
<1>2. \A d \in Cells : d # c => result'[d] = result[d]
  <2>1. DOMAIN result = Cells BY SMT
  <2>2. QED BY <2>1, Zenon DEF ResultsAfterMaking
<1>3. result' \in [Cells -> Results \union {None}]
  <2>1. \A ok \in BOOLEAN : Outcome(ok, c) \in Results BY OutcomeType
  <2>2. (Kind(c) = "successful") \in BOOLEAN BY Zenon
  <2> DEFINE o == Outcome(Kind(c) = "successful", c)
  <2>3. o \in Results BY <2>1, <2>2
  <2>4. result' = result \/ result' = [result EXCEPT ![c] = o] BY DEF ResultsAfterMaking
  <2> HIDE DEF o
  <2>5. QED BY <2>3, <2>4, SMT
<1>4. Stays BY <1>1, <1>2, Zenon DEF Stays
<1>5. Kind(c) \in Unary \union AsyncKinds => result'[c] = None
  BY <1>1, Zenon DEF ResultsAfterMaking, Unary, AsyncKinds, OnSuccess, OnFailure
<1>6. \A d \in Cells : result'[d] # result[d] => Means(d)' /\ AllOr(d)'
  <2> SUFFICES ASSUME result'[c] # result[c] PROVE Means(c)' /\ AllOr(c)'
    BY <1>2, Zenon
  <2>1. Kind(c) \in {"successful", "failure"} BY DEF ResultsAfterMaking
  <2>2. Kind(c) \notin ValueKinds \union FutureKinds /\ Kind(c) # "failed" /\ Kind(c) # "executeAll"
    BY <2>1 DEF ValueKinds, FutureKinds
  <2>3. Kind(c)' \notin ValueKinds \union FutureKinds /\ Kind(c)' # "failed" /\ Kind(c)' # "executeAll"
    BY <1>1, <2>2 DEF Kind
  <2>4. Means(c)' BY <2>3, Zenon DEF Means
  <2>5. AllOr(c)' BY <2>3, Zenon DEF AllOr
  <2>6. QED BY <2>4, <2>5
<1>7. \A d \in built' : d \notin built => Makeable(d)' BY <1>1, <1>4, MakeableKept, Zenon
<1>8. \A k \in Registrations(c) :
        /\ k.for = c /\ Own(k) /\ k.on \in built \union {NoCell} /\ k.part \in {"function", "position"}
        /\ k.part = "position" => k.pos \in DOMAIN program[k.for].list
        /\ k = Callback(k.on, k.part, k.for, k.pos)
        /\ k.part # "position" => Registrations(c) = {k}
  BY <1>1, NewCallbacks DEF Makeable
<1>9. \A k \in callbacks' : k \notin callbacks => CallbackType(k)' /\ Own(k)'
  <2> SUFFICES ASSUME NEW k \in callbacks', k \notin callbacks PROVE CallbackType(k)' /\ Own(k)'
    OBVIOUS
  <2>1. CASE k \in Registrations(c)
    <3>1. Own(k)' BY <1>4, <1>8, <2>1, OwnKept
    <3>2. QED BY <1>1, <1>8, <2>1, <3>1, Zenon DEF CallbackType
  <2>2. CASE k \in rest
    <3>1. k.for \in Cells BY <2>2
    <3>2. Own(k)' BY <1>4, <2>2, <3>1, OwnKept
    <3>3. QED BY <1>1, <2>2, <3>2, Zenon DEF CallbackType
  <2>3. QED BY <2>1, <2>2
<1>10. OneInv'
  <2>1. \A k \in rest : k.for \in built /\ k.for \in Cells BY Zenon DEF CallbackType
  <2>2. \A k \in rest : k.for # c /\ result'[k.for] = result[k.for] BY <1>2, <2>1
  <2>3. ASSUME NEW k \in rest, k.part # "position"
        PROVE  result'[k.for] = None /\ \A j \in callbacks' : j.part # "position" /\ j.for = k.for => j = k
    <3>1. result[k.for] = None /\ \A j \in rest : j.part # "position" /\ j.for = k.for => j = k
      BY <2>3, Zenon
    <3>2. \A j \in Registrations(c) : j.for # k.for BY <1>8, <2>2, <2>3, Zenon
    <3>3. QED BY <2>2, <2>3, <3>1, <3>2, Zenon
  <2>4. ASSUME NEW k \in Registrations(c), k.part # "position"
        PROVE  result'[k.for] = None /\ \A j \in callbacks' : j.part # "position" /\ j.for = k.for => j = k
    <3>1. Kind(c) \in Unary \union AsyncKinds BY <1>8, <2>4, Zenon DEF Own
    <3>2. k.for = c /\ result'[c] = None /\ Registrations(c) = {k} BY <1>5, <1>8, <2>4, <3>1
    <3>3. \A j \in callbacks' : j = k \/ j \in rest BY <3>2
    <3>4. QED BY <2>2, <3>2, <3>3
  <2>5. QED BY <2>3, <2>4, Zenon DEF OneInv
<1>11. SlotsInv' /\ SlotsType' BY <1>4, SlotsKept
<1>12. WaitType' BY <1>1, Zenon DEF WaitType, WaitInv
<1>13. \A d \in Cells : result'[d] # None => d \in built' BY <1>2
<1>14. QED BY <1>1, <1>3, <1>4, <1>6, <1>7, <1>9, <1>10, <1>11, <1>12, <1>13, ChainStep

\* The program makes a future.
LEMMA MakeInv ==
  ASSUME ChainInv, NEW c \in Cells, Make(c)
  PROVE  ChainInv'
<1>1. \A k \in callbacks : k.part # "position" =>
        result[k.for] = None /\ \A j \in callbacks : j.part # "position" /\ j.for = k.for => j = k
  BY InvFacts, Zenon DEF OneInv
<1>2. QED BY <1>1, NewFutureInv DEF Make

\* A function returns a future, and makes it if it is not there.
LEMMA ReturnsFutureInv ==
  ASSUME ChainInv, NEW k \in callbacks, Due(k), FunctionReturnsFuture(k)
  PROVE  ChainInv'
<1> USE InvFacts, ProgramFacts
<1> DEFINE c == k.for
<1>c. PICK inner : inner = program[c].inner OBVIOUS
<1>d. PICK relay : relay = Callback(inner, "relay", c, 0) OBVIOUS
<1>e. PICK rest : rest = (callbacks \ {k}) \union {relay} OBVIOUS
<1>1. IsFunction(k) /\ k.part # "position" BY DEF FunctionReturnsFuture, CallsFunction, IsFunction
<1>2. /\ c \in Cells /\ c \in built /\ Kind(c) \in FutureKinds /\ Applies(c) /\ program[c].fn = "returns"
      /\ inner \in Cells
      /\ Kind(c) \in Unary => result[program[c].src] # None
      /\ UNCHANGED <<program, slots, escaped, wait>>
  BY <1>c, <1>1, FunctionFacts, Zenon DEF FunctionReturnsFuture, Returns, CallbackType
<1>3. relay.on = inner /\ relay.part = "relay" /\ relay.for = c /\ relay.pos = 0 BY <1>d DEF Callback
<1>4. relay = Callback(relay.on, relay.part, relay.for, relay.pos) BY <1>d, <1>3
<1>5. built' = built \union {inner} /\ (inner \in built => result' = result) /\ (inner \notin built => result' = ResultsAfterMaking(inner))
      /\ callbacks' = rest \union (IF inner \in built THEN {} ELSE Registrations(inner))
  BY <1>c, <1>d, <1>e DEF FunctionReturnsFuture
<1>6. Own(relay) BY <1>c, <1>2, <1>3, Zenon DEF Own
<1>7. \A j \in rest : j.part # "position" =>
        /\ result[j.for] = None
        /\ \A i \in rest : i.part # "position" /\ i.for = j.for => i = j
  <2>1. /\ result[c] = None /\ \A j \in callbacks : j.part # "position" /\ j.for = c => j = k
        /\ \A j \in callbacks : j.part # "position" =>
             result[j.for] = None /\ \A i \in callbacks : i.part # "position" /\ i.for = j.for => i = j
    BY <1>1, Zenon DEF OneInv
  <2>2. \A j \in rest : j.part # "position" => j = relay \/ (j \in callbacks /\ j.for # c)
    BY <1>e, <2>1
  <2>3. QED BY <1>3, <2>1, <2>2, SMT
<1>8. CASE inner \notin built
  <2>1. CanMake(inner) BY <1>c, <1>2, <1>8, Zenon DEF BuiltInv, Makeable
  <2>2. \A j \in rest : j \notin callbacks => j = relay BY <1>e
  <2>3. inner \in built' BY <1>5
  <2>4. \A j \in rest : j \notin callbacks =>
          /\ j.for \in built /\ j.on \in built' /\ j.part = "relay" /\ Own(j)
          /\ j = Callback(j.on, j.part, j.for, j.pos)
    BY <1>2, <1>3, <1>4, <1>6, <2>2, <2>3
  <2>5. callbacks' = rest \union Registrations(inner) /\ result' = ResultsAfterMaking(inner) BY <1>5, <1>8
  <2>6. QED BY <1>2, <1>5, <1>7, <1>8, <2>1, <2>4, <2>5, NewFutureInv
<1>9. CASE inner \in built
  <2>1. built' = built /\ result' = result /\ callbacks' = rest BY <1>5, <1>9
  <2>2. Stays /\ Cells' = Cells BY <1>2, <2>1, Zenon DEF Stays, Cells
  <2>3. CallbackType(relay)' BY <1>2, <1>3, <1>4, <1>9, <2>1, Zenon DEF CallbackType
  <2>4. Own(relay)' BY <1>2, <1>3, <1>6, <2>2, OwnKept
  <2>5. OneInv' BY <1>7, <2>1, Zenon DEF OneInv
  <2>6. SlotsInv' /\ SlotsType' BY <1>2, <2>2, SlotsKept
  <2>7. WaitType' BY <1>2, <2>2, Zenon DEF WaitType, WaitInv
  <2>8. \A j \in callbacks' : j \notin callbacks => CallbackType(j)' /\ Own(j)' BY <1>e, <2>1, <2>3, <2>4
  <2>9. QED BY <1>2, <2>1, <2>2, <2>5, <2>6, <2>7, <2>8, ChainStep
<1>10. QED BY <1>8, <1>9

\* A promise is completed.
LEMMA PromiseInv ==
  ASSUME ChainInv, NEW c \in Cells, NEW ok \in BOOLEAN, CompletePromise(c, ok)
  PROVE  ChainInv'
<1> USE InvFacts, ProgramFacts
<1>1. /\ Kind(c) = "promise" /\ result[c] = None /\ result' = [result EXCEPT ![c] = Outcome(ok, c)]
      /\ UNCHANGED <<program, built, callbacks, slots, escaped, wait>> /\ c \in built
  BY DEF CompletePromise, BuiltInv
<1>2. Outcome(ok, c) \in Results BY OutcomeType
<1>3. DOMAIN result = Cells BY SMT
<1>4. result' \in [Cells -> Results \union {None}] BY <1>1, <1>2, <1>3, SMT
<1>5. \A d \in Cells : d # c => result'[d] = result[d] BY <1>1, <1>3, Zenon
<1>6. Stays /\ Cells' = Cells BY <1>1, <1>5, Zenon DEF Stays, Cells
<1>7. Means(c)' /\ AllOr(c)'
  BY <1>1, Zenon DEF Means, AllOr, Kind, ValueKinds, FutureKinds
<1>8. OneInv'
  <2>1. \A k \in callbacks : k.part # "position" => k.for # c
    BY <1>1, Zenon DEF Own, Unary, AsyncKinds, FutureKinds, OnSuccess, OnFailure
  <2>2. \A k \in callbacks : k.part # "position" =>
          result[k.for] = None /\ \A j \in callbacks : j.part # "position" /\ j.for = k.for => j = k
    BY Zenon DEF OneInv
  <2>3. \A k \in callbacks : k.part # "position" => result'[k.for] = None BY <1>5, <2>1, <2>2
  <2>4. QED BY <1>1, <2>2, <2>3, Zenon DEF OneInv
<1>9. SlotsInv' /\ SlotsType' BY <1>1, <1>6, SlotsKept
<1>10. WaitType' BY <1>1, <1>6, Zenon DEF WaitType, WaitInv
<1>11. QED BY <1>1, <1>4, <1>5, <1>6, <1>7, <1>8, <1>9, <1>10, ChainStep

\* The waiting thread completes nothing.
LEMMA WaitStepInv ==
  ASSUME ChainInv, (\E c \in Cells : StartWait(c)) \/ Waiter \/ SpuriousWakeup
  PROVE  ChainInv'
<1> USE InvFacts, ProgramFacts
<1>1. UNCHANGED <<program, built, result, callbacks, slots, escaped>>
  BY Zenon DEF StartWait, Waiter, Block, NotifyWaiter, SpuriousWakeup, EndWait
<1>2. Stays /\ Cells' = Cells BY <1>1, Zenon DEF Stays, Cells
<1>3. OneInv' BY <1>1, OneFewer
<1>4. SlotsInv' /\ SlotsType' BY <1>1, <1>2, SlotsKept
<1>5. WaitType'
  <2>1. /\ wait.at \in {"none", "start", "registered", "blocked", "woken", "returned", "threw"}
        /\ wait.on \in Cells \union {NoCell} /\ wait = [at |-> wait.at, on |-> wait.on, res |-> wait.res]
    BY DEF WaitType, WaitInv
  <2>2. \E a \in {"none", "start", "registered", "blocked", "woken", "returned", "threw"},
           c \in Cells \union {NoCell} : \E x : wait' = [at |-> a, on |-> c, res |-> x]
    <3>1. ASSUME NEW c \in Cells, StartWait(c) PROVE wait' = [at |-> "registered", on |-> c, res |-> result[c]]
      BY <3>1 DEF StartWait
    <3>2. CASE Block
      <4>1. wait' = [at |-> "blocked", on |-> wait.on, res |-> wait.res] BY <2>1, <3>2, SMT DEF Block
      <4>2. QED BY <2>1, <4>1
    <3>3. CASE NotifyWaiter
      <4>1. [wait EXCEPT !.res = result[wait.on]] = [at |-> wait.at, on |-> wait.on, res |-> result[wait.on]]
        BY <2>1, SMT
      <4>2. wait' = [[wait EXCEPT !.res = result[wait.on]] EXCEPT !.at = Woken] BY <3>3 DEF NotifyWaiter
      <4>3. wait' = [at |-> Woken, on |-> wait.on, res |-> result[wait.on]]
        <5>1. \A a, b, x, y : [[at |-> a, on |-> b, res |-> x] EXCEPT !.at = y] = [at |-> y, on |-> b, res |-> x]
          OBVIOUS
        <5>2. QED BY <4>1, <4>2, <5>1, Zenon
      <4>4. Woken \in {"registered", "woken"} BY <3>3, SMT DEF NotifyWaiter, Woken
      <4>5. QED BY <2>1, <4>3, <4>4
    <3>4. CASE SpuriousWakeup
      <4>1. wait' = [at |-> "woken", on |-> wait.on, res |-> wait.res] BY <2>1, <3>4, SMT DEF SpuriousWakeup
      <4>2. QED BY <2>1, <4>1
    <3>5. CASE EndWait
      <4>1. \E a \in {"threw", "returned"} : wait' = [at |-> a, on |-> wait.on, res |-> wait.res]
        BY <2>1, <3>5, SMT DEF EndWait
      <4>2. QED BY <2>1, <4>1
    <3>6. QED BY <3>1, <3>2, <3>3, <3>4, <3>5 DEF Waiter
  <2>3. PICK a \in {"none", "start", "registered", "blocked", "woken", "returned", "threw"},
             c \in Cells \union {NoCell} : \E x : wait' = [at |-> a, on |-> c, res |-> x]
    BY <2>2
  <2>4. PICK x : wait' = [at |-> a, on |-> c, res |-> x] BY <2>3
  <2>5. wait'.at = a /\ wait'.on = c /\ wait'.res = x BY <2>4
  <2>6. QED BY <1>2, <2>3, <2>4, <2>5, Zenon DEF WaitType, WaitInv
<1>6. QED BY <1>1, <1>2, <1>3, <1>4, <1>5, ChainStep

\* All the steps of the system keep the invariant.
LEMMA ChainNext ==
  ASSUME ChainInv, [Next]_vars
  PROVE  ChainInv'
<1>1. CASE Next
  <2>1. CASE RunCallback
    <3>1. PICK k \in callbacks :
            /\ Due(k)
            /\ \/ FunctionReturns(k) \/ FunctionThrows(k) \/ FunctionReturnsFuture(k)
               \/ PassOn(k) \/ Project(k) \/ RunSink(k) \/ StorePosition(k)
      BY <2>1 DEF RunCallback
    <3>2. QED
      BY <3>1, FunctionInv, RelayInv, ReturnsFutureInv, ProjectInv, SinkInv, PositionInv
  <2>2. CASE \E c \in Cells : Make(c) \/ \E ok \in BOOLEAN : CompletePromise(c, ok)
    BY <2>2, MakeInv, PromiseInv
  <2>3. CASE (\E c \in Cells : StartWait(c)) \/ Waiter \/ SpuriousWakeup
    BY <2>3, WaitStepInv
  <2>4. QED BY <1>1, <2>1, <2>2, <2>3, Zenon DEF Next
<1>2. CASE UNCHANGED vars
  <2> USE InvFacts, ProgramFacts, <1>2 DEF vars
  <2>1. Stays /\ Cells' = Cells BY Zenon DEF Stays, Cells
  <2>2. OneInv' BY OneFewer
  <2>3. SlotsInv' /\ SlotsType' BY <2>1, SlotsKept
  <2>4. WaitType' BY <2>1, Zenon DEF WaitType, WaitInv
  <2>5. QED BY <2>1, <2>2, <2>3, <2>4, ChainStep
<1>3. QED BY <1>1, <1>2

\* The first state: the promises are there, and nothing is completed.
LEMMA ChainInit == Init => ChainInv
<1> SUFFICES ASSUME Init PROVE ChainInv
  OBVIOUS
<1>1. /\ program \in Programs /\ built = {c \in Cells : Kind(c) = "promise"} /\ callbacks = {} /\ escaped = {}
      /\ \A c \in Cells : result[c] = None
      /\ result \in [Cells -> Results \union {None}]
      /\ slots = [c \in Cells |-> [i \in DOMAIN program[c].list |-> NoCell]]
  BY SMT DEF Init
<1> USE ProgramFacts, <1>1
<1>2. WaitType
  <2>1. \E a \in {"start", "none"} : wait = [at |-> a, on |-> NoCell, res |-> None]
    BY Zenon DEF Init
  <2>2. PICK a \in {"start", "none"} : wait = [at |-> a, on |-> NoCell, res |-> None]
    BY <2>1
  <2>3. wait.at = a /\ wait.on = NoCell /\ wait.res = None BY <2>2
  <2>4. QED BY <2>2, <2>3, Zenon DEF WaitType, WaitInv
<1>3. SlotsType /\ \A c \in Cells : \A i \in DOMAIN program[c].list : slots[c][i] = NoCell
  BY SMT DEF SlotsType
<1>4. TypeOK
  <2>1. result \in [Cells -> [ok : BOOLEAN, of : Cells] \union {None}] BY DEF Results
  <2>2. QED BY <1>2, <1>3, <2>1, Zenon DEF TypeOK, WaitType, SlotsType
<1>5. BuiltInv
  <2>1. ASSUME NEW c \in built PROVE Makeable(c)
    BY <2>1, Zenon DEF Makeable, Made, Unary, FutureKinds, OnSuccess, OnFailure
  <2>2. QED BY <2>1, Zenon DEF BuiltInv
<1>6. OwnInv /\ OneInv /\ OnlySinksEscape BY Zenon DEF OwnInv, OneInv, OnlySinksEscape
<1>7. SlotsInv BY <1>3, Zenon DEF SlotsInv
<1>8. \A c \in Cells : Means(c) /\ AllOr(c) BY Zenon DEF Means, AllOr
<1>9. QED BY <1>2, <1>4, <1>5, <1>6, <1>7, <1>8, Zenon DEF ChainInv, WaitType

\* The variables of FutureChain keep their types: a callback is always for a
\* cell of the program and on a future that has been made.
THEOREM ChainTypes == Spec => []TypeOK
<1>1. ChainInv /\ [Next]_vars => ChainInv' BY ChainNext
<1>2. ChainInv => TypeOK BY DEF ChainInv
<1>3. QED BY <1>1, <1>2, ChainInit, PTL DEF Spec

\* In any program, a completed future holds what its functions say of the
\* futures it is made of (map, flatMap, recover, recoverWith, filter, async,
\* failed), whatever throws and in whatever order they complete.
THEOREM ChainsMeanHolds == Spec => []ChainsMean
<1>1. ChainInv /\ [Next]_vars => ChainInv' BY ChainNext
<1>2. ChainInv => ChainsMean BY Zenon DEF ChainInv, ChainsMean, Means
<1>3. QED BY <1>1, <1>2, ChainInit, PTL DEF Spec

\* executeAll (FutureUtils) succeeds with all the values in their places, or
\* fails as one of its futures did, for any futures and any order.
THEOREM AllOrFailureHolds == Spec => []AllOrFailure
<1>1. ChainInv /\ [Next]_vars => ChainInv' BY ChainNext
<1>2. ChainInv => AllOrFailure BY Zenon DEF ChainInv, AllOrFailure, AllOr
<1>3. QED BY <1>1, <1>2, ChainInit, PTL DEF Spec

\* No combinator lets an exception out to its context, its own
\* ALREADY_COMPLETED included: only foreach and the callbacks that take a
\* value alone do (Future.hpp).
THEOREM OnlySinksEscapeHolds == Spec => []OnlySinksEscape
<1>1. ChainInv /\ [Next]_vars => ChainInv' BY ChainNext
<1>2. ChainInv => OnlySinksEscape BY DEF ChainInv
<1>3. QED BY <1>1, <1>2, ChainInit, PTL DEF Spec
===========================================================================
