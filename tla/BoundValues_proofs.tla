-------------------------- MODULE BoundValues_proofs --------------------------
(***************************************************************************)
(* Proofs about BoundValues.  They need of its constants only what         *)
(* BoundValues assumes of them: the columns are finitely many and hold the *)
(* stamp, a statement can have two placeholders, None is no name and no    *)
(* value, "own" is no result set.                                          *)
(*                                                                         *)
(* BoundTypeCorrect: every state is well typed, whatever the program does. *)
(* The bound on the placeholders is part of it, so TypeInv says which      *)
(* clauses a kind of builder has (Shaped).                                 *)
(*                                                                         *)
(* NothingFreedIsRead: what the library keeps is there when a driver reads *)
(* it, if the kept values of a statement are not cleared while they are    *)
(* bound.  LivesInv says who keeps what each native statement points at:   *)
(* the statement's wrapper, the builder of a loop, the storage of the      *)
(* result set.                                                             *)
(*                                                                         *)
(* SlotsAreFilledRight: under the other disciplines every placeholder gets *)
(* its value.  Without a repeated name the parameter of a placeholder is   *)
(* its place, for the numbers of SQLite and for the rewritten texts        *)
(* (DistinctParameters), so binding by name and by position agree.         *)
(***************************************************************************)
EXTENDS BoundValues, TLAPS, SequenceTheorems, FiniteSetTheorems

-----------------------------------------------------------------------------
(* Sequences of bounded length.                                            *)

\* The sequences of at most n members of S.
LEMMA UptoIs ==
  ASSUME NEW S, NEW n \in Nat, NEW s
  PROVE  s \in Upto(S, n) <=> (s \in Seq(S) /\ Len(s) <= n)
<1>1. ASSUME s \in Upto(S, n) PROVE s \in Seq(S) /\ Len(s) <= n
  <2>1. PICK m \in 0..n : s \in [1..m -> S]
    BY <1>1 DEF Upto
  <2>2. s \in Seq(S) /\ Len(s) = m
    BY <2>1
  <2>3. QED BY <2>2, <2>1
<1>2. ASSUME s \in Seq(S), Len(s) <= n PROVE s \in Upto(S, n)
  <2>1. s \in [1..Len(s) -> S] /\ Len(s) \in 0..n
    BY <1>2
  <2>2. QED BY <2>1 DEF Upto
<1>3. QED BY <1>1, <1>2

\* A sequence within the bound is one of TypeOK's.
LEMMA SlotsFit ==
  ASSUME NEW S, NEW s \in Seq(S), Len(s) <= MaxSlots
  PROVE  s \in Upto(S, MaxSlots)
BY UptoIs, SlotBound

\* The members of a sequence.
LEMMA ElementsIn ==
  ASSUME NEW S, NEW s \in Seq(S)
  PROVE  Elements(s) \subseteq S
BY DEF Elements

\* A concatenation has the members of both.
LEMMA ElementsConcat ==
  ASSUME NEW S, NEW p \in Seq(S), NEW q \in Seq(S)
  PROVE  /\ p \o q \in Seq(S) /\ Len(p \o q) = Len(p) + Len(q)
         /\ Elements(p \o q) = Elements(p) \cup Elements(q)
<1>1. p \o q \in Seq(S) /\ Len(p \o q) = Len(p) + Len(q) /\ Len(p) \in Nat /\ Len(q) \in Nat
  BY ConcatProperties, LenProperties
<1>2. ASSUME NEW i \in DOMAIN (p \o q) PROVE (p \o q)[i] \in Elements(p) \cup Elements(q)
  BY <1>1 DEF Elements
<1>3. ASSUME NEW i \in DOMAIN p PROVE p[i] \in Elements(p \o q)
  <2>1. i \in DOMAIN (p \o q) /\ (p \o q)[i] = p[i]
    BY <1>1
  <2>2. QED BY <2>1 DEF Elements
<1>4. ASSUME NEW i \in DOMAIN q PROVE q[i] \in Elements(p \o q)
  <2>1. i + Len(p) \in DOMAIN (p \o q) /\ (p \o q)[i + Len(p)] = q[i]
    BY <1>1
  <2>2. QED BY <2>1 DEF Elements
<1>5. Elements(p \o q) = Elements(p) \cup Elements(q)
  BY <1>2, <1>3, <1>4 DEF Elements
<1>6. QED BY <1>1, <1>5

-----------------------------------------------------------------------------
(* The parameters of a text.                                               *)

\* A set of numbers has a least member.
LEMMA LeastNumber ==
  ASSUME NEW T, T \subseteq Nat, T # {}
  PROVE  \E x \in T : \A y \in T : x <= y
<1> DEFINE Below == {0..x : x \in T}
<1>1. Below \subseteq FiniteSubsetsOf(Nat) /\ Below # {}
  <2>1. ASSUME NEW x \in T PROVE 0..x \subseteq Nat /\ IsFiniteSet(0..x)
    BY FS_Interval, x \in Nat, SMT
  <2>2. QED BY <2>1 DEF FiniteSubsetsOf
<1>2. PICK s \in Below : \A t \in Below : ~(<<t, s>> \in StrictSubsetOrdering(Nat))
  <2> HIDE DEF Below
  <2>1. QED BY <1>1, FS_StrictSubsetOrderingWellFounded, WFMin
<1>3. PICK x \in T : s = 0..x
  BY <1>2
<1>4. ASSUME NEW y \in T PROVE x <= y
  <2>1. SUFFICES ASSUME y < x PROVE FALSE
    BY <1>1, SMT
  <2>2. 0..y \in SUBSET (0..x) /\ 0..y # 0..x /\ 0..y \in Below /\ 0..y \subseteq Nat /\ 0..x \subseteq Nat
    BY <2>1, x \in Nat, y \in Nat, SMT
  <2>3. QED BY <2>2, <1>1, <1>2, <1>3 DEF StrictSubsetOrdering, FiniteSubsetsOf
<1>5. QED BY <1>4

\* First finds the first placeholder of the same name.
LEMMA FirstIs ==
  ASSUME NEW T, NEW text \in Seq(T), NEW n \in DOMAIN text
  PROVE  /\ First(text, n) \in 1..n
         /\ Same(text, First(text, n), n)
         /\ \A k \in 1..n : Same(text, k, n) => First(text, n) <= k
<1> DEFINE Likes == {m \in 1..n : Same(text, m, n)}
<1>1. n \in Nat /\ n \in Likes /\ Likes \subseteq Nat
  BY DEF Same
<1>2. PICK m \in Likes : \A k \in Likes : m <= k
  <2> HIDE DEF Likes
  <2>1. QED BY <1>1, LeastNumber
<1>3. m \in 1..n /\ Same(text, m, n) /\ \A k \in 1..n : Same(text, k, n) => m <= k
  BY <1>2
<1>4. QED BY <1>3 DEF First

\* The first of a name is its own first.
LEMMA FirstOfFirst ==
  ASSUME NEW T, NEW text \in Seq(T), NEW n \in DOMAIN text
  PROVE  First(text, First(text, n)) = First(text, n)
<1> DEFINE f == First(text, n)
           g == First(text, f)
<1>1. f \in 1..n /\ Same(text, f, n) /\ \A k \in 1..n : Same(text, k, n) => f <= k
  BY FirstIs
<1>2. f \in DOMAIN text
  BY <1>1
<1>3. g \in 1..f /\ Same(text, g, f)
  BY <1>2, FirstIs
<1>4. Same(text, g, n)
  BY <1>1, <1>3 DEF Same
<1>5. g \in 1..n /\ f <= g
  BY <1>1, <1>3, <1>4
<1>6. QED BY <1>1, <1>3, <1>5

\* How many names there are up to x.
Rank(text, x) == Cardinality({First(text, m) : m \in 1..x})

\* One placeholder more is one name more, or none.
LEMMA RankGrows ==
  ASSUME NEW T, NEW text \in Seq(T), NEW x \in 1..Len(text)
  PROVE  /\ Rank(text, x) \in Nat /\ Rank(text, x - 1) \in Nat
         /\ Rank(text, x) <= x
         /\ Rank(text, x) = Rank(text, x - 1) \/ (Rank(text, x) = Rank(text, x - 1) + 1 /\ First(text, x) = x)
<1> DEFINE Old == {First(text, m) : m \in 1..(x - 1)}
           New == {First(text, m) : m \in 1..x}
<1>1. ASSUME NEW m \in 1..x PROVE First(text, m) \in 1..m
  BY FirstIs
<1>2. New = Old \cup {First(text, x)}
  OBVIOUS
<1>3. New \subseteq 1..x /\ Old \subseteq 1..x
  BY <1>1
<1>4. IsFiniteSet(Old) /\ IsFiniteSet(New) /\ Cardinality(New) <= x
  <2>1. IsFiniteSet(1..x) /\ Cardinality(1..x) = x
    BY FS_Interval
  <2> HIDE DEF Old, New
  <2>2. IsFiniteSet(Old)
    BY <1>3, <2>1, FS_Subset
  <2>3. IsFiniteSet(New) /\ Cardinality(New) <= x
    BY <1>3, <2>1, FS_Subset
  <2>4. QED BY <2>2, <2>3
<1>5. Cardinality(Old) \in Nat /\ Cardinality(New) \in Nat
  BY <1>4, FS_CardinalityType
<1>6. Cardinality(New) = IF First(text, x) \in Old THEN Cardinality(Old) ELSE Cardinality(Old) + 1
  <2> HIDE DEF Old, New
  <2>1. Cardinality(Old \cup {First(text, x)}) = IF First(text, x) \in Old THEN Cardinality(Old) ELSE Cardinality(Old) + 1
    BY <1>4, FS_AddElement
  <2>2. QED BY <1>2, <2>1
<1>7. First(text, x) \notin Old => First(text, x) = x
  <2>1. SUFFICES ASSUME First(text, x) # x PROVE First(text, x) \in Old
    OBVIOUS
  <2>2. First(text, x) \in 1..(x - 1)
    BY <1>1, <2>1
  <2>3. First(text, First(text, x)) = First(text, x)
    BY FirstOfFirst
  <2>4. QED BY <2>2, <2>3
<1>8. QED BY <1>4, <1>5, <1>6, <1>7 DEF Rank

\* Of two placeholders the later one has no fewer names up to it.
LEMMA RankIsMonotone ==
  ASSUME NEW T, NEW text \in Seq(T), NEW x \in 1..Len(text), NEW y \in x..Len(text)
  PROVE  /\ Rank(text, x) \in 1..Rank(text, y)
         /\ Rank(text, y) <= y
<1> DEFINE A == {First(text, m) : m \in 1..x}
           B == {First(text, m) : m \in 1..y}
<1>1. y \in 1..Len(text) /\ 1 \in 1..x
  OBVIOUS
<1>2. A \subseteq B /\ B \subseteq 1..y /\ First(text, 1) \in A
  <2>1. ASSUME NEW m \in 1..y PROVE First(text, m) \in 1..m
    BY FirstIs, <1>1
  <2>2. QED BY <2>1, <1>1
<1>3. IsFiniteSet(B) /\ Cardinality(B) <= y
  <2>1. IsFiniteSet(1..y) /\ Cardinality(1..y) = y
    BY FS_Interval
  <2>2. QED BY <2>1, <1>2, FS_Subset
<1> HIDE DEF A, B
<1>4. IsFiniteSet(A) /\ Cardinality(A) <= Cardinality(B)
  BY <1>2, <1>3, FS_Subset
<1>5. Cardinality(A) \in Nat /\ Cardinality(B) \in Nat /\ Cardinality(A) # 0
  BY <1>2, <1>3, <1>4, FS_CardinalityType, FS_EmptySet
<1>6. Rank(text, x) = Cardinality(A) /\ Rank(text, y) = Cardinality(B)
  BY DEF Rank, A, B
<1>7. QED BY <1>3, <1>4, <1>5, <1>6

\* The parameters of a text are numbered without a gap.
LEMMA ParametersAre ==
  ASSUME NEW T, NEW text \in Seq(T)
  PROVE  \E k \in 0..Len(text) : Parameters(text) = 1..k
<1>1. CASE driver # "sqlite"
  BY <1>1 DEF Parameters, Parameter
<1>2. CASE Len(text) = 0
  BY <1>2 DEF Parameters
<1>3. CASE driver = "sqlite" /\ Len(text) # 0
  <2> DEFINE l == Len(text)
             k == Rank(text, l)
  <2>1. l \in 1..Len(text) /\ k \in 1..Len(text)
    <3>1. l \in 1..Len(text)
      BY <1>3
    <3>2. Rank(text, l) \in 1..Rank(text, l) /\ Rank(text, l) <= l
      BY <3>1, RankIsMonotone
    <3>3. QED BY <3>1, <3>2
  <2>2. \A n \in DOMAIN text : Parameter(text, n) = Rank(text, First(text, n))
    BY <1>3 DEF Parameter, Rank
  <2>3. ASSUME NEW n \in DOMAIN text PROVE Parameter(text, n) \in 1..k
    <3>1. First(text, n) \in 1..Len(text) /\ Len(text) \in First(text, n)..Len(text)
      BY FirstIs
    <3>2. Rank(text, First(text, n)) \in 1..k
      BY <3>1, RankIsMonotone
    <3>3. QED BY <3>2, <2>2
  <2>4. ASSUME NEW j \in 1..k PROVE \E n \in DOMAIN text : Parameter(text, n) = j
    <3> DEFINE Above == {x \in 1..l : Rank(text, x) >= j}
    <3>1. Above \subseteq Nat /\ l \in Above
      BY <2>1
    <3>2. PICK x \in Above : \A y \in Above : x <= y
      <4> HIDE DEF Above
      <4>1. QED BY <3>1, LeastNumber
    <3>3. x \in 1..l /\ Rank(text, x) >= j
      BY <3>2
    <3>4. Rank(text, x - 1) < j
      <4>1. CASE x = 1
        <5>1. {First(text, m) : m \in 1..(x - 1)} = {}
          BY <4>1
        <5>2. Rank(text, x - 1) = 0
          BY <5>1, FS_EmptySet DEF Rank
        <5>3. QED BY <5>2
      <4>2. CASE x # 1
        <5>1. x - 1 \in 1..l /\ x - 1 \notin Above
          BY <4>2, <3>2, <3>3
        <5>2. Rank(text, x - 1) \in Nat
          BY <3>3, RankGrows
        <5>3. QED BY <5>1, <5>2
      <4>3. QED BY <4>1, <4>2
    <3>5. Rank(text, x) = j /\ First(text, x) = x
      <4>1. /\ Rank(text, x) \in Nat /\ Rank(text, x - 1) \in Nat
            /\ \/ Rank(text, x) = Rank(text, x - 1)
               \/ Rank(text, x) = Rank(text, x - 1) + 1 /\ First(text, x) = x
        BY <3>3, RankGrows
      <4>2. QED BY <4>1, <3>3, <3>4
    <3>6. Parameter(text, x) = j
      BY <3>3, <3>5, <2>2
    <3>7. QED BY <3>3, <3>6
  <2>5. Parameters(text) = 1..k
    BY <2>3, <2>4 DEF Parameters
  <2>6. QED BY <2>1, <2>5
<1>4. QED BY <1>1, <1>2, <1>3

-----------------------------------------------------------------------------
(* What is bound.                                                          *)

\* Binding gives each parameter one of the values or nothing.
LEMMA ByPositionIs ==
  ASSUME NEW T, NEW text \in Seq(T), NEW S, NEW values \in Seq(S)
  PROVE  /\ ByPosition(text, values) \in Seq(Elements(values) \cup {None})
         /\ Len(ByPosition(text, values)) <= Len(text)
<1>1. PICK k \in 0..Len(text) : Parameters(text) = 1..k
  BY ParametersAre
<1>2. ASSUME NEW p \in 1..k PROVE (IF p <= Len(values) THEN values[p] ELSE None) \in Elements(values) \cup {None}
  BY DEF Elements
<1>3. ByPosition(text, values) = [p \in 1..k |-> IF p <= Len(values) THEN values[p] ELSE None]
  BY <1>1 DEF ByPosition
<1>4. QED BY <1>2, <1>3

\* Binding by name gives each parameter one of the values, or none.
LEMMA ByNameIs ==
  ASSUME NEW T, NEW text \in Seq(T), NEW S, NEW values \in Seq(S), Len(values) = Len(text)
  PROVE  /\ ByName(text, values) \in Seq(Elements(values) \cup {None})
         /\ Len(ByName(text, values)) <= Len(text)
<1>1. PICK k \in 0..Len(text) : Parameters(text) = 1..k
  BY ParametersAre
<1> DEFINE Bound(p) == IF \E n \in DOMAIN text : Named(text, n) = p
                       THEN values[CHOOSE n \in DOMAIN text : Named(text, n) = p] ELSE None
<1>2. ASSUME NEW p \in 1..k PROVE Bound(p) \in Elements(values) \cup {None}
  <2>1. CASE \E n \in DOMAIN text : Named(text, n) = p
    <3> DEFINE n == CHOOSE n \in DOMAIN text : Named(text, n) = p
    <3>1. n \in DOMAIN text
      BY <2>1
    <3>2. n \in DOMAIN values
      BY <3>1
    <3> HIDE DEF n
    <3>3. values[n] \in Elements(values)
      BY <3>2 DEF Elements
    <3>4. Bound(p) = values[n]
      BY <2>1 DEF n
    <3>5. QED BY <3>3, <3>4
  <2>2. CASE ~\E n \in DOMAIN text : Named(text, n) = p
    BY <2>2
  <2>3. QED BY <2>1, <2>2
<1>3. ByName(text, values) = [p \in 1..k |-> Bound(p)]
  BY <1>1 DEF ByName
<1> HIDE DEF Bound
<1>4. QED BY <1>2, <1>3

\* Clearing the bindings leaves nothing bound.
LEMMA ClearedIs ==
  ASSUME NEW T, NEW text \in Seq(T)
  PROVE  ByPosition(text, <<>>) \in Seq({None}) /\ Len(ByPosition(text, <<>>)) <= Len(text)
<1>1. <<>> \in Seq({}) /\ Elements(<<>>) = {}
  BY DEF Elements
<1>2. {} \cup {None} = {None}
  OBVIOUS
<1>3. QED BY <1>1, <1>2, ByPositionIs

-----------------------------------------------------------------------------
(* Builders.                                                               *)

Builders ==
  [kind : Kinds \cup {"none"}, sets : Upto(Slots, MaxSlots),
   on : Upto(Values, MaxSlots), due : BOOLEAN, cond : Upto(Values, MaxSlots),
   given : SUBSET Values, looping : BOOLEAN]

SetVals(b) == {b.sets[i].val : i \in DOMAIN b.sets}
Vals(b)    == SetVals(b) \cup Elements(b.on) \cup Elements(b.cond)

\* Which clauses a kind of builder has, and that they fit the bound.
Shaped(b) ==
  /\ Len(b.sets) + Len(b.on) + Len(b.cond) <= MaxSlots
  /\ b.kind \in {"select", "join", "projected"} => b.sets = <<>>
  /\ b.kind \notin {"join", "projected"} => b.on = <<>>
  /\ b.kind \in {"none", "insert", "object", "upsert"} => b.cond = <<>>
  /\ b.kind = "none" => b = NoBuilder

\* What the clauses of a builder are.
LEMMA BuildersAre ==
  ASSUME NEW b \in Builders
  PROVE  /\ b.sets \in Seq(Slots) /\ b.on \in Seq(Values) /\ b.cond \in Seq(Values)
         /\ Len(b.sets) \in Nat /\ Len(b.on) \in Nat /\ Len(b.cond) \in Nat
         /\ b.given \subseteq Values /\ b.looping \in BOOLEAN /\ b.due \in BOOLEAN
         /\ b.kind \in Kinds \cup {"none"}
<1>1. /\ b.sets \in Upto(Slots, MaxSlots) /\ b.on \in Upto(Values, MaxSlots) /\ b.cond \in Upto(Values, MaxSlots)
      /\ b.given \subseteq Values /\ b.looping \in BOOLEAN /\ b.due \in BOOLEAN
      /\ b.kind \in Kinds \cup {"none"}
  BY DEF Builders
<1>2. b.sets \in Seq(Slots) /\ b.on \in Seq(Values) /\ b.cond \in Seq(Values)
  BY <1>1, UptoIs, SlotBound
<1>3. QED BY <1>1, <1>2, LenProperties

\* What a builder binds: its assignments, then its ON, then its WHERE.
LEMMA MeantIs ==
  ASSUME NEW b \in Builders
  PROVE  /\ Meant(b) \in Seq(Values)
         /\ Len(Meant(b)) = Len(b.sets) + Len(b.on) + Len(b.cond)
         /\ Elements(Meant(b)) = Vals(b)
<1> DEFINE s == [i \in DOMAIN b.sets |-> b.sets[i].val]
<1>1. b.sets \in Seq(Slots) /\ b.on \in Seq(Values) /\ b.cond \in Seq(Values)
  BY BuildersAre
<1>2. s \in Seq(Values) /\ Len(s) = Len(b.sets) /\ Elements(s) = SetVals(b)
  <2>1. \A i \in 1..Len(b.sets) : b.sets[i] \in Slots
    BY <1>1
  <2>2. \A i \in 1..Len(b.sets) : b.sets[i].val \in Values
    BY <2>1 DEF Slots
  <2>3. DOMAIN b.sets = 1..Len(b.sets) /\ Len(b.sets) \in Nat
    BY <1>1
  <2>4. s \in [1..Len(b.sets) -> Values]
    BY <2>2, <2>3
  <2>5. s \in Seq(Values) /\ Len(s) = Len(b.sets)
    BY <2>4, <2>3
  <2>6. Elements(s) = SetVals(b)
    BY DEF Elements, SetVals
  <2>7. QED BY <2>5, <2>6
<1> HIDE DEF s
<1>3. Meant(b) = (s \o b.on) \o b.cond
  BY DEF Meant, s
<1>4. ASSUME NEW p \in Seq(Values), NEW q \in Seq(Values)
      PROVE  p \o q \in Seq(Values) /\ Len(p \o q) = Len(p) + Len(q) /\ Elements(p \o q) = Elements(p) \cup Elements(q)
  BY ElementsConcat
<1>5. /\ s \o b.on \in Seq(Values) /\ Len(s \o b.on) = Len(b.sets) + Len(b.on)
      /\ Elements(s \o b.on) = SetVals(b) \cup Elements(b.on)
  BY <1>1, <1>2, <1>4
<1>6. /\ Meant(b) \in Seq(Values) /\ Len(Meant(b)) = (Len(b.sets) + Len(b.on)) + Len(b.cond)
      /\ Elements(Meant(b)) = (SetVals(b) \cup Elements(b.on)) \cup Elements(b.cond)
  BY <1>1, <1>3, <1>4, <1>5
<1>7. QED BY <1>6 DEF Vals

\* A text has a placeholder for each value.
LEMMA TextIs ==
  ASSUME NEW b \in Builders
  PROVE  Text(b) \in Seq(Columns \cup {None}) /\ Len(Text(b)) = Len(Meant(b))
<1>1. Meant(b) \in Seq(Values) /\ b.sets \in Seq(Slots) /\ Len(Meant(b)) \in Nat /\ DOMAIN Meant(b) = 1..Len(Meant(b))
  BY MeantIs, BuildersAre, LenProperties
<1>2. ASSUME NEW n \in 1..Len(Meant(b))
      PROVE  (IF n <= Len(b.sets) THEN b.sets[n].name ELSE None) \in Columns \cup {None}
  <2>1. CASE n <= Len(b.sets)
    <3>1. b.sets[n] \in Slots
      BY <2>1, <1>1
    <3>2. QED BY <3>1, <2>1 DEF Slots
  <2>2. CASE ~(n <= Len(b.sets))
    BY <2>2
  <2>3. QED BY <2>1, <2>2
<1>3. Text(b) = [n \in 1..Len(Meant(b)) |-> IF n <= Len(b.sets) THEN b.sets[n].name ELSE None]
  BY <1>1 DEF Text
<1>4. Text(b) \in [1..Len(Meant(b)) -> Columns \cup {None}]
  BY <1>2, <1>3
<1>5. QED BY <1>4, <1>1

\* The values a builder's statement points at are those it keeps.
LEMMA BindingIs ==
  ASSUME NEW b \in Builders, Shaped(b)
  PROVE  /\ Binding(b) \in Upto(Values \cup {None}, MaxSlots)
         /\ Elements(Binding(b)) \subseteq Vals(b) \cup {None}
         /\ b.kind = "projected" => Elements(Binding(b)) \subseteq Elements(b.cond) \cup {None}
<1>1. /\ Meant(b) \in Seq(Values) /\ Len(Meant(b)) = Len(b.sets) + Len(b.on) + Len(b.cond)
      /\ Elements(Meant(b)) = Vals(b) /\ b.cond \in Seq(Values)
      /\ Text(b) \in Seq(Columns \cup {None}) /\ Len(Text(b)) = Len(Meant(b)) /\ Len(Meant(b)) <= MaxSlots
      /\ Len(Text(b)) \in Nat
  BY MeantIs, BuildersAre, TextIs, LenProperties DEF Shaped
<1>2. Elements(b.cond) \subseteq Vals(b) /\ Vals(b) \subseteq Values
  BY <1>1, ElementsIn DEF Vals
<1>3. ASSUME NEW V, V \subseteq Vals(b) \cup {None}, NEW f, f \in Seq(V), Len(f) <= Len(Text(b))
      PROVE  f \in Upto(Values \cup {None}, MaxSlots) /\ Elements(f) \subseteq V
  <2>1. f \in Seq(Values \cup {None})
    BY <1>2, <1>3
  <2>2. Len(f) <= MaxSlots
    <3>1. Len(f) \in Nat
      BY <1>3, LenProperties
    <3>2. Len(Text(b)) \in Nat /\ Len(Text(b)) <= MaxSlots
      BY <1>1
    <3>3. QED BY <3>1, <3>2, <1>3, SlotBound
  <2>3. Elements(f) \subseteq V
    BY <1>3 DEF Elements
  <2>4. QED BY <2>1, <2>2, <2>3, UptoIs, SlotBound
<1>4. CASE b.kind \in {"insert", "object"}
  <2>1. Binding(b) = ByName(Text(b), Meant(b))
    BY <1>4 DEF Binding
  <2>2. Binding(b) \in Seq(Vals(b) \cup {None}) /\ Len(Binding(b)) <= Len(Text(b))
    BY <2>1, <1>1, ByNameIs
  <2>3. QED BY <2>2, <1>3, <1>4
<1>5. CASE b.kind = "projected"
  <2>1. Binding(b) = ByPosition(Text(b), b.cond)
    BY <1>5 DEF Binding
  <2>2. Binding(b) \in Seq(Elements(b.cond) \cup {None}) /\ Len(Binding(b)) <= Len(Text(b))
    BY <2>1, <1>1, ByPositionIs
  <2>3. Elements(b.cond) \cup {None} \subseteq Vals(b) \cup {None}
    BY <1>2
  <2>4. /\ Binding(b) \in Upto(Values \cup {None}, MaxSlots)
        /\ Elements(Binding(b)) \subseteq Elements(b.cond) \cup {None}
    BY <2>2, <2>3, <1>3
  <2>5. QED BY <2>3, <2>4
<1>6. CASE b.kind \notin {"insert", "object", "projected"}
  <2>1. Binding(b) = ByPosition(Text(b), Meant(b))
    BY <1>6 DEF Binding
  <2>2. Binding(b) \in Seq(Vals(b) \cup {None}) /\ Len(Binding(b)) <= Len(Text(b))
    BY <2>1, <1>1, ByPositionIs
  <2>3. QED BY <2>2, <1>3, <1>6
<1>7. QED BY <1>4, <1>5, <1>6

-----------------------------------------------------------------------------
(* Types.                                                                  *)

Stmts ==
  [live : BOOLEAN, text : Upto(Columns \cup {None}, 2), meant : Upto(Values, 2),
   keep : SUBSET Values, ran : BOOLEAN]
Cursors ==
  [state : {"none", "open", "ended"}, of : Natives \cup {None}, store : SUBSET Values, loop : BOOLEAN,
   bare : BOOLEAN]
Bounds == Upto(Values \cup {None}, MaxSlots)
Mishaps == {"misplaced", "dropped", "freed", "strayed"}

TypeInv == TypeOK /\ Shaped(builder)

\* TypeOK, variable by variable.
LEMMA Types ==
  TypeOK <=> /\ driver \in Drivers /\ scope \subseteq Variables
             /\ builder \in Builders
             /\ stmt \in Stmts
             /\ cursor \in [Results -> Cursors]
             /\ bound \in [Natives -> Bounds]
             /\ mishaps \subseteq Mishaps
BY DEF TypeOK, Builders, Stmts, Cursors, Bounds, Mishaps

\* What can be bound is a value.
LEMMA UsableIs == ASSUME TypeOK PROVE Usable \subseteq Values
BY Types DEF Usable, Values

\* Where there is room, one clause can have one value more.
LEMMA RoomFor ==
  ASSUME NEW a \in Nat, NEW b \in Nat, NEW c \in Nat, a + b + c < MaxSlots,
         NEW d \in Nat
  PROVE  /\ d <= a + 1 => d <= MaxSlots /\ d + b + c <= MaxSlots
         /\ d <= b + 1 => d <= MaxSlots /\ a + d + c <= MaxSlots
         /\ d <= c + 1 => d <= MaxSlots /\ a + b + d <= MaxSlots
BY SlotBound

\* A clause that is emptied leaves room.
LEMMA RoomLeft ==
  ASSUME NEW a \in Nat, NEW b \in Nat, NEW c \in Nat, a + b + c <= MaxSlots
  PROVE  a + b + 0 <= MaxSlots
BY SlotBound

\* A builder that starts.
LEMMA NewBuilderTyped ==
  ASSUME TypeInv, NEW kind, NewBuilder(kind)
  PROVE  builder' \in Builders /\ Shaped(builder')
<1>1. /\ <<>> \in Seq(Values) /\ <<>> \in Seq(Slots) /\ Len(<<>>) = 0 /\ MaxSlots \in Nat /\ MaxSlots >= 2
      /\ <<>> \in Upto(Values, MaxSlots) /\ <<>> \in Upto(Slots, MaxSlots)
  <2>1. <<>> \in Seq(Values) /\ <<>> \in Seq(Slots) /\ Len(<<>>) = 0
    OBVIOUS
  <2>2. Len(<<>>) <= MaxSlots /\ MaxSlots \in Nat /\ MaxSlots >= 2
    BY <2>1, SlotBound
  <2>3. QED BY <2>1, <2>2, SlotsFit
<1>2. kind \in Kinds /\ kind \notin {"projected", "object"} /\ kind # "none"
  BY DEF NewBuilder, Kinds
<1>3. CASE builder' = [NoBuilder EXCEPT !.kind = kind, !.due = (kind = "join")]
  <2>1. builder' \in Builders
    BY <1>1, <1>2, <1>3 DEF Builders, NoBuilder
  <2>2. builder'.sets = <<>> /\ builder'.on = <<>> /\ builder'.cond = <<>> /\ builder'.kind = kind
    BY <1>3 DEF NoBuilder
  <2>3. QED BY <2>1, <2>2, <1>1, <1>2 DEF Shaped
<1>4. ASSUME kind = "update", NEW now \in Usable \cap Temps,
             builder' = [NoBuilder EXCEPT !.kind = kind, !.sets = <<[column |-> Stamp, name |-> Stamp, val |-> now]>>]
      PROVE  builder' \in Builders /\ Shaped(builder')
  <2> DEFINE slot == [column |-> Stamp, name |-> Stamp, val |-> now]
  <2>1. slot \in Slots
    BY StampIsColumn DEF Slots, Values
  <2> HIDE DEF slot
  <2>2. <<slot>> \in Seq(Slots) /\ Len(<<slot>>) = 1
    BY <2>1
  <2>3. <<slot>> \in Upto(Slots, MaxSlots)
    <3>1. Len(<<slot>>) <= MaxSlots
      BY <2>2, <1>1
    <3>2. QED BY <2>2, <3>1, SlotsFit
  <2>4. builder' = [NoBuilder EXCEPT !.kind = kind, !.sets = <<slot>>]
    BY <1>4 DEF slot
  <2>5. builder' \in Builders
    BY <1>1, <1>2, <2>3, <2>4 DEF Builders, NoBuilder
  <2>6. builder'.sets = <<slot>> /\ builder'.on = <<>> /\ builder'.cond = <<>> /\ builder'.kind = "update"
    BY <2>4, <1>4 DEF NoBuilder
  <2>7. QED BY <2>5, <2>6, <2>2, <1>1 DEF Shaped
<1>5. QED BY <1>3, <1>4 DEF NewBuilder

\* A condition fits, added or put in the place of the last.
LEMMA WhereTyped ==
  ASSUME TypeInv, NEW v, Where(v)
  PROVE  builder' \in Builders /\ Shaped(builder')
<1> DEFINE c == IF builder.kind \in {"update", "delete"} THEN <<v>> ELSE Append(builder.cond, v)
           g == builder.given \cup {v}
<1>1. /\ builder \in Builders /\ Shaped(builder) /\ v \in Values
      /\ builder.cond \in Seq(Values) /\ Len(builder.cond) \in Nat /\ Len(builder.sets) \in Nat /\ Len(builder.on) \in Nat
      /\ Len(builder.sets) + Len(builder.on) + Len(builder.cond) < MaxSlots /\ MaxSlots \in Nat
      /\ builder.given \subseteq Values
      /\ builder.kind \in {"select", "join", "projected", "update", "delete"}
  BY Types, UsableIs, BuildersAre, SlotBound DEF TypeInv, Where, Room, Building
<1>2. c \in Seq(Values) /\ Len(c) \in Nat /\ Len(c) <= Len(builder.cond) + 1
  BY <1>1
<1>3. c \in Upto(Values, MaxSlots) /\ g \subseteq Values
  <2>1. Len(c) <= MaxSlots
    BY <1>1, <1>2, RoomFor
  <2>2. QED BY <2>1, <1>1, <1>2, SlotsFit
<1>4. builder' = [builder EXCEPT !.given = g, !.cond = c]
  BY DEF Where
<1> HIDE DEF c, g
<1>5. builder' \in Builders
  BY <1>1, <1>3, <1>4 DEF Builders
<1>6. builder'.sets = builder.sets /\ builder'.on = builder.on /\ builder'.cond = c /\ builder'.kind = builder.kind
  BY <1>1, <1>4 DEF Builders
<1>7. Len(builder.sets) + Len(builder.on) + Len(c) <= MaxSlots
  BY <1>1, <1>2, RoomFor
<1>8. builder'.kind \notin {"none", "insert", "object", "upsert"}
  BY <1>1, <1>6
<1>9. QED BY <1>1, <1>5, <1>6, <1>7, <1>8 DEF Shaped

\* on(): the condition of the table joined last.
LEMMA OnTyped ==
  ASSUME TypeInv, NEW v, On(v)
  PROVE  builder' \in Builders /\ Shaped(builder')
<1> DEFINE o == IF builder.due THEN Append(builder.on, v) ELSE [builder.on EXCEPT ![Len(builder.on)] = v]
           g == builder.given \cup {v}
<1>1. /\ builder \in Builders /\ Shaped(builder) /\ v \in Values
      /\ builder.on \in Seq(Values) /\ Len(builder.cond) \in Nat /\ Len(builder.sets) \in Nat /\ Len(builder.on) \in Nat
      /\ Len(builder.sets) + Len(builder.on) + Len(builder.cond) < MaxSlots
      /\ builder.given \subseteq Values /\ builder.due \in BOOLEAN
      /\ builder.kind = "join" /\ builder.sets = <<>>
  BY Types, UsableIs, BuildersAre DEF TypeInv, On, Room, Building, Shaped
<1>2. o \in Seq(Values) /\ Len(o) \in Nat /\ Len(o) <= Len(builder.on) + 1
  <2>1. CASE builder.due
    BY <2>1, <1>1
  <2>2. CASE ~builder.due
    <3>1. o = [builder.on EXCEPT ![Len(builder.on)] = v]
      BY <2>2
    <3>2. o \in Seq(Values) /\ Len(o) = Len(builder.on)
      <4>1. CASE Len(builder.on) = 0
        <5>1. builder.on = <<>> /\ DOMAIN builder.on = {}
          BY <4>1, <1>1, EmptySeq
        <5>2. o = builder.on
          BY <5>1, <3>1
        <5>3. QED BY <5>2, <1>1
      <4>2. CASE Len(builder.on) # 0
        <5>1. Len(builder.on) \in 1..Len(builder.on)
          BY <4>2, <1>1
        <5>2. QED BY <5>1, <3>1, <1>1, ExceptSeq
      <4>3. QED BY <4>1, <4>2
    <3>3. QED BY <3>2, <1>1
  <2>3. QED BY <2>1, <2>2
<1>3. o \in Upto(Values, MaxSlots) /\ g \subseteq Values
  <2>1. Len(o) <= MaxSlots
    BY <1>1, <1>2, RoomFor
  <2>2. QED BY <2>1, <1>1, <1>2, SlotsFit
<1>4. builder' = [builder EXCEPT !.given = g, !.due = FALSE, !.on = o]
  BY DEF On
<1> HIDE DEF o, g
<1>5. builder' \in Builders
  BY <1>1, <1>3, <1>4 DEF Builders
<1>6. builder'.sets = builder.sets /\ builder'.on = o /\ builder'.cond = builder.cond /\ builder'.kind = "join"
  BY <1>1, <1>4 DEF Builders
<1>7. Len(builder.sets) + Len(o) + Len(builder.cond) <= MaxSlots
  BY <1>1, <1>2, RoomFor
<1>8. QED BY <1>1, <1>5, <1>6, <1>7 DEF Shaped

\* join() and select(columns) on a join.
LEMMA JoinsTyped ==
  ASSUME TypeInv, JoinNext \/ Project
  PROVE  builder' \in Builders /\ Shaped(builder')
<1>1. /\ builder \in Builders /\ Shaped(builder)
      /\ Len(builder.cond) \in Nat /\ Len(builder.sets) \in Nat /\ Len(builder.on) \in Nat
      /\ Len(builder.sets) + Len(builder.on) + Len(builder.cond) <= MaxSlots /\ MaxSlots \in Nat
      /\ builder.kind = "join" /\ builder.sets = <<>>
  BY Types, BuildersAre, SlotBound DEF TypeInv, JoinNext, Project, Building, Shaped
<1>2. <<>> \in Upto(Values, MaxSlots) /\ Len(<<>>) = 0
  <2>1. <<>> \in Seq(Values) /\ Len(<<>>) = 0 /\ 0 <= MaxSlots
    BY <1>1
  <2>2. Len(<<>>) <= MaxSlots
    BY <2>1
  <2>3. QED BY <2>1, <2>2, SlotsFit
<1>3. builder' \in Builders
  BY <1>1, <1>2 DEF Builders, JoinNext, Project, Kinds
<1>4. builder'.sets = <<>> /\ builder'.on = builder.on /\ builder'.cond = <<>> /\ builder'.kind \in {"join", "projected"}
  BY <1>1 DEF Builders, JoinNext, Project
<1>5. Len(builder.sets) + Len(builder.on) + 0 <= MaxSlots
  BY <1>1, RoomLeft
<1>6. QED BY <1>1, <1>2, <1>3, <1>4, <1>5 DEF Shaped

\* An assignment.
LEMMA SetTyped ==
  ASSUME TypeInv, NEW c \in Columns, NEW v, SetColumn(c, v) \/ SetGreatest(c, v)
  PROVE  builder' \in Builders /\ Shaped(builder')
<1>1. /\ builder \in Builders /\ Shaped(builder) /\ v \in Values
      /\ builder.sets \in Seq(Slots) /\ Len(builder.cond) \in Nat /\ Len(builder.sets) \in Nat /\ Len(builder.on) \in Nat
      /\ Len(builder.sets) + Len(builder.on) + Len(builder.cond) < MaxSlots
      /\ builder.given \subseteq Values
      /\ builder.kind \in {"update", "insert", "upsert"} /\ builder.on = <<>>
  BY Types, UsableIs, BuildersAre DEF TypeInv, SetColumn, SetGreatest, Room, Building, Shaped
<1>2. PICK name \in Columns \cup {None} :
        builder' = [builder EXCEPT !.given = builder.given \cup {v},
                      !.sets = Append(builder.sets, [column |-> c, val |-> v, name |-> name])]
  BY DEF SetColumn, SetGreatest
<1> DEFINE slot == [column |-> c, val |-> v, name |-> name]
           s == Append(builder.sets, slot)
           g == builder.given \cup {v}
<1>3. slot \in Slots
  BY <1>1 DEF Slots
<1>4. builder' = [builder EXCEPT !.given = g, !.sets = s]
  BY <1>2
<1> HIDE DEF slot, g
<1>5. s \in Seq(Slots) /\ Len(s) \in Nat /\ Len(s) <= Len(builder.sets) + 1
  BY <1>1, <1>3
<1> HIDE DEF s
<1>7. Len(s) <= MaxSlots /\ Len(s) + Len(builder.on) + Len(builder.cond) <= MaxSlots
  BY <1>1, <1>5, RoomFor
<1>8. s \in Upto(Slots, MaxSlots) /\ g \subseteq Values
  BY <1>1, <1>5, <1>7, SlotsFit DEF g
<1>9. builder' \in Builders
  BY <1>1, <1>8, <1>4 DEF Builders
<1>10. builder'.sets = s /\ builder'.on = builder.on /\ builder'.cond = builder.cond /\ builder'.kind = builder.kind
  BY <1>1, <1>4 DEF Builders
<1>11. QED BY <1>1, <1>7, <1>9, <1>10 DEF Shaped

\* The order of the columns names each of them once.
LEMMA OrderIs ==
  /\ Order \in Seq(Columns) /\ Len(Order) = Cardinality(Columns)
  /\ \A i, j \in DOMAIN Order : Order[i] = Order[j] => i = j
  /\ \E i \in DOMAIN Order : Order[i] = Stamp
<1> DEFINE n == Cardinality(Columns)
<1>1. n \in Nat /\ ExistsBijection(1..n, Columns)
  BY ColumnsAreFinite, FS_CardinalityType
<1>2. PICK g \in Bijection(1..n, Columns) : TRUE
  BY <1>1 DEF ExistsBijection
<1>3. g \in [1..n -> Columns] /\ IsInjective(g)
  BY <1>2 DEF Bijection, Injection
<1>4. Order \in [1..n -> Columns] /\ IsInjective(Order)
  BY <1>3 DEF Order, SetToSeq
<1>5. \A a, b \in DOMAIN Order : Order[a] = Order[b] => a = b
  BY <1>4 DEF IsInjective
<1>6. Order \in Seq(Columns) /\ Len(Order) = n
  BY <1>1, <1>4
<1>7. \E a \in DOMAIN Order : Order[a] = Stamp
  <2>1. Order \in Injection(1..n, Columns)
    BY <1>4 DEF Injection
  <2>2. IsFiniteSet(1..n) /\ Cardinality(1..n) = n
    BY <1>1, FS_Interval
  <2>3. Order \in Surjection(1..n, Columns)
    BY <2>1, <2>2, ColumnsAreFinite, FS_Injection
  <2>4. QED BY <2>3, <1>4, StampIsColumn DEF Surjection
<1>8. QED BY <1>5, <1>6, <1>7

\* An object gives each column its value.
LEMMA ObjectTyped ==
  ASSUME TypeInv, NEW v, SetObject(v)
  PROVE  builder' \in Builders /\ Shaped(builder')
<1>1. /\ builder \in Builders /\ Shaped(builder) /\ v \in Values
      /\ builder.given \subseteq Values
      /\ builder.kind \in {"insert", "object"} /\ builder.on = <<>> /\ builder.cond = <<>>
  BY Types, UsableIs, BuildersAre DEF TypeInv, SetObject, Building, Shaped
<1> DEFINE s == WholeObject(v)
           g == builder.given \cup {v}
<1>2. s \in Seq(Slots) /\ Len(s) = Cardinality(Columns)
  <2>1. DOMAIN Order = 1..Len(Order) /\ Len(Order) \in Nat /\ \A i \in 1..Len(Order) : Order[i] \in Columns
    BY OrderIs
  <2>2. ASSUME NEW i \in 1..Len(Order) PROVE [column |-> Order[i], name |-> Order[i], val |-> v] \in Slots
    BY <2>1, <1>1 DEF Slots
  <2>3. s = [i \in 1..Len(Order) |-> [column |-> Order[i], name |-> Order[i], val |-> v]]
    BY <2>1 DEF WholeObject
  <2>4. s \in [1..Len(Order) -> Slots]
    BY <2>2, <2>3
  <2> HIDE DEF s
  <2>5. s \in Seq(Slots) /\ Len(s) = Len(Order)
    BY <2>1, <2>4
  <2>6. QED BY <2>5, OrderIs
<1>3. builder' = [builder EXCEPT !.kind = "object", !.given = g, !.sets = s] /\ Cardinality(Columns) <= MaxSlots
  BY DEF SetObject
<1> HIDE DEF s
<1>4. s \in Upto(Slots, MaxSlots) /\ g \subseteq Values
  BY <1>1, <1>2, <1>3, SlotsFit
<1> HIDE DEF g
<1>5. builder' \in Builders
  BY <1>1, <1>3, <1>4 DEF Builders, Kinds
<1>6. builder'.sets = s /\ builder'.on = <<>> /\ builder'.cond = <<>> /\ builder'.kind = "object"
  BY <1>1, <1>3 DEF Builders
<1>7. Len(s) + 0 + 0 <= MaxSlots
  <2>1. Len(s) \in Nat
    BY <1>2, LenProperties
  <2>2. QED BY <2>1, <1>2, <1>3
<1>8. Len(<<>>) = 0
  OBVIOUS
<1>9. QED BY <1>5, <1>6, <1>7, <1>8 DEF Shaped

\* A builder that is dropped, or moved into a loop.
LEMMA EndsTyped ==
  ASSUME TypeInv, DropBuilder \/ \E r \in Results : LoopQuery(r)
  PROVE  builder' \in Builders /\ Shaped(builder')
<1>1. builder \in Builders /\ Shaped(builder)
  BY Types DEF TypeInv
<1>2. CASE DropBuilder
  <2>1. builder' = NoBuilder
    BY <1>2 DEF DropBuilder
  <2>2. <<>> \in Seq(Values) /\ <<>> \in Seq(Slots) /\ Len(<<>>) = 0 /\ 0 <= MaxSlots
    BY SlotBound
  <2>3. <<>> \in Upto(Values, MaxSlots) /\ <<>> \in Upto(Slots, MaxSlots)
    BY <2>2, SlotsFit
  <2>4. builder' \in Builders
    BY <2>1, <2>3 DEF Builders, NoBuilder
  <2>5. builder'.sets = <<>> /\ builder'.on = <<>> /\ builder'.cond = <<>> /\ builder'.kind = "none"
    BY <2>1 DEF NoBuilder
  <2>6. Len(<<>>) + Len(<<>>) + Len(<<>>) <= MaxSlots
    BY <2>2
  <2>7. QED BY <2>1, <2>4, <2>5, <2>6 DEF Shaped
<1>3. CASE \E r \in Results : LoopQuery(r)
  <2>1. builder' = [builder EXCEPT !.looping = TRUE] /\ builder.kind \in {"select", "join", "projected"}
    BY <1>3 DEF LoopQuery, Building
  <2>2. builder' \in Builders
    BY <1>1, <2>1 DEF Builders
  <2>3. builder'.sets = builder.sets /\ builder'.on = builder.on /\ builder'.cond = builder.cond /\ builder'.kind = builder.kind
    BY <1>1, <2>1 DEF Builders
  <2>4. QED BY <1>1, <2>1, <2>2, <2>3 DEF Shaped
<1>4. QED BY <1>2, <1>3

\* What a step makes of the builder.
Built ==
  \/ \E kind \in Kinds : NewBuilder(kind)
  \/ \E v \in Values : Where(v) \/ On(v) \/ SetObject(v)
  \/ JoinNext \/ Project
  \/ \E c \in Columns, v \in Values : SetColumn(c, v) \/ SetGreatest(c, v)
  \/ DropBuilder

\* The steps that run, bind, or release something.
Elsewhere ==
  \/ ExecuteBuilder
  \/ \E r \in Results : QueryBuilder(r) \/ LoopQuery(r)
  \/ \E rows \in [1..2 -> BOOLEAN] : InsertRows(rows)
  \/ NextStatement \/ NextResult \/ \E v \in Variables : Forget(v)

\* A step is a call that builds, or another.
LEMMA StepsAre == NextStep <=> Built \/ Elsewhere
BY DEF NextStep, NextBuilder, Built, Elsewhere

\* Every step leaves a builder with its clauses.
LEMMA BuilderTyped ==
  ASSUME TypeInv, [NextStep]_vars
  PROVE  builder' \in Builders /\ Shaped(builder')
<1>1. builder \in Builders /\ Shaped(builder)
  BY Types DEF TypeInv
<1>2. CASE builder' = builder
  BY <1>1, <1>2
<1>3. CASE Built
  <2>1. ASSUME NEW kind \in Kinds, NewBuilder(kind) PROVE builder' \in Builders /\ Shaped(builder')
    BY <2>1, NewBuilderTyped
  <2>2. ASSUME NEW v \in Values, Where(v) \/ On(v) \/ SetObject(v) PROVE builder' \in Builders /\ Shaped(builder')
    BY <2>2, WhereTyped, OnTyped, ObjectTyped
  <2>3. ASSUME NEW c \in Columns, NEW v \in Values, SetColumn(c, v) \/ SetGreatest(c, v)
        PROVE  builder' \in Builders /\ Shaped(builder')
    BY <2>3, SetTyped
  <2>4. CASE JoinNext \/ Project
    BY <2>4, JoinsTyped
  <2>5. CASE DropBuilder
    BY <2>5, EndsTyped
  <2>6. QED BY <1>3, <2>1, <2>2, <2>3, <2>4, <2>5 DEF Built
<1>4. CASE Elsewhere
  <2>1. CASE \E r \in Results : LoopQuery(r)
    BY <2>1, EndsTyped
  <2>2. CASE ~\E r \in Results : LoopQuery(r)
    <3>1. builder' = builder
      BY <1>4, <2>2 DEF Elsewhere, ExecuteBuilder, QueryBuilder, InsertRows, NextStatement, Prepare, Bind, QueryStatement,
         ExecuteStatement, Reset, ClearKeepAlives, DropStatement, QueryWith, NextResult, Next, Convert, DropResult, Forget
    <3>2. QED BY <1>2, <3>1
  <2>3. QED BY <2>1, <2>2
<1>5. CASE UNCHANGED vars
  BY <1>2, <1>5 DEF vars
<1>6. QED BY <1>3, <1>4, <1>5, StepsAre

\* The texts the program prepares.
LEMMA PreparedIs ==
  ASSUME NEW text \in {<<None>>, <<Stamp>>, <<Stamp, Stamp>>}
  PROVE  text \in Seq(Columns \cup {None}) /\ Len(text) <= 2 /\ Len(text) \in Nat /\ 1 \in DOMAIN text
<1>1. CASE text = <<None>>
  BY <1>1
<1>2. CASE text = <<Stamp>>
  BY <1>2, StampIsColumn
<1>3. CASE text = <<Stamp, Stamp>>
  BY <1>3, StampIsColumn
<1>4. QED BY <1>1, <1>2, <1>3

\* What a step makes of the statement.
LEMMA StmtTyped ==
  ASSUME TypeInv, [NextStep]_vars
  PROVE  stmt' \in Stmts
<1>1. stmt \in Stmts
  BY Types DEF TypeInv
<1>2. <<>> \in Upto(Columns \cup {None}, 2) /\ <<>> \in Upto(Values, 2)
  <2>1. <<>> \in Seq(Columns \cup {None}) /\ <<>> \in Seq(Values) /\ Len(<<>>) <= 2
    OBVIOUS
  <2>2. QED BY <2>1, UptoIs
<1>3. NoStmt \in Stmts
  BY <1>2 DEF NoStmt, Stmts
<1>4. ASSUME NEW text \in {<<None>>, <<Stamp>>, <<Stamp, Stamp>>}, Prepare(text) PROVE stmt' \in Stmts
  <2>1. text \in Seq(Columns \cup {None}) /\ Len(text) <= 2
    BY PreparedIs
  <2>2. text \in Upto(Columns \cup {None}, 2)
    BY <2>1, UptoIs
  <2>3. QED BY <1>2, <1>4, <2>2 DEF Prepare, NoStmt, Stmts
<1>5. ASSUME NEW v \in Values, Bind(v) PROVE stmt' \in Stmts
  <2> DEFINE values == [n \in DOMAIN stmt.text |-> v]
  <2>1. stmt.text \in Seq(Columns \cup {None}) /\ Len(stmt.text) <= 2 /\ Len(stmt.text) \in Nat
    <3>1. stmt.text \in Upto(Columns \cup {None}, 2)
      BY <1>1 DEF Stmts
    <3>2. QED BY <3>1, UptoIs, LenProperties
  <2>2. values \in Seq(Values) /\ Len(values) <= 2
    BY <2>1
  <2>3. values \in Upto(Values, 2) /\ stmt' = [stmt EXCEPT !.keep = stmt.keep \cup {v}, !.meant = values]
    BY <2>2, UptoIs, <1>5 DEF Bind
  <2> HIDE DEF values
  <2>4. stmt.keep \cup {v} \subseteq Values
    BY <1>1 DEF Stmts
  <2>5. QED BY <1>1, <2>3, <2>4 DEF Stmts
<1>6. CASE (\E r \in Results : QueryStatement(r)) \/ ExecuteStatement \/ Reset \/ ClearKeepAlives \/ DropStatement
  BY <1>1, <1>2, <1>3, <1>6 DEF QueryStatement, ExecuteStatement, Reset, ClearKeepAlives, DropStatement, Stmts
<1>7. CASE stmt' = stmt
  BY <1>1, <1>7
<1>8. CASE Built
  BY <1>7, <1>8 DEF Built, TheBuilder, NewBuilder, Where, On, SetObject, JoinNext, Project, SetColumn, SetGreatest, DropBuilder
<1>9. CASE Elsewhere /\ ~NextStatement
  BY <1>7, <1>9 DEF Elsewhere, ExecuteBuilder, QueryBuilder, LoopQuery, InsertRows, NextResult, Next, Convert, DropResult, Forget
<1>10. CASE NextStatement
  <2>1. CASE \E r \in Results, v \in Values : QueryWith(r, v)
    BY <1>7, <2>1 DEF QueryWith
  <2>2. QED BY <1>10, <1>4, <1>5, <1>6, <2>1 DEF NextStatement
<1>11. CASE UNCHANGED vars
  BY <1>7, <1>11 DEF vars
<1>12. QED BY <1>8, <1>9, <1>10, <1>11, StepsAre

\* What a native statement is given is of the right type.
LEMMA GivenTyped ==
  ASSUME TypeInv
  PROVE  /\ \A text \in Seq(Columns \cup {None}) : Len(text) <= 2 =>
              /\ ByPosition(text, <<>>) \in Bounds
              /\ \A v \in Values : /\ ByPosition(text, [n \in DOMAIN text |-> v]) \in Bounds
                                  /\ ByName(text, [n \in DOMAIN text |-> v]) \in Bounds
         /\ \A v \in Values : ByPosition(<<None>>, <<v>>) \in Bounds
         /\ <<>> \in Bounds /\ Binding(builder) \in Bounds
<1>1. ASSUME NEW V \in SUBSET (Values \cup {None}), NEW f \in Seq(V), NEW k \in Nat, Len(f) <= k, k <= 2 PROVE f \in Bounds
  <2>1. f \in Seq(Values \cup {None}) /\ Len(f) \in Nat
    BY LenProperties
  <2>2. Len(f) <= MaxSlots
    BY <2>1, <1>1, SlotBound
  <2>3. QED BY <2>1, <2>2, SlotsFit DEF Bounds
<1>2. ASSUME NEW text \in Seq(Columns \cup {None}), Len(text) <= 2
      PROVE  /\ ByPosition(text, <<>>) \in Bounds
             /\ \A v \in Values : /\ ByPosition(text, [n \in DOMAIN text |-> v]) \in Bounds
                                 /\ ByName(text, [n \in DOMAIN text |-> v]) \in Bounds
  <2>1. ByPosition(text, <<>>) \in Seq({None}) /\ Len(ByPosition(text, <<>>)) <= Len(text) /\ Len(text) \in Nat
    BY ClearedIs, LenProperties
  <2>2. ASSUME NEW v \in Values
        PROVE  /\ ByPosition(text, [n \in DOMAIN text |-> v]) \in Bounds
               /\ ByName(text, [n \in DOMAIN text |-> v]) \in Bounds
    <3> DEFINE values == [n \in DOMAIN text |-> v]
    <3>1. values \in Seq(Values) /\ Len(values) = Len(text)
      BY <2>1
    <3> HIDE DEF values
    <3>2. Elements(values) \cup {None} \in SUBSET (Values \cup {None})
      BY <3>1, ElementsIn
    <3>3. /\ ByPosition(text, values) \in Seq(Elements(values) \cup {None}) /\ Len(ByPosition(text, values)) <= Len(text)
          /\ ByName(text, values) \in Seq(Elements(values) \cup {None}) /\ Len(ByName(text, values)) <= Len(text)
      BY <3>1, ByPositionIs, ByNameIs
    <3>4. ByPosition(text, values) \in Bounds /\ ByName(text, values) \in Bounds
      BY <1>1, <1>2, <2>1, <3>2, <3>3
    <3>5. QED BY <3>4 DEF values
  <2>3. QED BY <1>1, <1>2, <2>1, <2>2
<1>3. ASSUME NEW v \in Values PROVE ByPosition(<<None>>, <<v>>) \in Bounds
  <2>1. <<None>> \in Seq(Columns \cup {None}) /\ <<v>> \in Seq(Values) /\ Len(<<None>>) = 1
    OBVIOUS
  <2>2. Elements(<<v>>) \cup {None} \in SUBSET (Values \cup {None})
    BY <2>1, ElementsIn
  <2>3. ByPosition(<<None>>, <<v>>) \in Seq(Elements(<<v>>) \cup {None}) /\ Len(ByPosition(<<None>>, <<v>>)) <= 1
    BY <2>1, ByPositionIs
  <2>4. QED BY <1>1, <2>2, <2>3
<1>4. <<>> \in Bounds
  <2>1. <<>> \in Seq(Values \cup {None}) /\ Len(<<>>) <= MaxSlots
    BY SlotBound
  <2>2. QED BY <2>1, SlotsFit DEF Bounds
<1>5. Binding(builder) \in Bounds
  BY Types, BindingIs DEF TypeInv, Bounds
<1>6. QED BY <1>2, <1>3, <1>4, <1>5

\* What a step makes of the native statements.
LEMMA BoundTyped ==
  ASSUME TypeInv, [NextStep]_vars
  PROVE  bound' \in [Natives -> Bounds]
<1>1. bound \in [Natives -> Bounds] /\ stmt \in Stmts
  BY Types DEF TypeInv
<1>2. stmt.text \in Seq(Columns \cup {None}) /\ Len(stmt.text) <= 2
  <2>1. stmt.text \in Upto(Columns \cup {None}, 2)
    BY <1>1 DEF Stmts
  <2>2. QED BY <2>1, UptoIs
<1>3. CASE bound' = bound
  BY <1>1, <1>3
<1>4. ASSUME NEW n, NEW f \in Bounds, bound' = [bound EXCEPT ![n] = f] PROVE bound' \in [Natives -> Bounds]
  BY <1>1, <1>4
<1>5. CASE Built
  BY <1>3, <1>5 DEF Built, TheBuilder, NewBuilder, Where, On, SetObject, JoinNext, Project, SetColumn, SetGreatest, DropBuilder
<1>6. CASE Elsewhere /\ ~NextStatement
  <2>1. CASE \E r \in Results : QueryBuilder(r) \/ LoopQuery(r)
    BY <2>1, <1>4, GivenTyped DEF QueryBuilder, LoopQuery
  <2>2. CASE \E r \in Results : DropResult(r)
    <3>1. PICK r \in Results : DropResult(r)
      BY <2>2
    <3>2. CASE bound' = [bound EXCEPT ![cursor[r].of] = <<>>]
      BY <3>2, <1>4, GivenTyped
    <3>3. CASE bound' = [bound EXCEPT ![cursor[r].of] = bound[cursor[r].of]]
      BY <3>3, <1>1
    <3>4. QED BY <3>1, <3>2, <3>3 DEF DropResult
  <2>3. CASE UNCHANGED bound
    BY <1>3, <2>3
  <2>4. QED BY <1>6, <2>1, <2>2, <2>3 DEF Elsewhere, ExecuteBuilder, InsertRows, NextResult, Next, Convert, Forget
<1>7. CASE NextStatement
  <2>1. ASSUME NEW text \in {<<None>>, <<Stamp>>, <<Stamp, Stamp>>}, Prepare(text) PROVE bound' \in [Natives -> Bounds]
    <3>1. text \in Seq(Columns \cup {None}) /\ Len(text) <= 2
      BY PreparedIs
    <3>2. ByPosition(text, <<>>) \in Bounds
      BY <3>1, GivenTyped
    <3>3. QED BY <2>1, <3>2, <1>4 DEF Prepare
  <2>2. ASSUME NEW v \in Values, Bind(v) PROVE bound' \in [Natives -> Bounds]
    <3> DEFINE values == [n \in DOMAIN stmt.text |-> v]
    <3>1. ByPosition(stmt.text, values) \in Bounds /\ ByName(stmt.text, values) \in Bounds
      BY <1>2, GivenTyped
    <3>2. \/ bound' = [bound EXCEPT !["own"] = ByPosition(stmt.text, values)]
          \/ bound' = [bound EXCEPT !["own"] = ByName(stmt.text, values)]
      BY <2>2 DEF Bind
    <3> HIDE DEF values
    <3>3. QED BY <3>1, <3>2, <1>4
  <2>3. CASE Reset
    <3>1. ByPosition(stmt.text, <<>>) \in Bounds
      BY <1>2, GivenTyped
    <3>2. QED BY <2>3, <3>1, <1>4 DEF Reset
  <2>4. CASE DropStatement
    <3>1. CASE bound' = [bound EXCEPT !["own"] = <<>>]
      BY <3>1, <1>4, GivenTyped
    <3>2. CASE bound' = [bound EXCEPT !["own"] = bound["own"]]
      BY <3>2, <1>1
    <3>3. QED BY <2>4, <3>1, <3>2 DEF DropStatement
  <2>5. ASSUME NEW r \in Results, NEW v \in Values, QueryWith(r, v) PROVE bound' \in [Natives -> Bounds]
    <3>1. ByPosition(<<None>>, <<v>>) \in Bounds
      BY GivenTyped
    <3>2. QED BY <2>5, <3>1, <1>4 DEF QueryWith
  <2>6. CASE UNCHANGED bound
    BY <1>3, <2>6
  <2>7. QED BY <1>7, <2>1, <2>2, <2>3, <2>4, <2>5, <2>6 DEF NextStatement, QueryStatement, ExecuteStatement, ClearKeepAlives
<1>8. CASE UNCHANGED vars
  BY <1>3, <1>8 DEF vars
<1>9. QED BY <1>5, <1>6, <1>7, <1>8, StepsAre

\* Result sets that are left stay where they are.
LEMMA LeftIs ==
  ASSUME cursor \in [Results -> Cursors], NEW rs
  PROVE  /\ Left(rs) \in [Results -> Cursors] /\ Left({}) = cursor
         /\ \A q \in Results : /\ Left(rs)[q].state = cursor[q].state /\ Left(rs)[q].of = cursor[q].of
                               /\ Left(rs)[q].store = cursor[q].store
                               /\ IF q \in rs THEN (driver = "sqlite" => Left(rs)[q].bare) /\ ~Left(rs)[q].loop
                                  ELSE Left(rs)[q] = cursor[q]
<1>1. \A q \in Results : Left(rs)[q] = IF q \in rs THEN [cursor[q] EXCEPT !.loop = FALSE, !.bare = (driver = "sqlite")]
                                       ELSE cursor[q]
  BY DEF Left
<1>2. ASSUME NEW q \in Results
      PROVE  LET c == [cursor[q] EXCEPT !.loop = FALSE, !.bare = (driver = "sqlite")]
             IN  /\ c \in Cursors /\ c.state = cursor[q].state /\ c.of = cursor[q].of /\ c.store = cursor[q].store
                 /\ (driver = "sqlite" => c.bare) /\ ~c.loop
  <2>1. cursor[q] \in Cursors
    OBVIOUS
  <2>2. QED BY <2>1 DEF Cursors
<1>3. \A q \in Results : Left(rs)[q] \in Cursors
  BY <1>1, <1>2
<1>4. Left(rs) \in [Results -> Cursors]
  BY <1>3 DEF Left
<1>5. Left({}) = cursor
  BY DEF Left
<1>6. QED BY <1>1, <1>2, <1>4, <1>5

\* A result set is opened; others may be left.
Opens(r, c) == \E rs \in SUBSET Results : cursor' = [Left(rs) EXCEPT ![r] = c]

\* An open result set.
Opened(r, store, loop, bare) == [state |-> "open", of |-> r, store |-> store, loop |-> loop, bare |-> bare]

\* A query of a builder opens a result set.
LEMMA QueriesOpen ==
  ASSUME NEW r \in Results
  PROVE  /\ QueryBuilder(r) => Opens(r, Opened(r, Storage(builder), FALSE, FALSE))
         /\ LoopQuery(r) => Opens(r, Opened(r, {}, TRUE, FALSE))
<1>1. Overwritten(builder) \subseteq SUBSET Results
  BY DEF Overwritten, PointInto
<1>2. ASSUME QueryBuilder(r) PROVE Opens(r, Opened(r, Storage(builder), FALSE, FALSE))
  <2>1. PICK rs \in Overwritten(builder) :
          cursor' = [Left(rs) EXCEPT ![r] = [NoCursor EXCEPT !.state = "open", !.of = r, !.store = Storage(builder)]]
    BY <1>2 DEF QueryBuilder
  <2>2. PICK c : c = [NoCursor EXCEPT !.state = "open", !.of = r, !.store = Storage(builder)]
    OBVIOUS
  <2>3. c = Opened(r, Storage(builder), FALSE, FALSE)
    BY <2>2 DEF NoCursor, Opened
  <2>4. QED BY <1>1, <2>1, <2>2, <2>3 DEF Opens
<1>3. ASSUME LoopQuery(r) PROVE Opens(r, Opened(r, {}, TRUE, FALSE))
  <2>1. PICK rs \in Overwritten(builder) :
          cursor' = [Left(rs) EXCEPT ![r] = [NoCursor EXCEPT !.state = "open", !.of = r, !.loop = TRUE]]
    BY <1>3 DEF LoopQuery
  <2>2. PICK c : c = [NoCursor EXCEPT !.state = "open", !.of = r, !.loop = TRUE]
    OBVIOUS
  <2>3. c = Opened(r, {}, TRUE, FALSE)
    BY <2>2 DEF NoCursor, Opened
  <2>4. QED BY <1>1, <2>1, <2>2, <2>3 DEF Opens
<1>4. QED BY <1>2, <1>3

\* What a step makes of the result sets.
LEMMA CursorTyped ==
  ASSUME TypeInv, [NextStep]_vars
  PROVE  cursor' \in [Results -> Cursors]
<1>1. cursor \in [Results -> Cursors] /\ builder \in Builders
  BY Types DEF TypeInv
<1>2. CASE cursor' = cursor
  BY <1>1, <1>2
<1>3. ASSUME NEW r \in Results, NEW c \in Cursors, Opens(r, c) \/ cursor' = [cursor EXCEPT ![r] = c]
      PROVE  cursor' \in [Results -> Cursors]
  <2>1. CASE cursor' = [cursor EXCEPT ![r] = c]
    BY <1>1, <2>1
  <2>2. ASSUME NEW rs \in SUBSET Results, cursor' = [Left(rs) EXCEPT ![r] = c] PROVE cursor' \in [Results -> Cursors]
    <3>1. Left(rs) \in [Results -> Cursors]
      BY <1>1, LeftIs
    <3>2. QED BY <2>2, <3>1
  <2>3. QED BY <1>3, <2>1, <2>2 DEF Opens
<1>4. Storage(builder) \subseteq Values
  <2>1. Elements(builder.on) \subseteq Values /\ Elements(builder.cond) \subseteq Values
    BY <1>1, BuildersAre, ElementsIn
  <2>2. QED BY <2>1 DEF Storage
<1>5. ASSUME NEW of \in Natives, NEW store \in {Storage(builder), {}}, NEW loop \in BOOLEAN, NEW bare \in BOOLEAN
      PROVE  Opened(of, store, loop, bare) \in Cursors
  BY <1>4 DEF Opened, Cursors
<1>6. CASE \E r \in Results : QueryBuilder(r) \/ LoopQuery(r)
  <2>1. PICK r \in Results : QueryBuilder(r) \/ LoopQuery(r)
    BY <1>6
  <2>2. r \in Natives
    BY DEF Natives
  <2>3. Opens(r, Opened(r, Storage(builder), FALSE, FALSE)) \/ Opens(r, Opened(r, {}, TRUE, FALSE))
    BY <2>1, QueriesOpen
  <2>4. QED BY <1>3, <1>5, <2>2, <2>3
<1>7. CASE \E r \in Results : QueryStatement(r) \/ \E v \in Values : QueryWith(r, v)
  <2>1. PICK r \in Results : QueryStatement(r) \/ \E v \in Values : QueryWith(r, v)
    BY <1>7
  <2>2. r \in Natives /\ "own" \in Natives
    BY DEF Natives
  <2>3. \/ cursor' = [cursor EXCEPT ![r] = Opened("own", {}, FALSE, FALSE)]
        \/ cursor' = [cursor EXCEPT ![r] = Opened(r, {}, FALSE, driver = "sqlite")]
    BY <2>1 DEF QueryStatement, QueryWith, NoCursor, Opened
  <2>4. QED BY <1>3, <1>5, <2>2, <2>3
<1>8. CASE \E r \in Results : Next(r)
  <2>1. PICK r \in Results, state \in {"open", "ended"} : cursor' = [cursor EXCEPT ![r].state = state]
    BY <1>8 DEF Next
  <2>2. QED BY <1>1, <2>1 DEF Cursors
<1>9. CASE \E r \in Results : Convert(r)
  <2>1. PICK r \in Results : cursor' = [Left({r}) EXCEPT ![r].store = {}]
    BY <1>9 DEF Convert
  <2>2. Left({r}) \in [Results -> Cursors]
    BY <1>1, LeftIs
  <2>3. QED BY <2>1, <2>2 DEF Cursors
<1>10. CASE \E r \in Results : DropResult(r)
  <2>1. NoCursor \in Cursors
    BY DEF NoCursor, Cursors
  <2>2. QED BY <1>10, <2>1, <1>3 DEF DropResult
<1>11. CASE DropBuilder \/ DropStatement
  BY <1>1, <1>11, LeftIs DEF DropBuilder, DropStatement
<1>12. CASE Built
  BY <1>2, <1>11, <1>12 DEF Built, TheBuilder, NewBuilder, Where, On, SetObject, JoinNext, Project, SetColumn, SetGreatest
<1>13. CASE Elsewhere
  BY <1>2, <1>6, <1>7, <1>8, <1>9, <1>10, <1>11, <1>13 DEF Elsewhere, ExecuteBuilder, InsertRows, NextStatement, Prepare,
     Bind, ExecuteStatement, Reset, ClearKeepAlives, NextResult, Forget
<1>14. CASE UNCHANGED vars
  BY <1>2, <1>14 DEF vars
<1>15. QED BY <1>12, <1>13, <1>14, StepsAre

\* The driver, the scope and the mishaps stay within their types.
LEMMA OthersTyped ==
  ASSUME TypeInv, [NextStep]_vars
  PROVE  driver' \in Drivers /\ scope' \subseteq Variables /\ mishaps' \subseteq Mishaps
<1>1. driver \in Drivers /\ scope \subseteq Variables /\ mishaps \subseteq Mishaps
  BY Types DEF TypeInv
<1>2. CASE UNCHANGED <<driver, scope, mishaps>>
  BY <1>1, <1>2
<1>3. CASE Built
  BY <1>2, <1>3 DEF Built, TheBuilder, NewBuilder, Where, On, SetObject, JoinNext, Project, SetColumn, SetGreatest, DropBuilder
<1>4. /\ \A m, g, given : Amiss(m, g, given) \subseteq Mishaps
      /\ Trouble(builder) \subseteq Mishaps /\ RunTrouble \subseteq Mishaps
      /\ \A values : Read(values) \subseteq Mishaps /\ ReadToSend(values) \subseteq Mishaps
      /\ \A r \in Results : ReadToStep(r) \subseteq Mishaps
  <2>1. \A m, g, given : Amiss(m, g, given) \subseteq Mishaps
    BY DEF Amiss, Mishaps
  <2>2. \A values : Read(values) \subseteq Mishaps
    BY DEF Read, Mishaps
  <2>3. \A values : ReadToSend(values) \subseteq Mishaps
    BY <2>2 DEF ReadToSend
  <2>4. \A r \in Results : ReadToStep(r) \subseteq Mishaps
    <3>1. {"strayed"} \subseteq Mishaps
      BY DEF Mishaps
    <3>2. QED BY <2>2, <3>1 DEF ReadToStep
  <2>5. QED BY <2>1, <2>2, <2>3, <2>4 DEF Trouble, RunTrouble
<1>5. CASE Elsewhere
  <2>1. CASE mishaps' = mishaps
    BY <1>1, <1>5, <2>1 DEF Elsewhere, ExecuteBuilder, QueryBuilder, LoopQuery, InsertRows, NextStatement, Prepare, Bind,
       QueryStatement, ExecuteStatement, Reset, ClearKeepAlives, DropStatement, QueryWith, NextResult, Next, Convert, DropResult, Forget
  <2>2. CASE ExecuteBuilder \/ \E r \in Results : QueryBuilder(r) \/ LoopQuery(r)
    BY <1>1, <1>4, <2>2 DEF ExecuteBuilder, QueryBuilder, LoopQuery
  <2>3. CASE \E rows \in [1..2 -> BOOLEAN] : InsertRows(rows)
    BY <1>1, <1>4, <2>3 DEF InsertRows
  <2>4. CASE ExecuteStatement \/ \E r \in Results : QueryStatement(r)
    BY <1>1, <1>4, <2>4 DEF ExecuteStatement, QueryStatement
  <2>5. CASE \E r \in Results : Next(r)
    BY <1>1, <1>4, <2>5 DEF Next
  <2>6. QED BY <1>5, <2>1, <2>2, <2>3, <2>4, <2>5 DEF Elsewhere, NextStatement, Prepare, Bind, Reset, ClearKeepAlives,
           DropStatement, QueryWith, NextResult, Convert, DropResult, Forget
<1>6. CASE UNCHANGED vars
  BY <1>2, <1>6 DEF vars
<1>7. QED BY <1>3, <1>5, <1>6, StepsAre

\* Every step keeps types and shapes.
LEMMA TypeInvHolds == Spec => []TypeInv
<1>1. Init => TypeInv
  <2>1. SUFFICES ASSUME Init PROVE TypeInv
    OBVIOUS
  <2>2. <<>> \in Seq(Values) /\ <<>> \in Seq(Slots) /\ <<>> \in Seq(Values \cup {None}) /\ <<>> \in Seq(Columns \cup {None}) /\ Len(<<>>) = 0
    OBVIOUS
  <2>3. Len(<<>>) <= MaxSlots /\ Len(<<>>) <= 2 /\ Len(<<>>) + Len(<<>>) + Len(<<>>) <= MaxSlots
    BY <2>2, SlotBound
  <2>4. <<>> \in Upto(Values, MaxSlots) /\ <<>> \in Upto(Slots, MaxSlots) /\ <<>> \in Bounds
    BY <2>2, <2>3, SlotsFit DEF Bounds
  <2>5. <<>> \in Upto(Columns \cup {None}, 2) /\ <<>> \in Upto(Values, 2)
    BY <2>2, <2>3, UptoIs
  <2>6. builder \in Builders /\ Shaped(builder)
    <3>1. builder = NoBuilder
      BY <2>1 DEF Init
    <3>2. builder \in Builders
      BY <3>1, <2>4 DEF NoBuilder, Builders
    <3>3. builder.sets = <<>> /\ builder.on = <<>> /\ builder.cond = <<>> /\ builder.kind = "none"
      BY <3>1 DEF NoBuilder
    <3>4. QED BY <3>1, <3>2, <3>3, <2>3 DEF Shaped
  <2>7. stmt \in Stmts
    BY <2>1, <2>5 DEF Init, NoStmt, Stmts
  <2>8. cursor \in [Results -> Cursors] /\ bound \in [Natives -> Bounds]
    BY <2>1, <2>4 DEF Init, NoCursor, Cursors
  <2>9. driver \in Drivers /\ scope \subseteq Variables /\ mishaps \subseteq Mishaps
    BY <2>1 DEF Init
  <2>10. QED BY <2>6, <2>7, <2>8, <2>9, Types DEF TypeInv
<1>2. TypeInv /\ [NextStep]_vars => TypeInv'
  <2>1. SUFFICES ASSUME TypeInv, [NextStep]_vars PROVE TypeInv'
    OBVIOUS
  <2>2. builder' \in Builders /\ Shaped(builder')
    BY <2>1, BuilderTyped
  <2>3. stmt' \in Stmts /\ cursor' \in [Results -> Cursors] /\ bound' \in [Natives -> Bounds]
    BY <2>1, StmtTyped, CursorTyped, BoundTyped
  <2>4. driver' \in Drivers /\ scope' \subseteq Variables /\ mishaps' \subseteq Mishaps
    BY <2>1, OthersTyped
  <2>5. TypeOK'
    BY <2>2, <2>3, <2>4 DEF TypeOK, Builders, Stmts, Cursors, Bounds, Mishaps
  <2>6. QED BY <2>2, <2>5 DEF TypeInv
<1>3. QED BY <1>1, <1>2, PTL DEF Spec

\* The builder, the statement, the native statements and the result sets keep
\* their shapes, and no statement has more parameters than it has
\* placeholders, for every driver and whatever the program keeps to.
THEOREM BoundTypeCorrect == Spec => []TypeOK
<1>1. TypeInv => TypeOK
  BY DEF TypeInv
<1>2. QED BY <1>1, TypeInvHolds, PTL

-----------------------------------------------------------------------------
(* What the actions make of a builder.                                     *)

\* An append has one member more.
LEMMA ElementsAppend ==
  ASSUME NEW S, NEW s \in Seq(S), NEW v \in S
  PROVE  Elements(Append(s, v)) = Elements(s) \cup {v}
<1>1. Len(Append(s, v)) = Len(s) + 1 /\ Len(s) \in Nat /\ Append(s, v) \in Seq(S)
  BY AppendProperties, LenProperties
<1>2. ASSUME NEW i \in DOMAIN Append(s, v) PROVE Append(s, v)[i] \in Elements(s) \cup {v}
  BY <1>1 DEF Elements
<1>3. ASSUME NEW i \in DOMAIN s PROVE s[i] \in Elements(Append(s, v))
  <2>1. i \in DOMAIN Append(s, v) /\ Append(s, v)[i] = s[i]
    BY <1>1
  <2>2. QED BY <2>1 DEF Elements
<1>4. v \in Elements(Append(s, v))
  <2>1. Len(s) + 1 \in DOMAIN Append(s, v) /\ Append(s, v)[Len(s) + 1] = v
    BY <1>1
  <2>2. QED BY <2>1 DEF Elements
<1>5. QED BY <1>2, <1>3, <1>4 DEF Elements

\* What a new builder has: nothing, or the time of an update.
LEMMA NewBuilderMakes ==
  ASSUME TypeInv, NEW kind, NewBuilder(kind)
  PROVE  /\ builder.kind = "none"
         /\ builder'.looping = FALSE /\ builder'.given = {} /\ builder'.on = <<>> /\ builder'.cond = <<>>
         /\ builder'.kind = kind /\ kind # "projected" /\ kind # "none"
         /\ \/ builder'.sets = <<>>
            \/ \E now \in Usable : builder'.sets = <<[column |-> Stamp, name |-> Stamp, val |-> now]>> /\ kind = "update"
<1>1. builder.kind = "none" /\ kind # "projected" /\ kind # "none"
  BY DEF NewBuilder, Kinds
<1>2. CASE builder' = [NoBuilder EXCEPT !.kind = kind, !.due = (kind = "join")]
  BY <1>1, <1>2 DEF NoBuilder
<1>3. ASSUME kind = "update", NEW now \in Usable,
             builder' = [NoBuilder EXCEPT !.kind = kind, !.sets = <<[column |-> Stamp, name |-> Stamp, val |-> now]>>]
      PROVE  /\ builder'.looping = FALSE /\ builder'.given = {} /\ builder'.on = <<>> /\ builder'.cond = <<>>
             /\ builder'.kind = kind
             /\ builder'.sets = <<[column |-> Stamp, name |-> Stamp, val |-> now]>>
  BY <1>3 DEF NoBuilder
<1>4. QED BY <1>1, <1>2, <1>3 DEF NewBuilder

\* A condition more, and for update and remove no other with "once".
LEMMA WhereMakes ==
  ASSUME TypeInv, NEW v, Where(v)
  PROVE  /\ v \in Usable /\ v \in Values /\ ~builder.looping /\ ~builder'.looping
         /\ builder'.kind = builder.kind /\ builder'.sets = builder.sets /\ builder'.on = builder.on
         /\ builder'.given = builder.given \cup {v}
         /\ builder.kind \in {"select", "join", "projected", "update", "delete"}
         /\ v \in Elements(builder'.cond) /\ Elements(builder'.cond) \subseteq Elements(builder.cond) \cup {v}
         /\ "once" \in Rules => Elements(builder'.cond) = Elements(builder.cond) \cup {v}
<1> DEFINE c == IF builder.kind \in {"update", "delete"} THEN <<v>> ELSE Append(builder.cond, v)
           g == builder.given \cup {v}
<1>1. /\ builder \in Builders /\ v \in Values /\ v \in Usable /\ builder.cond \in Seq(Values)
      /\ builder.kind \in {"select", "join", "projected", "update", "delete"} /\ ~builder.looping
      /\ "once" \in Rules /\ builder.kind \in {"update", "delete"} => builder.cond = <<>>
  BY Types, UsableIs, BuildersAre DEF TypeInv, Where, Building
<1>2. Elements(<<v>>) = {v} /\ Elements(<<>>) = {}
  BY DEF Elements
<1>3. /\ v \in Elements(c) /\ Elements(c) \subseteq Elements(builder.cond) \cup {v}
      /\ "once" \in Rules => Elements(c) = Elements(builder.cond) \cup {v}
  BY <1>1, <1>2, ElementsAppend
<1>4. builder' = [builder EXCEPT !.given = g, !.cond = c]
  BY DEF Where
<1> HIDE DEF c
<1>5. QED BY <1>1, <1>3, <1>4 DEF Builders

\* The ON of the table joined last, and no other ON lost with "once".
LEMMA OnMakes ==
  ASSUME TypeInv, NEW v, On(v)
  PROVE  /\ v \in Usable /\ v \in Values /\ ~builder.looping /\ ~builder'.looping
         /\ builder.kind = "join" /\ builder'.kind = "join" /\ builder'.sets = builder.sets /\ builder'.cond = builder.cond
         /\ builder'.given = builder.given \cup {v}
         /\ Elements(builder'.on) \subseteq Elements(builder.on) \cup {v}
         /\ "once" \in Rules => Elements(builder'.on) = Elements(builder.on) \cup {v}
<1> DEFINE o == IF builder.due THEN Append(builder.on, v) ELSE [builder.on EXCEPT ![Len(builder.on)] = v]
           g == builder.given \cup {v}
<1>1. /\ builder \in Builders /\ v \in Values /\ v \in Usable /\ builder.on \in Seq(Values)
      /\ builder.kind = "join" /\ ~builder.looping
      /\ "once" \in Rules => builder.due
  BY Types, UsableIs, BuildersAre DEF TypeInv, On, Building
<1>2. Elements(Append(builder.on, v)) = Elements(builder.on) \cup {v}
  BY <1>1, ElementsAppend
<1>3. Elements([builder.on EXCEPT ![Len(builder.on)] = v]) \subseteq Elements(builder.on) \cup {v}
  BY DEF Elements
<1>4. Elements(o) \subseteq Elements(builder.on) \cup {v} /\ ("once" \in Rules => Elements(o) = Elements(builder.on) \cup {v})
  BY <1>1, <1>2, <1>3
<1>5. builder' = [builder EXCEPT !.given = g, !.due = FALSE, !.on = o]
  BY DEF On
<1> HIDE DEF o
<1>6. QED BY <1>1, <1>4, <1>5 DEF Builders

\* Joining and projecting leave the values and drop the conditions.
LEMMA JoinsMake ==
  ASSUME TypeInv, JoinNext \/ Project
  PROVE  /\ ~builder.looping /\ ~builder'.looping
         /\ builder.kind = "join" /\ builder'.kind \in {"join", "projected"}
         /\ builder'.sets = builder.sets /\ builder'.on = builder.on /\ builder'.cond = <<>>
         /\ builder'.given = builder.given
         /\ "whole" \in Rules /\ JoinNext => builder.cond = <<>> /\ builder'.kind = "join"
         /\ "whole" \in Rules /\ Project => builder.given = {}
<1>1. builder \in Builders
  BY Types DEF TypeInv
<1>2. QED BY <1>1 DEF JoinNext, Project, Building, Builders

\* One assignment more, of its column under its name or under none.
LEMMA SetMakes ==
  ASSUME TypeInv, NEW c \in Columns, NEW v, SetColumn(c, v) \/ SetGreatest(c, v)
  PROVE  /\ v \in Usable /\ v \in Values /\ ~builder.looping /\ ~builder'.looping
         /\ builder.kind \in {"update", "insert", "upsert"} /\ builder'.kind = builder.kind
         /\ builder'.on = builder.on /\ builder'.cond = builder.cond
         /\ builder'.given = builder.given \cup {v}
         /\ \E name \in {c, None} : builder'.sets = Append(builder.sets, [column |-> c, val |-> v, name |-> name])
         /\ "distinct" \in Rules => c \notin Columned
<1>1. builder \in Builders /\ v \in Values /\ v \in Usable /\ ~builder.looping /\ builder.kind \in {"update", "insert", "upsert"}
  BY Types, UsableIs DEF TypeInv, SetColumn, SetGreatest, Building
<1>2. PICK name \in {c, None} :
        builder' = [builder EXCEPT !.given = builder.given \cup {v},
                      !.sets = Append(builder.sets, [column |-> c, val |-> v, name |-> name])]
  BY DEF SetColumn, SetGreatest
<1>3. "distinct" \in Rules => c \notin Columned
  BY DEF SetColumn, SetGreatest
<1> DEFINE s == Append(builder.sets, [column |-> c, val |-> v, name |-> name])
<1>4. builder' = [builder EXCEPT !.given = builder.given \cup {v}, !.sets = s]
  BY <1>2
<1> HIDE DEF s
<1>5. builder'.sets = s /\ builder'.given = builder.given \cup {v} /\ builder'.on = builder.on /\ builder'.cond = builder.cond
      /\ builder'.kind = builder.kind /\ builder'.looping = builder.looping
  BY <1>1, <1>4 DEF Builders
<1>6. \E nm \in {c, None} : builder'.sets = Append(builder.sets, [column |-> c, val |-> v, name |-> nm])
  BY <1>5 DEF s
<1>7. QED BY <1>1, <1>3, <1>5, <1>6

\* An object in the place of what was set.
LEMMA ObjectMakes ==
  ASSUME TypeInv, NEW v, SetObject(v)
  PROVE  /\ v \in Usable /\ v \in Values /\ ~builder.looping /\ ~builder'.looping
         /\ builder.kind \in {"insert", "object"} /\ builder'.kind = "object"
         /\ builder'.on = builder.on /\ builder'.cond = builder.cond
         /\ builder'.given = builder.given \cup {v} /\ builder'.sets = WholeObject(v)
         /\ "once" \in Rules => builder.kind = "insert" /\ builder.sets = <<>>
<1>1. builder \in Builders /\ v \in Values /\ v \in Usable
  BY Types, UsableIs DEF TypeInv, SetObject
<1>2. /\ ~builder.looping /\ builder.kind \in {"insert", "object"}
      /\ "once" \in Rules => builder.kind = "insert" /\ builder.sets = <<>>
  BY DEF SetObject, Building
<1> DEFINE s == WholeObject(v)
<1>3. builder' = [builder EXCEPT !.kind = "object", !.given = builder.given \cup {v}, !.sets = s]
  BY DEF SetObject
<1> HIDE DEF s
<1>4. builder'.sets = s /\ builder'.given = builder.given \cup {v} /\ builder'.on = builder.on /\ builder'.cond = builder.cond
      /\ builder'.kind = "object" /\ builder'.looping = builder.looping
  BY <1>1, <1>3 DEF Builders
<1>5. QED BY <1>1, <1>2, <1>4 DEF s

\* The values of the assignments after one more.
LEMMA AssignedVals ==
  ASSUME NEW b \in Builders, NEW c, NEW v \in Values, NEW name,
         NEW d, d.sets = Append(b.sets, [column |-> c, val |-> v, name |-> name])
  PROVE  SetVals(d) = SetVals(b) \cup {v}
<1> DEFINE s == d.sets
<1>1. b.sets \in Seq(Slots) /\ Len(b.sets) \in Nat
  BY BuildersAre
<1>2. DOMAIN s = 1..(Len(b.sets) + 1) /\ DOMAIN b.sets = 1..Len(b.sets)
  BY <1>1
<1>3. s[Len(b.sets) + 1].val = v /\ \A i \in 1..Len(b.sets) : s[i] = b.sets[i]
  BY <1>1
<1>4. \A i \in 1..(Len(b.sets) + 1) : i \in 1..Len(b.sets) \/ i = Len(b.sets) + 1
  BY <1>1
<1>5. 1..Len(b.sets) \subseteq 1..(Len(b.sets) + 1) /\ Len(b.sets) + 1 \in 1..(Len(b.sets) + 1)
  BY <1>1
<1>6. QED BY <1>2, <1>3, <1>4, <1>5 DEF SetVals

\* An object is the value of every column.
LEMMA ObjectVals ==
  ASSUME NEW v, NEW d, d.sets = WholeObject(v)
  PROVE  SetVals(d) = {v}
<1>1. DOMAIN d.sets = DOMAIN Order /\ \A i \in DOMAIN Order : d.sets[i].val = v
  BY DEF WholeObject
<1>2. \E i \in DOMAIN Order : TRUE
  BY OrderIs
<1>3. QED BY <1>1, <1>2 DEF SetVals

-----------------------------------------------------------------------------
(* Who keeps what is pointed at.                                           *)

Reach(n) == Elements(bound[n]) \ {None}

\* What a prepared statement points at is kept by its wrapper.
StatementKeeps ==
  /\ ~stmt.live => stmt = NoStmt
  /\ stmt.live => /\ 1 \in DOMAIN stmt.text
                  /\ Reach("own") \subseteq stmt.keep
                  /\ stmt.meant = <<>> => Reach("own") = {}

\* A result set reads from its own native statement or from the prepared one.
CursorsRead ==
  \A r \in Results : IF cursor[r].state = "none" THEN cursor[r].of = None ELSE cursor[r].of \in {r, "own"}

\* What an open result set points at is kept by a wrapper, by a builder in a
\* loop or by its storage, unless it was left.
StillKept(r) ==
  cursor[r].state = "open" /\ ~cursor[r].bare =>
    /\ cursor[r].of = "own" => stmt.live
    /\ cursor[r].of = r /\ cursor[r].loop => builder.looping /\ Reach(r) \subseteq HeldByBuilder
    /\ cursor[r].of = r /\ ~cursor[r].loop => Reach(r) \subseteq cursor[r].store

LivesInv ==
  /\ StatementKeeps /\ CursorsRead
  /\ driver = "sqlite" => \A r \in Results : StillKept(r)
  /\ NoFreedValueRead

\* Who holds what, in terms of the clauses.
LEMMA HeldIs ==
  ASSUME TypeInv
  PROVE  /\ HeldByBuilder = SetVals(builder) \cup Elements(builder.cond)
                              \cup (IF builder.kind = "projected" THEN {} ELSE Elements(builder.on))
         /\ HeldByBuilder \subseteq Vals(builder) /\ Vals(builder) \subseteq Values
<1>1. builder \in Builders
  BY Types DEF TypeInv
<1>2. Vals(builder) \subseteq Values
  <2>1. Meant(builder) \in Seq(Values) /\ Elements(Meant(builder)) = Vals(builder)
    BY <1>1, MeantIs
  <2>2. QED BY <2>1, ElementsIn
<1>3. HeldByBuilder = SetVals(builder) \cup Elements(builder.cond)
                        \cup (IF builder.kind = "projected" THEN {} ELSE Elements(builder.on))
  BY DEF HeldByBuilder, SetVals
<1>4. HeldByBuilder \subseteq Vals(builder)
  BY <1>3 DEF Vals
<1>5. QED BY <1>2, <1>3, <1>4

\* Nothing freed is read where somebody keeps what is pointed at.
LEMMA KeptIsAlive ==
  ASSUME NEW values, Elements(values) \cap Temps \subseteq stmt.keep \cup HeldByBuilder \cup HeldByResults
  PROVE  "freed" \notin Read(values) /\ "freed" \notin ReadToSend(values)
BY DEF Alive, Read, ReadToSend

\* What a builder's statement points at is alive when it is sent.
LEMMA SentIsAlive ==
  ASSUME TypeInv
  PROVE  /\ Elements(Binding(builder)) \subseteq HeldByBuilder \cup {None}
         /\ "freed" \notin Read(Binding(builder)) /\ "freed" \notin ReadToSend(Binding(builder))
<1>1. builder \in Builders /\ Shaped(builder)
  BY Types DEF TypeInv
<1>2. Elements(Binding(builder)) \subseteq HeldByBuilder \cup {None}
  <2>1. CASE builder.kind = "projected"
    <3>1. Elements(Binding(builder)) \subseteq Elements(builder.cond) \cup {None}
      BY <1>1, <2>1, BindingIs
    <3>2. Elements(builder.cond) \subseteq HeldByBuilder
      BY HeldIs
    <3>3. QED BY <3>1, <3>2
  <2>2. CASE builder.kind # "projected"
    <3>1. Elements(Binding(builder)) \subseteq Vals(builder) \cup {None}
      BY <1>1, BindingIs
    <3>2. Vals(builder) = HeldByBuilder
      BY <2>2, HeldIs DEF Vals
    <3>3. QED BY <3>1, <3>2
  <2>3. QED BY <2>1, <2>2
<1>3. None \notin Temps
  BY NoneIsNoValue
<1>4. Elements(Binding(builder)) \cap Temps \subseteq stmt.keep \cup HeldByBuilder \cup HeldByResults
  BY <1>2, <1>3
<1>5. QED BY <1>2, <1>4, KeptIsAlive

\* What a prepared statement points at is alive when it runs.
LEMMA RunIsAlive ==
  ASSUME StatementKeeps, stmt.live
  PROVE  "freed" \notin Read(bound["own"]) /\ "freed" \notin ReadToSend(bound["own"])
<1>1. Elements(bound["own"]) \cap Temps \subseteq stmt.keep \cup HeldByBuilder \cup HeldByResults
  BY NoneIsNoValue DEF StatementKeeps, Reach
<1>2. QED BY <1>1, KeptIsAlive

\* What an open result set of SQLite points at is alive at every step.
LEMMA StepIsAlive ==
  ASSUME LivesInv, NEW r \in Results, cursor[r].state = "open"
  PROVE  "freed" \notin ReadToStep(r)
<1>1. StatementKeeps /\ cursor[r].of \in {r, "own"} /\ (driver = "sqlite" => StillKept(r))
  BY DEF LivesInv, CursorsRead
<1>2. CASE driver # "sqlite" \/ (cursor[r].bare /\ Elements(bound[cursor[r].of]) \cap Temps # {})
  BY <1>2 DEF ReadToStep
<1>3. CASE cursor[r].bare /\ Elements(bound[cursor[r].of]) \cap Temps = {}
  <2>1. "freed" \notin Read(bound[cursor[r].of])
    BY <1>3, KeptIsAlive
  <2>2. QED BY <2>1 DEF ReadToStep
<1>4. CASE driver = "sqlite" /\ ~cursor[r].bare
  <2>1. ReadToStep(r) = Read(bound[cursor[r].of])
    BY <1>4 DEF ReadToStep
  <2>2. CASE cursor[r].of = "own"
    <3>1. stmt.live
      BY <1>1, <1>4, <2>2 DEF StillKept
    <3>2. QED BY <1>1, <2>1, <2>2, <3>1, RunIsAlive
  <2>3. CASE cursor[r].of = r
    <3>1. Reach(r) \subseteq HeldByBuilder \cup cursor[r].store
      BY <1>1, <1>4, <2>3 DEF StillKept
    <3>2. cursor[r].store \subseteq HeldByResults
      BY DEF HeldByResults
    <3>3. Elements(bound[r]) \cap Temps \subseteq stmt.keep \cup HeldByBuilder \cup HeldByResults
      BY <3>1, <3>2, NoneIsNoValue DEF Reach
    <3>4. QED BY <2>1, <2>3, <3>3, KeptIsAlive
  <2>4. QED BY <1>1, <2>2, <2>3
<1>5. QED BY <1>2, <1>3, <1>4

\* A builder in a loop is not built further.
LEMMA BuiltStops ==
  ASSUME TypeInv, Built
  PROVE  ~builder.looping \/ DropBuilder
<1>1. ASSUME builder.kind = "none" PROVE ~builder.looping
  BY <1>1 DEF TypeInv, Shaped, NoBuilder
<1>2. QED BY <1>1 DEF Built, NewBuilder, Where, On, SetObject, JoinNext, Project, SetColumn, SetGreatest, Building

-----------------------------------------------------------------------------
(* Each step keeps what is pointed at.                                     *)

\* No step reads what is gone.
LEMMA NoFreedStep ==
  ASSUME TypeInv, LivesInv, [NextStep]_vars
  PROVE  NoFreedValueRead'
<1>1. StatementKeeps /\ "freed" \notin mishaps
  BY DEF LivesInv, NoFreedValueRead
<1>2. CASE mishaps' = mishaps
  BY <1>1, <1>2 DEF NoFreedValueRead
<1>3. CASE Built
  BY <1>2, <1>3 DEF Built, TheBuilder, NewBuilder, Where, On, SetObject, JoinNext, Project, SetColumn, SetGreatest, DropBuilder
<1>4. ASSUME NEW wrong, NEW read, mishaps' = mishaps \cup wrong \cup read, "freed" \notin wrong, "freed" \notin read
      PROVE  NoFreedValueRead'
  BY <1>1, <1>4 DEF NoFreedValueRead
<1>5. \A m, g, given : "freed" \notin Amiss(m, g, given)
  BY DEF Amiss
<1>6. CASE ExecuteBuilder \/ \E r \in Results : QueryBuilder(r) \/ LoopQuery(r)
  <2>1. PICK read \in {Read(Binding(builder)), ReadToSend(Binding(builder))} : mishaps' = mishaps \cup Trouble(builder) \cup read
    BY <1>6 DEF ExecuteBuilder, QueryBuilder, LoopQuery
  <2>2. "freed" \notin Trouble(builder)
    BY <1>5 DEF Trouble
  <2>3. "freed" \notin read
    BY SentIsAlive
  <2>4. QED BY <1>4, <2>1, <2>2, <2>3
<1>7. CASE \E rows \in [1..2 -> BOOLEAN] : InsertRows(rows)
  BY <1>1, <1>5, <1>7 DEF InsertRows, NoFreedValueRead
<1>8. CASE ExecuteStatement \/ \E r \in Results : QueryStatement(r)
  <2>1. PICK read \in {Read(bound["own"]), ReadToSend(bound["own"])} : mishaps' = mishaps \cup RunTrouble \cup read
    BY <1>8 DEF ExecuteStatement, QueryStatement
  <2>2. "freed" \notin RunTrouble
    BY <1>5 DEF RunTrouble
  <2>3. "freed" \notin read
    BY <1>1, <1>8, RunIsAlive DEF ExecuteStatement, QueryStatement
  <2>4. QED BY <1>4, <2>1, <2>2, <2>3
<1>9. CASE \E r \in Results : Next(r)
  <2>1. PICK r \in Results : cursor[r].state = "open" /\ mishaps' = mishaps \cup ReadToStep(r)
    BY <1>9 DEF Next
  <2>2. "freed" \notin ReadToStep(r)
    BY <2>1, StepIsAlive
  <2>3. QED BY <1>1, <2>1, <2>2 DEF NoFreedValueRead
<1>10. CASE UNCHANGED vars
  BY <1>2, <1>10 DEF vars
<1>11. CASE Elsewhere
  BY <1>2, <1>6, <1>7, <1>8, <1>9, <1>11 DEF Elsewhere, NextStatement, Prepare, Bind, Reset, ClearKeepAlives,
     DropStatement, QueryWith, NextResult, Convert, DropResult, Forget
<1>12. QED BY <1>3, <1>10, <1>11, StepsAre

\* What is bound is the value given, or nothing.
LEMMA BoundAreGiven ==
  ASSUME TypeInv
  PROVE  /\ stmt.text \in Seq(Columns \cup {None})
         /\ Elements(<<>>) = {}
         /\ \A text \in Seq(Columns \cup {None}) :
              /\ Elements(ByPosition(text, <<>>)) \subseteq {None}
              /\ \A v \in Values : /\ Elements(ByPosition(text, [n \in DOMAIN text |-> v])) \subseteq {v, None}
                                  /\ Elements(ByName(text, [n \in DOMAIN text |-> v])) \subseteq {v, None}
         /\ \A v \in Values : Elements(ByPosition(<<None>>, <<v>>)) \subseteq {v, None}
<1>1. stmt \in Stmts
  BY Types DEF TypeInv
<1>4. stmt.text \in Seq(Columns \cup {None})
  <2>1. stmt.text \in Upto(Columns \cup {None}, 2)
    BY <1>1 DEF Stmts
  <2>2. QED BY <2>1, UptoIs
<1>5. ASSUME NEW text \in Seq(Columns \cup {None})
      PROVE  /\ Elements(ByPosition(text, <<>>)) \subseteq {None}
             /\ \A v \in Values : /\ Elements(ByPosition(text, [n \in DOMAIN text |-> v])) \subseteq {v, None}
                                 /\ Elements(ByName(text, [n \in DOMAIN text |-> v])) \subseteq {v, None}
  <2>1. Elements(ByPosition(text, <<>>)) \subseteq {None}
    BY ClearedIs, ElementsIn
  <2>2. ASSUME NEW v \in Values
        PROVE  /\ Elements(ByPosition(text, [n \in DOMAIN text |-> v])) \subseteq {v, None}
               /\ Elements(ByName(text, [n \in DOMAIN text |-> v])) \subseteq {v, None}
    <3> DEFINE values == [n \in DOMAIN text |-> v]
    <3>1. values \in Seq(Values) /\ Len(values) = Len(text) /\ Elements(values) \subseteq {v}
      BY DEF Elements
    <3> HIDE DEF values
    <3>2. /\ ByPosition(text, values) \in Seq(Elements(values) \cup {None})
          /\ ByName(text, values) \in Seq(Elements(values) \cup {None})
      BY <3>1, ByPositionIs, ByNameIs
    <3>3. /\ Elements(ByPosition(text, values)) \subseteq Elements(values) \cup {None}
          /\ Elements(ByName(text, values)) \subseteq Elements(values) \cup {None}
      BY <3>2, ElementsIn
    <3>4. Elements(ByPosition(text, values)) \subseteq {v, None} /\ Elements(ByName(text, values)) \subseteq {v, None}
      BY <3>1, <3>3
    <3>5. QED BY <3>4 DEF values
  <2>3. QED BY <2>1, <2>2
<1>6. ASSUME NEW v \in Values PROVE Elements(ByPosition(<<None>>, <<v>>)) \subseteq {v, None}
  <2>1. <<None>> \in Seq(Columns \cup {None}) /\ <<v>> \in Seq(Values)
    OBVIOUS
  <2>2. Elements(<<v>>) = {v}
    BY DEF Elements
  <2>3. ByPosition(<<None>>, <<v>>) \in Seq(Elements(<<v>>) \cup {None})
    BY <2>1, ByPositionIs
  <2>4. QED BY <2>2, <2>3, ElementsIn
<1>7. Elements(<<>>) = {}
  BY DEF Elements
<1>8. QED BY <1>4, <1>5, <1>6, <1>7

\* What a step changes of what the native statements point at.
Points(n, f) == bound' = [bound EXCEPT ![n] = f]

\* One native statement points elsewhere, the others do not.
LEMMA PointsAre ==
  ASSUME TypeInv, NEW n \in Natives, NEW f, Points(n, f)
  PROVE  bound'[n] = f /\ \A m \in Natives \ {n} : bound'[m] = bound[m]
BY Types DEF TypeInv, Points

\* What a result set is made by a step.
Reads(r, c) == cursor' = [cursor EXCEPT ![r] = c]

\* One result set changes, the others do not.
LEMMA ReadsAre ==
  ASSUME TypeInv, NEW r \in Results, NEW c, Reads(r, c)
  PROVE  cursor'[r] = c /\ \A q \in Results \ {r} : cursor'[q] = cursor[q]
BY Types DEF TypeInv, Reads

\* What a step that opens or leaves others makes of a result set.
Moves(q) ==
  \/ cursor'[q] = cursor[q]
  \/ cursor'[q].state = cursor[q].state /\ cursor'[q].of = cursor[q].of /\ (driver = "sqlite" => cursor'[q].bare)

\* One result set is opened, the others stay or are left.
LEMMA OpensAre ==
  ASSUME TypeInv, NEW r \in Results, NEW c, Opens(r, c)
  PROVE  cursor'[r] = c /\ \A q \in Results \ {r} : Moves(q)
<1>1. PICK rs \in SUBSET Results : cursor' = [Left(rs) EXCEPT ![r] = c]
  BY DEF Opens
<1>2. cursor \in [Results -> Cursors]
  BY Types DEF TypeInv
<1>3. /\ Left(rs) \in [Results -> Cursors]
      /\ \A q \in Results : /\ Left(rs)[q].state = cursor[q].state /\ Left(rs)[q].of = cursor[q].of
                            /\ IF q \in rs THEN driver = "sqlite" => Left(rs)[q].bare ELSE Left(rs)[q] = cursor[q]
  BY <1>2, LeftIs
<1>4. cursor'[r] = c /\ \A q \in Results \ {r} : cursor'[q] = Left(rs)[q]
  BY <1>1, <1>3
<1>5. QED BY <1>3, <1>4 DEF Moves

\* A query of a builder opens a result set with a native statement of its own.
LEMMA QueriesMake ==
  ASSUME TypeInv, NEW r \in Results, QueryBuilder(r) \/ LoopQuery(r)
  PROVE  /\ ~builder.looping /\ builder.kind \in {"select", "join", "projected"} /\ cursor[r].state = "none"
         /\ Points(r, Binding(builder)) /\ UNCHANGED <<driver, scope, stmt>>
         /\ builder'.sets = builder.sets /\ builder'.on = builder.on /\ builder'.cond = builder.cond
         /\ builder'.kind = builder.kind /\ builder'.given = builder.given /\ builder'.due = builder.due
         /\ \/ Opens(r, Opened(r, Storage(builder), FALSE, FALSE)) /\ builder' = builder
            \/ Opens(r, Opened(r, {}, TRUE, FALSE)) /\ builder'.looping
<1>1. builder \in Builders
  BY Types DEF TypeInv
<1>2. CASE QueryBuilder(r)
  BY <1>2, QueriesOpen DEF QueryBuilder, Building, Points
<1>3. CASE LoopQuery(r)
  <2>1. builder' = [builder EXCEPT !.looping = TRUE]
    BY <1>3 DEF LoopQuery
  <2>2. QED BY <1>1, <1>3, <2>1, QueriesOpen DEF LoopQuery, Building, Points, Builders
<1>4. QED BY <1>2, <1>3

\* A query of a prepared statement opens a result set.
LEMMA StatementOpens ==
  ASSUME NEW r \in Results, QueryStatement(r)
  PROVE  Reads(r, Opened("own", {}, FALSE, FALSE))
<1>1. PICK c : c = [NoCursor EXCEPT !.state = "open", !.of = "own"]
  OBVIOUS
<1>2. c = Opened("own", {}, FALSE, FALSE)
  BY <1>1 DEF NoCursor, Opened
<1>3. QED BY <1>1, <1>2 DEF QueryStatement, Reads

\* query_with() opens a result set whose parameter points at the value.
LEMMA QueryWithMakes ==
  ASSUME NEW r \in Results, NEW v \in Values, QueryWith(r, v)
  PROVE  /\ cursor[r].state = "none"
         /\ Points(r, ByPosition(<<None>>, <<v>>)) /\ UNCHANGED <<driver, scope, builder, stmt>>
         /\ \E bare \in BOOLEAN : (driver = "sqlite" => bare = TRUE) /\ Reads(r, Opened(r, {}, FALSE, bare))
<1>1. PICK bare \in BOOLEAN : bare = (driver = "sqlite")
  OBVIOUS
<1>2. PICK c : c = [NoCursor EXCEPT !.state = "open", !.of = r, !.bare = bare]
  OBVIOUS
<1>3. c = Opened(r, {}, FALSE, bare)
  BY <1>2 DEF NoCursor, Opened
<1>4. Reads(r, c)
  BY <1>1, <1>2 DEF QueryWith, Reads
<1>5. cursor[r].state = "none" /\ Points(r, ByPosition(<<None>>, <<v>>)) /\ UNCHANGED <<driver, scope, builder, stmt>>
  BY DEF QueryWith, Points
<1>6. QED BY <1>1, <1>3, <1>4, <1>5

\* The wrapper of a statement keeps what its parameters point at.
LEMMA StatementStep ==
  ASSUME "cleared" \in Rules, TypeInv, StatementKeeps, [NextStep]_vars
  PROVE  StatementKeeps'
<1>0. stmt \in Stmts /\ "own" \in Natives /\ \A r \in Results : r # "own" /\ r \in Natives
  BY Types, OwnIsNoResult DEF TypeInv, Natives
<1>1. CASE stmt' = stmt /\ bound'["own"] = bound["own"]
  BY <1>1 DEF StatementKeeps, Reach
<1>2. CASE Built
  BY <1>1, <1>2 DEF Built, TheBuilder, NewBuilder, Where, On, SetObject, JoinNext, Project, SetColumn, SetGreatest, DropBuilder
<1>3. ASSUME NEW r \in Results, QueryBuilder(r) \/ LoopQuery(r) PROVE StatementKeeps'
  <2>1. stmt' = stmt /\ Points(r, Binding(builder))
    BY <1>3, QueriesMake
  <2>2. bound'["own"] = bound["own"]
    BY <1>0, <2>1, PointsAre
  <2>3. QED BY <1>1, <2>1, <2>2
<1>4. ASSUME NEW r \in Results, NEW v \in Values, QueryWith(r, v) PROVE StatementKeeps'
  <2>1. stmt' = stmt /\ Points(r, ByPosition(<<None>>, <<v>>))
    BY <1>4, QueryWithMakes
  <2>2. bound'["own"] = bound["own"]
    BY <1>0, <2>1, PointsAre
  <2>3. QED BY <1>1, <2>1, <2>2
<1>5. ASSUME NEW text \in {<<None>>, <<Stamp>>, <<Stamp, Stamp>>}, Prepare(text) PROVE StatementKeeps'
  <2>1. stmt'.live /\ stmt'.text = text /\ Points("own", ByPosition(text, <<>>))
    BY <1>5 DEF Prepare, NoStmt, Points
  <2>2. text \in Seq(Columns \cup {None}) /\ 1 \in DOMAIN text
    BY PreparedIs
  <2>3. Reach("own")' = {}
    <3>1. Elements(ByPosition(text, <<>>)) \subseteq {None}
      BY <2>2, BoundAreGiven
    <3>2. bound'["own"] = ByPosition(text, <<>>)
      BY <1>0, <2>1, PointsAre
    <3>3. QED BY <3>1, <3>2 DEF Reach
  <2>4. QED BY <2>1, <2>2, <2>3 DEF StatementKeeps
<1>6. ASSUME NEW v \in Values, Bind(v) PROVE StatementKeeps'
  <2> DEFINE values == [n \in DOMAIN stmt.text |-> v]
  <2>1. /\ stmt.live /\ stmt' = [stmt EXCEPT !.keep = stmt.keep \cup {v}, !.meant = values]
        /\ Points("own", ByPosition(stmt.text, values)) \/ Points("own", ByName(stmt.text, values))
    BY <1>6 DEF Bind, Points
  <2>2. Elements(ByPosition(stmt.text, values)) \subseteq {v, None} /\ Elements(ByName(stmt.text, values)) \subseteq {v, None}
    BY BoundAreGiven
  <2>3. 1 \in DOMAIN stmt.text
    BY <2>1 DEF StatementKeeps
  <2>4. values # <<>>
    BY <2>3
  <2> HIDE DEF values
  <2>5. stmt'.live /\ stmt'.text = stmt.text /\ stmt'.keep = stmt.keep \cup {v} /\ stmt'.meant = values
    BY <1>0, <2>1 DEF Stmts
  <2>6. Reach("own")' \subseteq {v}
    <3>1. Elements(bound'["own"]) \subseteq {v, None}
      BY <1>0, <2>1, <2>2, PointsAre
    <3>2. QED BY <3>1 DEF Reach
  <2>7. QED BY <2>3, <2>4, <2>5, <2>6 DEF StatementKeeps
<1>7. CASE Reset
  <2>1. stmt.live /\ stmt'.live /\ stmt'.text = stmt.text /\ stmt'.meant = <<>> /\ Points("own", ByPosition(stmt.text, <<>>))
    BY <1>0, <1>7 DEF Reset, Points, Stmts
  <2>2. Reach("own")' = {}
    <3>1. Elements(ByPosition(stmt.text, <<>>)) \subseteq {None}
      BY BoundAreGiven
    <3>2. bound'["own"] = ByPosition(stmt.text, <<>>)
      BY <1>0, <2>1, PointsAre
    <3>3. QED BY <3>1, <3>2 DEF Reach
  <2>3. QED BY <2>1, <2>2 DEF StatementKeeps
<1>8. CASE ClearKeepAlives
  <2>1. stmt.live /\ stmt.meant = <<>> /\ bound' = bound
    BY <1>8 DEF ClearKeepAlives
  <2>2. stmt'.live /\ stmt'.text = stmt.text /\ stmt'.meant = <<>>
    BY <1>0, <1>8, <2>1 DEF ClearKeepAlives, Stmts
  <2>3. QED BY <2>1, <2>2 DEF StatementKeeps, Reach
<1>9. CASE DropStatement
  BY <1>9 DEF DropStatement, NoStmt, StatementKeeps
<1>10. CASE ExecuteStatement \/ \E r \in Results : QueryStatement(r)
  <2>1. stmt.live /\ stmt' = [stmt EXCEPT !.ran = TRUE] /\ bound' = bound
    BY <1>10 DEF ExecuteStatement, QueryStatement
  <2>2. stmt'.live /\ stmt'.text = stmt.text /\ stmt'.meant = stmt.meant /\ stmt'.keep = stmt.keep
    BY <1>0, <2>1 DEF Stmts
  <2>3. QED BY <2>1, <2>2 DEF StatementKeeps, Reach
<1>11. ASSUME NEW r \in Results, DropResult(r) PROVE StatementKeeps'
  <2>1. stmt' = stmt
    BY <1>11 DEF DropResult
  <2>2. CASE stmt.live
    <3>1. bound'["own"] = bound["own"]
      <4>1. CASE cursor[r].of = "own"
        BY <1>0, <1>11, <2>2, <4>1, Types DEF DropResult, TypeInv
      <4>2. CASE cursor[r].of # "own"
        BY <1>0, <1>11, <4>2, Types DEF DropResult, TypeInv
      <4>3. QED BY <4>1, <4>2
    <3>2. QED BY <1>1, <2>1, <3>1
  <2>3. CASE ~stmt.live
    BY <2>1, <2>3 DEF StatementKeeps
  <2>4. QED BY <2>2, <2>3
<1>12. CASE UNCHANGED vars
  BY <1>1, <1>12 DEF vars
<1>13. CASE Elsewhere
  BY <1>1, <1>3, <1>4, <1>5, <1>6, <1>7, <1>8, <1>9, <1>10, <1>11, <1>13
  DEF Elsewhere, ExecuteBuilder, InsertRows, NextStatement, NextResult, Next, Convert, Forget
<1>14. QED BY <1>2, <1>12, <1>13, StepsAre

\* A result set reads from its own native statement or the prepared one.
LEMMA CursorsReadStep ==
  ASSUME TypeInv, CursorsRead, [NextStep]_vars
  PROVE  CursorsRead'
<1>0. cursor \in [Results -> Cursors]
  BY Types DEF TypeInv
<1>1. CASE \A q \in Results : Moves(q)
  BY <1>1 DEF CursorsRead, Moves
<1>2. CASE cursor' = cursor
  BY <1>1, <1>2 DEF Moves
<1>3. ASSUME NEW r \in Results, NEW c, Opens(r, c) \/ Reads(r, c),
             IF c.state = "none" THEN c.of = None ELSE c.of \in {r, "own"}
      PROVE  CursorsRead'
  <2>1. cursor'[r] = c /\ \A q \in Results \ {r} : Moves(q)
    BY <1>3, OpensAre, ReadsAre DEF Moves
  <2>2. QED BY <1>3, <2>1 DEF CursorsRead, Moves
<1>4. ASSUME NEW r \in Results, QueryBuilder(r) \/ LoopQuery(r) PROVE CursorsRead'
  <2>1. Opens(r, Opened(r, Storage(builder), FALSE, FALSE)) \/ Opens(r, Opened(r, {}, TRUE, FALSE))
    BY <1>4, QueriesOpen
  <2>2. \A store, loop : Opened(r, store, loop, FALSE).state = "open" /\ Opened(r, store, loop, FALSE).of = r
    BY DEF Opened
  <2>3. QED BY <1>3, <2>1, <2>2
<1>5. ASSUME NEW r \in Results, QueryStatement(r) \/ \E v \in Values : QueryWith(r, v) PROVE CursorsRead'
  <2>1. PICK of \in {r, "own"}, bare \in BOOLEAN : Reads(r, Opened(of, {}, FALSE, bare))
    BY <1>5, StatementOpens, QueryWithMakes
  <2>2. Opened(of, {}, FALSE, bare).state = "open" /\ Opened(of, {}, FALSE, bare).of = of
    BY DEF Opened
  <2>3. QED BY <1>3, <2>1, <2>2
<1>6. ASSUME NEW r \in Results, DropResult(r) PROVE CursorsRead'
  <2>1. Reads(r, NoCursor)
    BY <1>6 DEF DropResult, Reads
  <2>2. NoCursor.state = "none" /\ NoCursor.of = None
    BY DEF NoCursor
  <2>3. QED BY <1>3, <2>1, <2>2
<1>7. ASSUME NEW r \in Results, Next(r) \/ Convert(r) PROVE CursorsRead'
  <2>1. \A q \in Results : cursor'[q].of = cursor[q].of /\ (cursor'[q].state = "none" <=> cursor[q].state = "none")
    <3>1. CASE Next(r)
      BY <1>0, <3>1 DEF Next, Cursors
    <3>2. CASE Convert(r)
      <4>1. cursor' = [Left({r}) EXCEPT ![r].store = {}] /\ Left({r}) \in [Results -> Cursors]
        BY <1>0, <3>2, LeftIs DEF Convert
      <4>2. \A q \in Results : cursor'[q].of = Left({r})[q].of /\ cursor'[q].state = Left({r})[q].state
        BY <4>1 DEF Cursors
      <4>3. QED BY <1>0, <4>2, LeftIs
    <3>3. QED BY <1>7, <3>1, <3>2
  <2>2. QED BY <2>1 DEF CursorsRead
<1>8. CASE DropBuilder \/ DropStatement
  <2>1. PICK rs : cursor' = Left(rs)
    BY <1>8 DEF DropBuilder, DropStatement
  <2>2. QED BY <1>0, <1>1, <2>1, LeftIs DEF Moves
<1>9. CASE Built
  BY <1>2, <1>8, <1>9 DEF Built, TheBuilder, NewBuilder, Where, On, SetObject, JoinNext, Project, SetColumn, SetGreatest
<1>10. CASE UNCHANGED vars
  BY <1>2, <1>10 DEF vars
<1>11. CASE Elsewhere
  BY <1>2, <1>4, <1>5, <1>6, <1>7, <1>8, <1>11
  DEF Elsewhere, ExecuteBuilder, InsertRows, NextStatement, Prepare, Bind, ExecuteStatement, Reset, ClearKeepAlives,
      NextResult, Forget
<1>12. QED BY <1>9, <1>10, <1>11, StepsAre

\* What a query's parameters point at is in the storage of its result set.
LEMMA QueriedIsStored ==
  ASSUME TypeInv, builder.kind \in {"select", "join", "projected"}
  PROVE  Elements(Binding(builder)) \ {None} \subseteq Storage(builder)
<1>1. builder \in Builders /\ Shaped(builder)
  BY Types DEF TypeInv
<1>2. Elements(<<>>) = {} /\ builder.sets = <<>> /\ SetVals(builder) = {}
  BY <1>1 DEF Elements, Shaped, SetVals
<1>3. CASE builder.kind = "select"
  BY <1>1, <1>2, <1>3, BindingIs DEF Shaped, Storage, Vals
<1>4. CASE builder.kind = "join"
  BY <1>1, <1>2, <1>4, BindingIs DEF Storage, Vals
<1>5. CASE builder.kind = "projected"
  BY <1>1, <1>5, BindingIs DEF Storage
<1>6. QED BY <1>3, <1>4, <1>5

\* A result set that a step leaves alone, or leaves, stays kept.
LEMMA KeptAlong ==
  ASSUME TypeInv, driver = "sqlite", NEW q \in Results, StillKept(q), Moves(q), bound'[q] = bound[q],
         cursor[q].of # "own" \/ stmt'.live \/ ~stmt.live,
         builder' = builder \/ ~builder.looping \/ ~cursor[q].loop
  PROVE  StillKept(q)'
<1>1. CASE cursor'[q].bare
  BY <1>1 DEF StillKept
<1>2. CASE ~cursor'[q].bare
  <2>1. cursor'[q] = cursor[q]
    BY <1>2 DEF Moves
  <2>2. CASE builder' = builder
    <3>1. HeldByBuilder' = HeldByBuilder
      BY <2>2 DEF HeldByBuilder
    <3>2. QED BY <2>1, <2>2, <3>1 DEF StillKept, Reach
  <2>3. CASE ~builder.looping \/ ~cursor[q].loop
    BY <2>1, <2>3 DEF StillKept, Reach
  <2>4. QED BY <2>2, <2>3
<1>3. QED BY <1>1, <1>2

\* What an open result set points at is kept as long as it is not left.
LEMMA StillKeptStep ==
  ASSUME TypeInv, CursorsRead, driver = "sqlite", \A r \in Results : StillKept(r), [NextStep]_vars, NEW q \in Results
  PROVE  StillKept(q)'
<1>0. /\ stmt \in Stmts /\ "own" \in Natives /\ q # "own" /\ q \in Natives /\ StillKept(q)
      /\ \A r \in Results : r # "own" /\ r \in Natives
      /\ cursor \in [Results -> Cursors] /\ bound \in [Natives -> Bounds] /\ builder \in Builders
  BY Types, OwnIsNoResult DEF TypeInv, Natives
<1>1. CASE UNCHANGED <<builder, cursor, bound>> /\ (stmt.live => stmt'.live)
  BY <1>0, <1>1, KeptAlong DEF Moves
<1>2. CASE DropBuilder
  <2>1. cursor' = Left({r \in Results : cursor[r].loop}) /\ UNCHANGED <<stmt, bound>>
    BY <1>2 DEF DropBuilder
  <2>2. CASE cursor[q].loop
    <3>1. cursor'[q].bare
      BY <1>0, <2>1, <2>2, LeftIs
    <3>2. QED BY <3>1 DEF StillKept
  <2>3. CASE ~cursor[q].loop
    <3>1. cursor'[q] = cursor[q]
      BY <1>0, <2>1, <2>3, LeftIs
    <3>2. QED BY <1>0, <2>1, <2>3, <3>1, KeptAlong DEF Moves
  <2>4. QED BY <2>2, <2>3
<1>3. CASE Built /\ ~DropBuilder
  <2>1. UNCHANGED <<cursor, bound, stmt>>
    BY <1>3 DEF Built, TheBuilder, NewBuilder, Where, On, SetObject, JoinNext, Project, SetColumn, SetGreatest
  <2>2. ~builder.looping
    BY <1>3, BuiltStops
  <2>3. QED BY <1>0, <2>1, <2>2, KeptAlong DEF Moves
<1>4. ASSUME NEW r \in Results, QueryBuilder(r) \/ LoopQuery(r) PROVE StillKept(q)'
  <2>1. /\ ~builder.looping /\ builder.kind \in {"select", "join", "projected"}
        /\ Points(r, Binding(builder)) /\ UNCHANGED stmt
        /\ builder'.sets = builder.sets /\ builder'.on = builder.on /\ builder'.cond = builder.cond
        /\ builder'.kind = builder.kind
        /\ \/ Opens(r, Opened(r, Storage(builder), FALSE, FALSE))
           \/ Opens(r, Opened(r, {}, TRUE, FALSE)) /\ builder'.looping
    BY <1>4, QueriesMake
  <2>2. CASE q # r
    <3>1. Moves(q) /\ bound'[q] = bound[q]
      BY <1>0, <2>1, <2>2, PointsAre, OpensAre
    <3>2. QED BY <1>0, <2>1, <3>1, KeptAlong
  <2>3. CASE q = r
    <3>1. bound'[q] = Binding(builder)
      BY <1>0, <2>1, <2>3, PointsAre
    <3>2. CASE Opens(r, Opened(r, Storage(builder), FALSE, FALSE))
      <4>1. cursor'[q] = Opened(q, Storage(builder), FALSE, FALSE)
        BY <2>3, <3>2, OpensAre
      <4>2. cursor'[q].of = q /\ cursor'[q].store = Storage(builder) /\ cursor'[q].loop = FALSE
        BY <4>1 DEF Opened
      <4>3. Reach(q)' \subseteq Storage(builder)
        BY <2>1, <3>1, QueriedIsStored DEF Reach
      <4>4. QED BY <1>0, <4>2, <4>3 DEF StillKept
    <3>3. CASE Opens(r, Opened(r, {}, TRUE, FALSE)) /\ builder'.looping
      <4>1. cursor'[q] = Opened(q, {}, TRUE, FALSE)
        BY <2>3, <3>3, OpensAre
      <4>2. cursor'[q].of = q /\ cursor'[q].loop = TRUE /\ builder'.looping
        BY <3>3, <4>1 DEF Opened
      <4>3. HeldByBuilder' = HeldByBuilder
        BY <2>1 DEF HeldByBuilder
      <4>4. Reach(q)' \subseteq HeldByBuilder
        BY <3>1, SentIsAlive DEF Reach
      <4>5. QED BY <1>0, <4>2, <4>3, <4>4 DEF StillKept
    <3>4. QED BY <2>1, <3>2, <3>3
  <2>4. QED BY <2>2, <2>3
<1>5. ASSUME NEW r \in Results, NEW v \in Values, QueryWith(r, v) PROVE StillKept(q)'
  <2>0. /\ Points(r, ByPosition(<<None>>, <<v>>)) /\ UNCHANGED <<builder, stmt>>
        /\ \E bare \in BOOLEAN : (driver = "sqlite" => bare = TRUE) /\ Reads(r, Opened(r, {}, FALSE, bare))
    BY <1>5, QueryWithMakes
  <2>1. Points(r, ByPosition(<<None>>, <<v>>)) /\ UNCHANGED <<builder, stmt>> /\ Reads(r, Opened(r, {}, FALSE, TRUE))
    BY <2>0
  <2>2. CASE q # r
    <3>1. cursor'[q] = cursor[q] /\ bound'[q] = bound[q]
      BY <1>0, <2>1, <2>2, PointsAre, ReadsAre
    <3>2. QED BY <1>0, <2>1, <3>1, KeptAlong DEF Moves
  <2>3. CASE q = r
    <3>1. cursor'[q] = Opened(q, {}, FALSE, TRUE)
      BY <2>1, <2>3, ReadsAre
    <3>2. cursor'[q].bare
      BY <3>1 DEF Opened
    <3>3. QED BY <3>2 DEF StillKept
  <2>4. QED BY <2>2, <2>3
<1>6. ASSUME NEW f, Points("own", f), UNCHANGED <<builder, cursor>>, stmt.live => stmt'.live
      PROVE  StillKept(q)'
  <2>1. bound'[q] = bound[q]
    BY <1>0, <1>6, PointsAre
  <2>2. QED BY <1>0, <1>6, <2>1, KeptAlong DEF Moves
<1>7. CASE (\E text \in {<<None>>, <<Stamp>>, <<Stamp, Stamp>>} : Prepare(text)) \/ (\E v \in Values : Bind(v)) \/ Reset
  <2>1. CASE \E text \in {<<None>>, <<Stamp>>, <<Stamp, Stamp>>} : Prepare(text)
    BY <1>6, <2>1 DEF Prepare, Points
  <2>2. CASE \E v \in Values : Bind(v)
    <3>1. PICK v \in Values : Bind(v)
      BY <2>2
    <3> DEFINE values == [n \in DOMAIN stmt.text |-> v]
    <3>2. /\ stmt' = [stmt EXCEPT !.keep = stmt.keep \cup {v}, !.meant = values] /\ UNCHANGED <<builder, cursor>>
          /\ Points("own", ByPosition(stmt.text, values)) \/ Points("own", ByName(stmt.text, values))
      BY <3>1 DEF Bind, Points
    <3> HIDE DEF values
    <3>3. stmt'.live = stmt.live
      BY <1>0, <3>2 DEF Stmts
    <3>4. QED BY <1>6, <3>2, <3>3
  <2>3. CASE Reset
    <3>1. stmt'.live = stmt.live
      BY <1>0, <2>3 DEF Reset, Stmts
    <3>2. QED BY <1>6, <2>3, <3>1 DEF Reset, Points
  <2>4. QED BY <1>7, <2>1, <2>2, <2>3
<1>8. CASE DropStatement
  <2>1. cursor' = Left({r \in Results : cursor[r].of = "own"}) /\ builder' = builder
    BY <1>8 DEF DropStatement
  <2>2. bound'[q] = bound[q]
    BY <1>0, <1>8 DEF DropStatement
  <2>3. CASE cursor[q].of = "own"
    <3>1. cursor'[q].bare
      BY <1>0, <2>1, <2>3, LeftIs
    <3>2. QED BY <3>1 DEF StillKept
  <2>4. CASE cursor[q].of # "own"
    <3>1. cursor'[q] = cursor[q]
      BY <1>0, <2>1, <2>4, LeftIs
    <3>2. QED BY <1>0, <2>1, <2>2, <2>4, <3>1, KeptAlong DEF Moves
  <2>5. QED BY <2>3, <2>4
<1>9. CASE ClearKeepAlives \/ ExecuteStatement
  <2>1. stmt'.live = stmt.live /\ UNCHANGED <<builder, cursor, bound>>
    BY <1>0, <1>9 DEF ClearKeepAlives, ExecuteStatement, Stmts
  <2>2. QED BY <1>1, <2>1
<1>10. ASSUME NEW r \in Results, QueryStatement(r) PROVE StillKept(q)'
  <2>1. /\ Reads(r, Opened("own", {}, FALSE, FALSE))
        /\ UNCHANGED <<builder, bound>> /\ stmt.live /\ stmt'.live = stmt.live
    BY <1>0, <1>10, StatementOpens DEF QueryStatement, Stmts
  <2>2. CASE q # r
    <3>1. cursor'[q] = cursor[q]
      BY <2>1, <2>2, ReadsAre
    <3>2. QED BY <1>0, <2>1, <3>1, KeptAlong DEF Moves
  <2>3. CASE q = r
    <3>1. cursor'[q] = Opened("own", {}, FALSE, FALSE)
      BY <2>1, <2>3, ReadsAre
    <3>2. cursor'[q].of = "own"
      BY <3>1 DEF Opened
    <3>3. QED BY <1>0, <2>1, <3>2 DEF StillKept
  <2>4. QED BY <2>2, <2>3
<1>11. ASSUME NEW r \in Results, Next(r) PROVE StillKept(q)'
  <2>1. /\ UNCHANGED <<builder, stmt, bound>> /\ cursor[r].state = "open" /\ cursor'[q].bare = cursor[q].bare
        /\ cursor'[q].of = cursor[q].of /\ cursor'[q].loop = cursor[q].loop /\ cursor'[q].store = cursor[q].store
        /\ cursor'[q].state = "open" => cursor[q].state = "open"
    BY <1>0, <1>11 DEF Next, Cursors
  <2>2. HeldByBuilder' = HeldByBuilder
    BY <2>1 DEF HeldByBuilder
  <2>3. QED BY <1>0, <2>1, <2>2 DEF StillKept, Reach
<1>12. ASSUME NEW r \in Results, Convert(r) PROVE StillKept(q)'
  <2>1. cursor' = [Left({r}) EXCEPT ![r].store = {}] /\ UNCHANGED <<builder, stmt, bound>> /\ Left({r}) \in [Results -> Cursors]
    BY <1>0, <1>12, LeftIs DEF Convert
  <2>2. CASE q # r
    <3>1. cursor'[q] = Left({r})[q] /\ q \notin {r}
      BY <2>1, <2>2
    <3>2. cursor'[q] = cursor[q]
      BY <1>0, <3>1, LeftIs
    <3>3. QED BY <1>0, <2>1, <3>2, KeptAlong DEF Moves
  <2>3. CASE q = r
    <3>1. Left({r})[q].bare
      BY <1>0, <2>3, LeftIs
    <3>2. cursor'[q].bare
      BY <2>1, <2>3, <3>1 DEF Cursors
    <3>3. QED BY <3>2 DEF StillKept
  <2>4. QED BY <2>2, <2>3
<1>13. ASSUME NEW r \in Results, DropResult(r) PROVE StillKept(q)'
  <2>1. UNCHANGED <<builder, stmt>> /\ Reads(r, NoCursor) /\ cursor[r].of \in {r, "own"}
    BY <1>13 DEF DropResult, Reads, CursorsRead
  <2>2. CASE q # r
    <3>1. cursor'[q] = cursor[q]
      BY <2>1, <2>2, ReadsAre
    <3>2. bound'[q] = bound[q]
      BY <1>0, <1>13, <2>1, <2>2 DEF DropResult
    <3>3. QED BY <1>0, <2>1, <3>1, <3>2, KeptAlong DEF Moves
  <2>3. CASE q = r
    <3>1. cursor'[q].state = "none"
      BY <2>1, <2>3, ReadsAre DEF NoCursor
    <3>2. QED BY <3>1 DEF StillKept
  <2>4. QED BY <2>2, <2>3
<1>14. CASE UNCHANGED vars
  BY <1>1, <1>14 DEF vars
<1>15. CASE ExecuteBuilder \/ (\E rows \in [1..2 -> BOOLEAN] : InsertRows(rows)) \/ \E v \in Variables : Forget(v)
  BY <1>1, <1>15 DEF ExecuteBuilder, InsertRows, Forget
<1>16. CASE Elsewhere
  BY <1>4, <1>5, <1>7, <1>8, <1>9, <1>10, <1>11, <1>12, <1>13, <1>15, <1>16 DEF Elsewhere, NextStatement, NextResult
<1>17. QED BY <1>2, <1>3, <1>14, <1>16, StepsAre

\* The driver stays the driver of the connection.
LEMMA DriverStays ==
  ASSUME [NextStep]_vars
  PROVE  driver' = driver
BY DEF NextStep, NextBuilder, NextStatement, NextResult, vars, TheBuilder, NewBuilder, Where, On, SetObject, JoinNext,
   Project, SetColumn, SetGreatest, DropBuilder, ExecuteBuilder, QueryBuilder, LoopQuery, InsertRows, Prepare, Bind,
   QueryStatement, ExecuteStatement, Reset, ClearKeepAlives, DropStatement, QueryWith, Next, Convert, DropResult, Forget

\* What the library keeps is there whenever a driver reads it, if the kept
\* values of a statement are not cleared while they are bound: for every
\* driver and every number of values, result sets and placeholders.  The reads
\* that NoFreedValueRead excepts are excepted here too.
THEOREM NothingFreedIsRead ==
  ASSUME "cleared" \in Rules
  PROVE  Spec => []NoFreedValueRead
<1>1. Init => LivesInv
  <2>1. SUFFICES ASSUME Init PROVE LivesInv
    OBVIOUS
  <2>2. NoFreedValueRead
    BY <2>1 DEF Init, NoFreedValueRead
  <2>3. StatementKeeps
    BY <2>1 DEF Init, StatementKeeps, NoStmt
  <2>4. \A r \in Results : cursor[r].state = "none" /\ cursor[r].of = None
    BY <2>1 DEF Init, NoCursor
  <2>5. QED BY <2>2, <2>3, <2>4 DEF LivesInv, CursorsRead, StillKept
<1>2. TypeInv /\ LivesInv /\ [NextStep]_vars => LivesInv'
  <2>1. SUFFICES ASSUME TypeInv, LivesInv, [NextStep]_vars PROVE LivesInv'
    OBVIOUS
  <2>2. StatementKeeps /\ CursorsRead /\ (driver = "sqlite" => \A r \in Results : StillKept(r))
    BY <2>1 DEF LivesInv
  <2>3. StatementKeeps' /\ CursorsRead' /\ NoFreedValueRead'
    BY <2>1, <2>2, StatementStep, CursorsReadStep, NoFreedStep
  <2>4. driver' = driver
    BY <2>1, DriverStays
  <2>5. driver = "sqlite" => \A r \in Results : StillKept(r)'
    BY <2>1, <2>2, StillKeptStep
  <2>6. QED BY <2>3, <2>4, <2>5 DEF LivesInv
<1>3. LivesInv => NoFreedValueRead
  BY DEF LivesInv
<1>4. QED BY <1>1, <1>2, <1>3, TypeInvHolds, PTL DEF Spec

-----------------------------------------------------------------------------
(* Values and placeholders.                                                *)

\* No name is written twice.
Distinct(text) == \A i, j \in DOMAIN text : text[i] = text[j] /\ text[i] # None => i = j

\* Without a repeated name the parameter of a placeholder is its place.
LEMMA DistinctParameters ==
  ASSUME NEW T, NEW text \in Seq(T), Distinct(text), NEW n \in DOMAIN text
  PROVE  Parameter(text, n) = n /\ Named(text, n) = n
<1>1. \A m \in DOMAIN text, k \in DOMAIN text : Same(text, m, k) => m = k
  BY DEF Distinct, Same
<1>2. \A k \in DOMAIN text : First(text, k) = k
  <2>1. ASSUME NEW k \in DOMAIN text PROVE First(text, k) = k
    <3>1. First(text, k) \in DOMAIN text /\ Same(text, First(text, k), k)
      BY FirstIs
    <3>2. QED BY <1>1, <3>1
  <2>2. QED BY <2>1
<1>3. Latest(text, n) = n
  <2>1. \A m \in DOMAIN text : (Same(text, m, n) /\ \A k \in DOMAIN text : Same(text, k, n) => k <= m) <=> m = n
    BY <1>1 DEF Same
  <2>2. QED BY <2>1 DEF Latest
<1>4. Parameter(text, n) = n
  <2>1. CASE driver = "sqlite"
    <3>1. First(text, n) = n /\ n \in Nat /\ n >= 1
      BY <1>2
    <3>2. {First(text, m) : m \in 1..n} = 1..n
      BY <1>2, <3>1
    <3>3. Cardinality(1..n) = n
      BY <3>1, FS_Interval
    <3>4. Parameter(text, n) = Cardinality({First(text, m) : m \in 1..n})
      BY <2>1, <3>1 DEF Parameter
    <3>5. QED BY <3>2, <3>3, <3>4
  <2>2. CASE driver # "sqlite"
    BY <2>2 DEF Parameter
  <2>3. QED BY <2>1, <2>2
<1>5. QED BY <1>3, <1>4 DEF Named

\* Where no name is written twice, both ways of binding give each placeholder
\* the value of its place.
LEMMA DistinctGets ==
  ASSUME NEW T, NEW text \in Seq(T), Distinct(text), NEW S, NEW values \in Seq(S), Len(values) = Len(text)
  PROVE  ByPosition(text, values) = values /\ ByName(text, values) = values /\ Got(text, values) = values
<1>1. \A n \in DOMAIN text : Parameter(text, n) = n /\ Named(text, n) = n
  BY DistinctParameters
<1>2. Parameters(text) = DOMAIN text
  BY <1>1 DEF Parameters
<1>3. DOMAIN values = DOMAIN text /\ DOMAIN text = 1..Len(values) /\ Len(values) \in Nat
  BY LenProperties
<1>4. values = [p \in DOMAIN text |-> values[p]]
  BY <1>3
<1>5. ByPosition(text, values) = values
  <2>1. \A p \in DOMAIN text : (IF p <= Len(values) THEN values[p] ELSE None) = values[p]
    BY <1>3
  <2>2. QED BY <1>2, <1>4, <2>1 DEF ByPosition
<1>6. ByName(text, values) = values
  <2>1. ASSUME NEW p \in DOMAIN text
        PROVE  (\E n \in DOMAIN text : Named(text, n) = p) /\ (CHOOSE n \in DOMAIN text : Named(text, n) = p) = p
    BY <1>1
  <2>2. QED BY <1>2, <1>4, <2>1 DEF ByName
<1>7. Got(text, values) = values
  BY <1>1, <1>4 DEF Got
<1>8. QED BY <1>5, <1>6, <1>7

\* A column is assigned once, under its name or none.
ColumnsDiffer ==
  /\ \A i, j \in DOMAIN builder.sets : builder.sets[i].column = builder.sets[j].column => i = j
  /\ \A i \in DOMAIN builder.sets : builder.sets[i].name \in {builder.sets[i].column, None}

\* Every value that was given stands somewhere in the statement.
AllWritten ==
  /\ builder.given \subseteq Vals(builder)
  /\ Elements(builder.on) \subseteq builder.given
  /\ builder.kind = "projected" => builder.on = <<>>

\* A prepared statement gives its placeholders what was bound last.
StatementBinds == stmt.live /\ stmt.meant # <<>> => Got(stmt.text, bound["own"]) = stmt.meant

\* The text of a builder repeats no name.
LEMMA TextIsDistinct ==
  ASSUME TypeInv, ColumnsDiffer
  PROVE  Distinct(Text(builder))
<1>1. builder \in Builders
  BY Types DEF TypeInv
<1>2. /\ Text(builder) \in Seq(Columns \cup {None}) /\ builder.sets \in Seq(Slots) /\ Len(builder.sets) \in Nat
  BY <1>1, TextIs, BuildersAre
<1>3. ASSUME NEW i \in DOMAIN Text(builder), Text(builder)[i] # None
      PROVE  i \in DOMAIN builder.sets /\ Text(builder)[i] = builder.sets[i].column
  <2>1. Text(builder)[i] = IF i <= Len(builder.sets) THEN builder.sets[i].name ELSE None
    BY DEF Text
  <2>2. i <= Len(builder.sets) /\ i \in Nat /\ i >= 1
    BY <1>2, <1>3, <2>1
  <2>3. i \in DOMAIN builder.sets
    BY <1>2, <2>2
  <2>4. QED BY <1>3, <2>1, <2>2, <2>3 DEF ColumnsDiffer
<1>4. QED BY <1>3 DEF Distinct, ColumnsDiffer

\* A builder's statement gives each placeholder its own value, and leaves
\* none out.
LEMMA BuilderBinds ==
  ASSUME TypeInv, ColumnsDiffer, AllWritten
  PROVE  Trouble(builder) = {}
<1>1. builder \in Builders /\ Shaped(builder)
  BY Types DEF TypeInv
<1>2. /\ Meant(builder) \in Seq(Values) /\ Elements(Meant(builder)) = Vals(builder)
      /\ Text(builder) \in Seq(Columns \cup {None}) /\ Len(Text(builder)) = Len(Meant(builder))
      /\ Distinct(Text(builder))
  BY <1>1, MeantIs, TextIs, TextIsDistinct
<1>3. /\ ByPosition(Text(builder), Meant(builder)) = Meant(builder)
      /\ ByName(Text(builder), Meant(builder)) = Meant(builder)
      /\ Got(Text(builder), Meant(builder)) = Meant(builder)
  BY <1>2, DistinctGets
<1>4. CASE builder.kind = "projected"
  <2>1. builder.sets = <<>> /\ builder.on = <<>> /\ builder.cond \in Seq(Values)
    BY <1>1, <1>4, BuildersAre DEF Shaped, AllWritten
  <2>2. [i \in DOMAIN builder.sets |-> builder.sets[i].val] = <<>>
    BY <2>1
  <2>3. Meant(builder) = builder.cond
    BY <2>1, <2>2 DEF Meant
  <2>4. Binding(builder) = Meant(builder)
    BY <1>3, <1>4, <2>3 DEF Binding
  <2>5. QED BY <1>2, <1>3, <2>4 DEF Trouble, Amiss, AllWritten
<1>5. CASE builder.kind # "projected"
  <2>1. Binding(builder) = Meant(builder)
    BY <1>3, <1>5 DEF Binding
  <2>2. QED BY <1>2, <1>3, <2>1 DEF Trouble, Amiss, AllWritten
<1>6. QED BY <1>4, <1>5

\* Rows that leave out the same cells get their own.
LEMMA BatchBound ==
  ASSUME NEW rows \in [1..2 -> BOOLEAN], rows[1] = rows[2]
  PROVE  Amiss(BatchMeant(rows), BatchGot(rows), Elements(BatchBinds(rows))) = {}
<1> DEFINE cols == Filled(rows[1])
           cells == BatchCells(rows)
<1>1. BatchBinds(rows) = cells
  BY DEF BatchBinds, BatchCells
<1>2. Order \in Seq(Columns) /\ Len(Order) \in Nat /\ Stamped \in 1..Len(Order) /\ Order[Stamped] = Stamp
      /\ \A i, j \in DOMAIN Order : Order[i] = Order[j] => i = j
  BY OrderIs, LenProperties DEF Stamped
<1>3. cols \in Seq(Columns) /\ (rows[1] => \A k \in DOMAIN cols : cols[k] # Stamp)
  <2>1. CASE ~rows[1]
    BY <1>2, <2>1 DEF Filled
  <2>2. CASE rows[1]
    <3> DEFINE p == SubSeq(Order, 1, Stamped - 1)
               s == SubSeq(Order, Stamped + 1, Len(Order))
    <3>1. p \in Seq(Columns) /\ Len(p) = Stamped - 1 /\ \A k \in 1..(Stamped - 1) : p[k] = Order[k]
      BY <1>2
    <3>2. s \in Seq(Columns) /\ Len(s) = Len(Order) - Stamped
          /\ \A k \in 1..(Len(Order) - Stamped) : s[k] = Order[Stamped + k]
      BY <1>2
    <3>3. cols = p \o s
      BY <2>2 DEF Filled, RemoveAt
    <3> HIDE DEF p, s, cols
    <3>4. cols \in Seq(Columns) /\ Len(cols) = Len(Order) - 1
      <4>1. cols \in Seq(Columns) /\ Len(cols) = Len(p) + Len(s)
        BY <3>1, <3>2, <3>3, ConcatProperties
      <4>2. Len(p) + Len(s) = Len(Order) - 1
        BY <1>2, <3>1, <3>2
      <4>3. QED BY <4>1, <4>2
    <3>5. ASSUME NEW k \in DOMAIN cols PROVE cols[k] # Stamp
      <4>1. k \in 1..(Len(Order) - 1)
        BY <3>4
      <4>2. CASE k < Stamped
        <5>1. cols[k] = Order[k] /\ k \in DOMAIN Order /\ k # Stamped
          BY <1>2, <3>1, <3>2, <3>3, <4>1, <4>2
        <5>2. QED BY <1>2, <5>1
      <4>3. CASE k >= Stamped
        <5>1. cols[k] = Order[k + 1] /\ k + 1 \in DOMAIN Order /\ k + 1 # Stamped
          BY <1>2, <3>1, <3>2, <3>3, <4>1, <4>3
        <5>2. QED BY <1>2, <5>1
      <4>4. QED BY <1>2, <4>1, <4>2, <4>3
    <3>6. QED BY <3>4, <3>5
  <2>3. QED BY <2>1, <2>2
<1> DEFINE Cells == {1, 2} \X Columns
<1>4. cells \in Seq(Cells) /\ \A n \in DOMAIN cells : ~(cells[n][2] = Stamp /\ rows[cells[n][1]])
  <2> DEFINE one == RowCells(1, cols)
             two == RowCells(2, cols)
  <2>1. cells = one \o two
    BY DEF BatchCells
  <2> HIDE DEF cols
  <2>2. /\ DOMAIN cols = 1..Len(cols) /\ Len(cols) \in Nat /\ \A k \in DOMAIN cols : cols[k] \in Columns
    BY <1>3
  <2>3. /\ one = [k \in 1..Len(cols) |-> <<1, cols[k]>>] /\ two = [k \in 1..Len(cols) |-> <<2, cols[k]>>]
    BY <2>2 DEF RowCells
  <2>4. one \in [1..Len(cols) -> Cells] /\ two \in [1..Len(cols) -> Cells]
    BY <2>2, <2>3
  <2>5. one \in Seq(Cells) /\ two \in Seq(Cells) /\ Len(one) = Len(cols) /\ Len(two) = Len(cols)
    BY <2>2, <2>4
  <2>6. /\ \A k \in 1..Len(cols) : ~(one[k][2] = Stamp /\ rows[one[k][1]])
        /\ \A k \in 1..Len(cols) : ~(two[k][2] = Stamp /\ rows[two[k][1]])
    BY <1>3, <2>2, <2>3
  <2> HIDE DEF one, two, cells, Cells
  <2>7. cells \in Seq(Cells) /\ Elements(cells) = Elements(one) \cup Elements(two)
    BY <2>1, <2>5, ElementsConcat
  <2>8. Elements(one) = {one[k] : k \in 1..Len(cols)} /\ Elements(two) = {two[k] : k \in 1..Len(cols)}
    BY <2>5, LenProperties DEF Elements
  <2>9. ASSUME NEW n \in DOMAIN cells PROVE cells[n] \in {one[k] : k \in 1..Len(cols)} \cup {two[k] : k \in 1..Len(cols)}
    BY <2>7, <2>8 DEF Elements
  <2>10. QED BY <2>6, <2>7, <2>9
<1>5. BatchMeant(rows) = cells
  <2>1. \A n \in DOMAIN cells : (IF cells[n][2] = Stamp /\ rows[cells[n][1]] THEN <<>> ELSE cells[n]) = cells[n]
    BY <1>4
  <2>2. cells = [n \in DOMAIN cells |-> cells[n]]
    BY <1>4
  <2>3. QED BY <2>1, <2>2 DEF BatchMeant
<1>6. BatchGot(rows) = cells
  <2> HIDE DEF cells, Cells
  <2>1. DOMAIN cells = 1..Len(cells) /\ cells = [n \in DOMAIN cells |-> cells[n]]
    BY <1>4
  <2>2. BatchGot(rows) = [n \in DOMAIN cells |-> IF n <= Len(cells) THEN cells[n] ELSE <<>>]
    BY <1>1 DEF BatchGot, cells
  <2>3. \A n \in DOMAIN cells : n <= Len(cells)
    BY <2>1
  <2>4. QED BY <2>1, <2>2, <2>3
<1>7. QED BY <1>1, <1>5, <1>6 DEF Amiss

\* Outside the builder's own calls, its clauses stay.
LEMMA ElsewhereKeeps ==
  ASSUME TypeInv, Elsewhere
  PROVE  /\ builder'.kind = builder.kind /\ builder'.sets = builder.sets /\ builder'.on = builder.on
         /\ builder'.cond = builder.cond /\ builder'.given = builder.given
<1>1. builder \in Builders
  BY Types DEF TypeInv
<1>2. builder' = builder \/ builder' = [builder EXCEPT !.looping = TRUE]
  BY DEF Elsewhere, ExecuteBuilder, QueryBuilder, LoopQuery, InsertRows, NextStatement, Prepare, Bind, QueryStatement,
     ExecuteStatement, Reset, ClearKeepAlives, DropStatement, QueryWith, NextResult, Next, Convert, DropResult, Forget
<1>3. QED BY <1>1, <1>2 DEF Builders

\* No column is assigned twice.
LEMMA ColumnsDifferStep ==
  ASSUME "distinct" \in Rules, TypeInv, ColumnsDiffer, [NextStep]_vars
  PROVE  ColumnsDiffer'
<1>1. builder \in Builders /\ builder.sets \in Seq(Slots) /\ Len(builder.sets) \in Nat
  BY Types, BuildersAre DEF TypeInv
<1>2. CASE builder'.sets = builder.sets
  BY <1>2 DEF ColumnsDiffer
<1>3. CASE builder'.sets = <<>>
  BY <1>3 DEF ColumnsDiffer
<1>4. ASSUME NEW kind \in Kinds, NewBuilder(kind) PROVE ColumnsDiffer'
  <2>1. ASSUME NEW now \in Usable, builder'.sets = <<[column |-> Stamp, name |-> Stamp, val |-> now]>>
        PROVE  ColumnsDiffer'
    <3> DEFINE slot == [column |-> Stamp, name |-> Stamp, val |-> now]
    <3>1. slot.column = Stamp /\ slot.name = Stamp
      OBVIOUS
    <3>2. builder'.sets = <<slot>>
      BY <2>1
    <3> HIDE DEF slot
    <3>3. DOMAIN builder'.sets = {1} /\ builder'.sets[1] = slot
      BY <3>2
    <3>4. QED BY <3>1, <3>3 DEF ColumnsDiffer
  <2>2. QED BY <1>3, <1>4, <2>1, NewBuilderMakes
<1>5. ASSUME NEW c \in Columns, NEW v \in Values, SetColumn(c, v) \/ SetGreatest(c, v) PROVE ColumnsDiffer'
  <2>1. PICK name \in {c, None} : builder'.sets = Append(builder.sets, [column |-> c, val |-> v, name |-> name])
    BY <1>5, SetMakes
  <2>2. c \notin Columned
    BY <1>5, SetMakes
  <2> DEFINE slot == [column |-> c, val |-> v, name |-> name]
             n == Len(builder.sets)
             s == builder'.sets
  <2>3. slot.column = c /\ slot.name = name
    OBVIOUS
  <2>4. s = Append(builder.sets, slot)
    BY <2>1
  <2> HIDE DEF slot, s
  <2>5. DOMAIN s = 1..(n + 1) /\ s[n + 1] = slot /\ \A i \in 1..n : s[i] = builder.sets[i]
    BY <1>1, <2>4
  <2>6. DOMAIN builder.sets = 1..n
    BY <1>1
  <2>7. \A i \in 1..n : s[i].column # c /\ s[i].name \in {s[i].column, None}
    BY <2>2, <2>5, <2>6 DEF Columned, ColumnsDiffer
  <2>8. \A i \in DOMAIN s : i \in 1..n \/ i = n + 1
    BY <1>1, <2>5
  <2>9. \A i, j \in 1..n : s[i].column = s[j].column => i = j
    BY <2>5, <2>6 DEF ColumnsDiffer
  <2>10. \A i, j \in DOMAIN s : s[i].column = s[j].column => i = j
    BY <2>3, <2>5, <2>7, <2>8, <2>9
  <2>11. \A i \in DOMAIN s : s[i].name \in {s[i].column, None}
    BY <2>3, <2>5, <2>7, <2>8
  <2>12. QED BY <2>10, <2>11 DEF ColumnsDiffer, s
<1>6. ASSUME NEW v \in Values, SetObject(v) PROVE ColumnsDiffer'
  <2>1. builder'.sets = WholeObject(v)
    BY <1>6, ObjectMakes
  <2>2. DOMAIN WholeObject(v) = DOMAIN Order
        /\ \A i \in DOMAIN Order : WholeObject(v)[i].column = Order[i] /\ WholeObject(v)[i].name = Order[i]
    BY DEF WholeObject
  <2>3. QED BY <2>1, <2>2, OrderIs DEF ColumnsDiffer
<1>7. ASSUME NEW v \in Values, Where(v) \/ On(v) PROVE ColumnsDiffer'
  BY <1>2, <1>7, WhereMakes, OnMakes
<1>8. CASE JoinNext \/ Project
  BY <1>2, <1>8, JoinsMake
<1>9. CASE DropBuilder
  BY <1>3, <1>9 DEF DropBuilder, NoBuilder
<1>10. CASE Elsewhere
  BY <1>2, <1>10, ElsewhereKeeps
<1>11. CASE UNCHANGED vars
  BY <1>2, <1>11 DEF vars
<1>12. CASE Built
  BY <1>4, <1>5, <1>6, <1>7, <1>8, <1>9, <1>12 DEF Built
<1>13. QED BY <1>10, <1>11, <1>12, StepsAre

\* No value that was given is lost.
LEMMA AllWrittenStep ==
  ASSUME {"once", "whole"} \subseteq Rules, TypeInv, AllWritten, [NextStep]_vars
  PROVE  AllWritten'
<1>1. builder \in Builders /\ Shaped(builder) /\ builder.on \in Seq(Values)
  BY Types, BuildersAre DEF TypeInv
<1>2. Elements(<<>>) = {}
  BY DEF Elements
<1>3. CASE /\ builder'.kind = builder.kind /\ builder'.sets = builder.sets /\ builder'.on = builder.on
           /\ builder'.cond = builder.cond /\ builder'.given = builder.given
  BY <1>3 DEF AllWritten, Vals, SetVals
<1>4. ASSUME NEW kind \in Kinds, NewBuilder(kind) PROVE AllWritten'
  BY <1>2, <1>4, NewBuilderMakes DEF AllWritten
<1>5. ASSUME NEW v \in Values, Where(v) PROVE AllWritten'
  <2>1. SetVals(builder') = SetVals(builder)
    BY <1>5, WhereMakes DEF SetVals
  <2>2. Vals(builder') = Vals(builder) \cup {v}
    BY <1>5, <2>1, WhereMakes DEF Vals
  <2>3. QED BY <1>5, <2>2, WhereMakes DEF AllWritten
<1>6. ASSUME NEW v \in Values, On(v) PROVE AllWritten'
  <2>1. SetVals(builder') = SetVals(builder)
    BY <1>6, OnMakes DEF SetVals
  <2>2. Vals(builder') = Vals(builder) \cup {v}
    BY <1>6, <2>1, OnMakes DEF Vals
  <2>3. QED BY <1>6, <2>2, OnMakes DEF AllWritten
<1>7. ASSUME NEW v \in Values, SetObject(v) PROVE AllWritten'
  <2>1. builder'.kind = "object" /\ builder'.on = builder.on /\ builder'.sets = WholeObject(v)
        /\ builder'.given = builder.given \cup {v} /\ builder.kind = "insert" /\ builder.sets = <<>>
    BY <1>7, ObjectMakes
  <2>2. builder.on = <<>> /\ builder.cond = <<>>
    BY <1>1, <2>1 DEF Shaped
  <2>3. SetVals(builder) = {}
    BY <2>1 DEF SetVals
  <2>4. builder.given = {}
    BY <1>2, <2>2, <2>3 DEF AllWritten, Vals
  <2>5. SetVals(builder') = {v}
    BY <2>1, ObjectVals
  <2>6. QED BY <1>2, <2>1, <2>2, <2>4, <2>5 DEF AllWritten, Vals
<1>8. CASE JoinNext
  <2>1. /\ builder.cond = <<>> /\ builder'.cond = <<>> /\ builder'.kind = "join" /\ builder'.sets = builder.sets
        /\ builder'.on = builder.on /\ builder'.given = builder.given
    BY <1>8, JoinsMake
  <2>2. SetVals(builder') = SetVals(builder)
    BY <2>1 DEF SetVals
  <2>3. QED BY <2>1, <2>2 DEF AllWritten, Vals
<1>9. CASE Project
  <2>1. builder.given = {} /\ builder'.given = {} /\ builder'.on = builder.on
    BY <1>9, JoinsMake
  <2>2. Elements(builder.on) = {}
    BY <2>1 DEF AllWritten
  <2>3. builder.on = <<>>
    <3>1. ASSUME builder.on # <<>> PROVE 1 \in DOMAIN builder.on
      BY <1>1, <3>1, EmptySeq, LenProperties
    <3>2. QED BY <2>2, <3>1 DEF Elements
  <2>4. QED BY <1>2, <2>1, <2>3 DEF AllWritten
<1>10. ASSUME NEW c \in Columns, NEW v \in Values, SetColumn(c, v) \/ SetGreatest(c, v) PROVE AllWritten'
  <2>1. PICK name \in {c, None} : builder'.sets = Append(builder.sets, [column |-> c, val |-> v, name |-> name])
    BY <1>10, SetMakes
  <2>2. SetVals(builder') = SetVals(builder) \cup {v}
    BY <1>1, <2>1, AssignedVals
  <2>3. /\ builder'.kind = builder.kind /\ builder'.on = builder.on /\ builder'.cond = builder.cond
        /\ builder'.given = builder.given \cup {v}
    BY <1>10, SetMakes
  <2>4. QED BY <2>2, <2>3 DEF AllWritten, Vals
<1>11. CASE DropBuilder
  <2>1. builder'.on = <<>> /\ builder'.given = {} /\ builder'.kind = "none"
    BY <1>11 DEF DropBuilder, NoBuilder
  <2>2. QED BY <1>2, <2>1 DEF AllWritten
<1>12. CASE Elsewhere
  BY <1>3, <1>12, ElsewhereKeeps
<1>13. CASE UNCHANGED vars
  BY <1>3, <1>13 DEF vars
<1>14. CASE Built
  BY <1>4, <1>5, <1>6, <1>7, <1>8, <1>9, <1>10, <1>11, <1>14 DEF Built
<1>15. QED BY <1>12, <1>13, <1>14, StepsAre

\* A statement keeps its text, its values and what they are bound to, is bound
\* anew, or has nothing bound.
LEMMA StatementGoesOn ==
  ASSUME TypeInv, [NextStep]_vars
  PROVE  \/ ~stmt'.live \/ stmt'.meant = <<>>
         \/ \E v \in Values : Bind(v)
         \/ /\ stmt'.live = stmt.live /\ stmt'.text = stmt.text /\ stmt'.meant = stmt.meant
            /\ bound'["own"] = bound["own"]
<1>0. stmt \in Stmts /\ "own" \in Natives /\ \A r \in Results : r # "own" /\ r \in Natives
  BY Types, OwnIsNoResult DEF TypeInv, Natives
<1> DEFINE Goes == \/ ~stmt'.live \/ stmt'.meant = <<>>
                   \/ stmt'.live = stmt.live /\ stmt'.text = stmt.text /\ stmt'.meant = stmt.meant /\ bound'["own"] = bound["own"]
<1>1. CASE stmt' = stmt /\ bound'["own"] = bound["own"]
  BY <1>1
<1>2. CASE Built
  BY <1>1, <1>2 DEF Built, TheBuilder, NewBuilder, Where, On, SetObject, JoinNext, Project, SetColumn, SetGreatest, DropBuilder
<1>3. ASSUME NEW r \in Results, QueryBuilder(r) \/ LoopQuery(r) PROVE Goes
  <2>1. stmt' = stmt /\ Points(r, Binding(builder))
    BY <1>3, QueriesMake
  <2>2. QED BY <1>0, <1>1, <2>1, PointsAre
<1>4. ASSUME NEW r \in Results, NEW v \in Values, QueryWith(r, v) PROVE Goes
  <2>1. stmt' = stmt /\ Points(r, ByPosition(<<None>>, <<v>>))
    BY <1>4, QueryWithMakes
  <2>2. QED BY <1>0, <1>1, <2>1, PointsAre
<1>5. ASSUME NEW text \in {<<None>>, <<Stamp>>, <<Stamp, Stamp>>}, Prepare(text) PROVE Goes
  BY <1>5 DEF Prepare, NoStmt
<1>6. CASE Reset
  BY <1>0, <1>6 DEF Reset, Stmts
<1>7. CASE ClearKeepAlives \/ ExecuteStatement \/ \E r \in Results : QueryStatement(r)
  <2>1. bound' = bound /\ (stmt' = [stmt EXCEPT !.keep = {}] \/ stmt' = [stmt EXCEPT !.ran = TRUE])
    BY <1>7 DEF ClearKeepAlives, ExecuteStatement, QueryStatement
  <2>2. QED BY <1>0, <2>1 DEF Stmts
<1>8. CASE DropStatement
  BY <1>8 DEF DropStatement, NoStmt
<1>9. ASSUME NEW r \in Results, DropResult(r) PROVE Goes
  <2>1. stmt' = stmt
    BY <1>9 DEF DropResult
  <2>2. CASE stmt.live
    <3>1. CASE cursor[r].of = "own"
      BY <1>0, <1>1, <1>9, <2>1, <2>2, <3>1, Types DEF DropResult, TypeInv
    <3>2. CASE cursor[r].of # "own"
      BY <1>0, <1>1, <1>9, <2>1, <3>2, Types DEF DropResult, TypeInv
    <3>3. QED BY <3>1, <3>2
  <2>3. QED BY <2>1, <2>2
<1>10. CASE UNCHANGED vars
  BY <1>1, <1>10 DEF vars
<1>11. CASE Elsewhere
  BY <1>1, <1>3, <1>4, <1>5, <1>6, <1>7, <1>8, <1>9, <1>11
  DEF Elsewhere, ExecuteBuilder, InsertRows, NextStatement, NextResult, Next, Convert, Forget
<1>12. QED BY <1>2, <1>10, <1>11, StepsAre

\* What the placeholders get after a step, the driver being the same.
LEMMA GotLater ==
  ASSUME driver' = driver
  PROVE  Got(stmt.text, bound["own"])' = Got(stmt'.text, bound'["own"])
BY DEF Got, Parameter

\* Every step leaves the placeholders of a statement what was bound last.
LEMMA StatementBindsStep ==
  ASSUME "distinct" \in Rules, TypeInv, StatementBinds, [NextStep]_vars
  PROVE  StatementBinds'
<1>1. driver' = driver /\ stmt \in Stmts /\ bound \in [Natives -> Bounds] /\ "own" \in Natives
  BY DriverStays, Types DEF TypeInv, Natives
<1>2. ASSUME NEW v \in Values, Bind(v) PROVE StatementBinds'
  <2> DEFINE values == [n \in DOMAIN stmt.text |-> v]
  <2>1. /\ stmt' = [stmt EXCEPT !.keep = stmt.keep \cup {v}, !.meant = values] /\ Len(stmt.text) = 1
        /\ bound' = [bound EXCEPT !["own"] = ByPosition(stmt.text, values)]
           \/ bound' = [bound EXCEPT !["own"] = ByName(stmt.text, values)]
    BY <1>2 DEF Bind
  <2>2. stmt.text \in Seq(Columns \cup {None})
    BY <1>1, UptoIs DEF Stmts
  <2>3. DOMAIN stmt.text = {1}
    BY <2>1, <2>2
  <2>4. Distinct(stmt.text)
    BY <2>3 DEF Distinct
  <2>5. values \in Seq(Values) /\ Len(values) = Len(stmt.text)
    <3>1. values \in [1..1 -> Values]
      BY <2>3
    <3>2. QED BY <2>1, <3>1
  <2> HIDE DEF values
  <2>6. ByPosition(stmt.text, values) = values /\ ByName(stmt.text, values) = values /\ Got(stmt.text, values) = values
    BY <2>2, <2>4, <2>5, DistinctGets
  <2>7. stmt'.text = stmt.text /\ stmt'.meant = values /\ bound'["own"] = values
    BY <1>1, <2>1, <2>6 DEF Stmts
  <2>8. QED BY <1>1, <2>6, <2>7, GotLater DEF StatementBinds
<1>3. CASE stmt'.live = stmt.live /\ stmt'.text = stmt.text /\ stmt'.meant = stmt.meant /\ bound'["own"] = bound["own"]
  BY <1>1, <1>3, GotLater DEF StatementBinds
<1>4. CASE ~stmt'.live \/ stmt'.meant = <<>>
  BY <1>4 DEF StatementBinds
<1>5. QED BY <1>2, <1>3, <1>4, StatementGoesOn

SlotsInv == ColumnsDiffer /\ AllWritten /\ StatementBinds /\ SlotsGetTheirValues

\* No step that sends a statement gives a placeholder the wrong value.
LEMMA SlotsStep ==
  ASSUME "uniform" \in Rules, TypeInv, SlotsInv, [NextStep]_vars
  PROVE  SlotsGetTheirValues'
<1>0. /\ \A values : Read(values) \subseteq {"freed", "strayed"} /\ ReadToSend(values) \subseteq {"freed", "strayed"}
      /\ \A r \in Results : ReadToStep(r) \subseteq {"freed", "strayed"}
  <2>1. \A values : Read(values) \subseteq {"freed", "strayed"}
    BY DEF Read
  <2>2. QED BY <2>1 DEF ReadToSend, ReadToStep
<1>1. mishaps \cap {"misplaced", "dropped"} = {}
  BY DEF SlotsInv, SlotsGetTheirValues
<1>2. CASE mishaps' = mishaps
  BY <1>1, <1>2 DEF SlotsGetTheirValues
<1>3. ASSUME NEW read, mishaps' = mishaps \cup {} \cup read, read \subseteq {"freed", "strayed"} PROVE SlotsGetTheirValues'
  BY <1>1, <1>3 DEF SlotsGetTheirValues
<1>4. CASE Built
  BY <1>2, <1>4 DEF Built, TheBuilder, NewBuilder, Where, On, SetObject, JoinNext, Project, SetColumn, SetGreatest, DropBuilder
<1>5. CASE ExecuteBuilder \/ \E r \in Results : QueryBuilder(r) \/ LoopQuery(r)
  <2>1. PICK read \in {Read(Binding(builder)), ReadToSend(Binding(builder))} : mishaps' = mishaps \cup Trouble(builder) \cup read
    BY <1>5 DEF ExecuteBuilder, QueryBuilder, LoopQuery
  <2>2. Trouble(builder) = {}
    BY BuilderBinds DEF SlotsInv
  <2>3. QED BY <1>0, <1>3, <2>1, <2>2
<1>6. CASE \E rows \in [1..2 -> BOOLEAN] : InsertRows(rows)
  <2>1. PICK rows \in [1..2 -> BOOLEAN] : InsertRows(rows)
    BY <1>6
  <2>2. rows[1] = rows[2] /\ mishaps' = mishaps \cup Amiss(BatchMeant(rows), BatchGot(rows), Elements(BatchBinds(rows)))
    BY <2>1 DEF InsertRows
  <2>3. QED BY <1>2, <2>2, BatchBound
<1>7. CASE ExecuteStatement \/ \E r \in Results : QueryStatement(r)
  <2>1. stmt.live /\ stmt.meant # <<>>
    BY <1>7 DEF ExecuteStatement, QueryStatement
  <2>2. PICK read \in {Read(bound["own"]), ReadToSend(bound["own"])} : mishaps' = mishaps \cup RunTrouble \cup read
    BY <1>7 DEF ExecuteStatement, QueryStatement
  <2>3. Got(stmt.text, bound["own"]) = stmt.meant
    BY <2>1 DEF SlotsInv, StatementBinds
  <2>4. RunTrouble = {}
    BY <2>3 DEF RunTrouble, Amiss
  <2>5. QED BY <1>0, <1>3, <2>2, <2>4
<1>8. CASE \E r \in Results : Next(r)
  <2>1. PICK r \in Results : mishaps' = mishaps \cup ReadToStep(r)
    BY <1>8 DEF Next
  <2>2. QED BY <1>0, <1>3, <2>1
<1>9. CASE UNCHANGED vars
  BY <1>2, <1>9 DEF vars
<1>10. CASE Elsewhere
  BY <1>2, <1>5, <1>6, <1>7, <1>8, <1>10 DEF Elsewhere, NextStatement, Prepare, Bind, Reset, ClearKeepAlives,
     DropStatement, QueryWith, NextResult, Convert, DropResult, Forget
<1>11. QED BY <1>4, <1>9, <1>10, StepsAre

\* Every placeholder gets the value written for it, if no column or name is
\* written twice, no clause is set twice, a join is complete before it is
\* filtered and projected before it is bound, and the rows of a batch leave
\* out the same columns: for every driver and every number of columns and
\* placeholders.
THEOREM SlotsAreFilledRight ==
  ASSUME {"distinct", "once", "whole", "uniform"} \subseteq Rules
  PROVE  Spec => []SlotsGetTheirValues
<1>1. Init => SlotsInv
  <2>1. SUFFICES ASSUME Init PROVE SlotsInv
    OBVIOUS
  <2>2. builder.sets = <<>> /\ builder.on = <<>> /\ builder.given = {} /\ builder.kind = "none" /\ ~stmt.live /\ mishaps = {}
    BY <2>1 DEF Init, NoBuilder, NoStmt
  <2>3. Elements(<<>>) = {}
    BY DEF Elements
  <2>4. QED BY <2>2, <2>3 DEF SlotsInv, ColumnsDiffer, AllWritten, StatementBinds, SlotsGetTheirValues
<1>2. TypeInv /\ SlotsInv /\ [NextStep]_vars => SlotsInv'
  BY ColumnsDifferStep, AllWrittenStep, StatementBindsStep, SlotsStep DEF SlotsInv
<1>3. SlotsInv => SlotsGetTheirValues
  BY DEF SlotsInv
<1>4. QED BY <1>1, <1>2, <1>3, TypeInvHolds, PTL DEF Spec
=============================================================================
