-------------------------- MODULE OrmStatements_proofs --------------------------
(***************************************************************************)
(* Proofs about OrmStatements, for every set of values, table size and     *)
(* number of conditions at hand, of any depth; Bounded may be FALSE.       *)
(*                                                                         *)
(* The invariant says of each condition at hand that it is sound: its      *)
(* values fit its marks, its text with the values filled in has balanced   *)
(* parentheses and no OR or AND outside them that is not BETWEEN's         *)
(* (Solid), and the server reads it as the expression means.  Leaves are   *)
(* sound, and &&, || and ! keep conditions sound, since a server finds     *)
(* "( a ) OR ( b )" where it was put together (ReadJoined, ReadNot).       *)
(*                                                                         *)
(* Reading is a recursive function over texts and exists because a part is *)
(* shorter than the text (ReadingIs).  Induction over lengths is by least  *)
(* numbers: a set that has each number whose predecessors it has, or 0 and *)
(* the successor of each, has all (Course, Climb).                         *)
(*                                                                         *)
(* Of the statements the answer itself tells what was asked.  A merge of   *)
(* one column is the row the README promises (MergedPromised), on the      *)
(* table as a whole because no two rows have a key in common (SameKeys).   *)
(***************************************************************************)
EXTENDS OrmStatements, TLAPS, SequenceTheorems, FiniteSetTheorems, WellFoundedInduction

-----------------------------------------------------------------------------
(* Induction, stated about sets of numbers.                                *)

LEMMA LeastNumber ==
  ASSUME NEW T, T \subseteq Nat, T # {}
  PROVE  \E x \in T : \A y \in T : x <= y
<1> DEFINE Below == {0..x : x \in T}
<1>1. Below \subseteq FiniteSubsetsOf(Nat) /\ Below # {}
  <2>1. ASSUME NEW x \in T PROVE 0..x \subseteq Nat /\ IsFiniteSet(0..x)
    BY FS_Interval, x \in Nat, SMT
  <2>2. QED BY <2>1 DEF FiniteSubsetsOf
<1>2. PICK s \in Below : \A t \in Below : ~(<<t, s>> \in StrictSubsetOrdering(Nat))
  <2> HIDE DEF Below
  <2>1. QED BY <1>1, FS_StrictSubsetOrderingWellFounded, WFMin
<1>3. PICK x \in T : s = 0..x
  BY <1>2
<1>4. ASSUME NEW y \in T PROVE x <= y
  <2>1. SUFFICES ASSUME y < x PROVE FALSE
    BY <1>1, SMT
  <2>2. 0..y \in SUBSET (0..x) /\ 0..y # 0..x /\ 0..y \in Below /\ 0..y \subseteq Nat /\ 0..x \subseteq Nat
    BY <2>1, x \in Nat, y \in Nat, SMT
  <2>3. QED BY <2>2, <1>1, <1>2, <1>3 DEF StrictSubsetOrdering, FiniteSubsetsOf
<1>5. QED BY <1>4

\* A set that has every number whose predecessors it has.
LEMMA Course ==
  ASSUME NEW S, \A n \in Nat : (\A m \in 0..(n - 1) : m \in S) => n \in S
  PROVE  \A n \in Nat : n \in S
<1> DEFINE T == Nat \ S
<1> SUFFICES ASSUME T # {} PROVE FALSE
  OBVIOUS
<1>1. PICK x \in T : \A y \in T : x <= y
  <2>1. T \subseteq Nat
    OBVIOUS
  <2> HIDE DEF T
  <2>2. QED BY <2>1, LeastNumber
<1>2. \A m \in 0..(x - 1) : m \in S
  BY <1>1
<1>3. QED BY <1>1, <1>2

\* A set that has 0 and with each number up to n the next one.
LEMMA Climb ==
  ASSUME NEW n \in Nat, NEW S, 0 \in S, \A i \in 1..n : i - 1 \in S => i \in S
  PROVE  \A i \in 0..n : i \in S
<1> DEFINE T == S \cup {i \in Nat : i > n}
<1>1. ASSUME NEW i \in Nat, \A m \in 0..(i - 1) : m \in T PROVE i \in T
  <2>1. CASE i = 0
    BY <2>1
  <2>2. CASE i > n
    BY <2>2
  <2>3. CASE i \in 1..n
    <3>1. i - 1 \in T /\ ~(i - 1 > n)
      BY <1>1, <2>3
    <3>2. QED BY <2>3, <3>1
  <2>4. QED BY <2>1, <2>2, <2>3
<1> HIDE DEF T
<1>2. \A i \in Nat : i \in T
  BY <1>1, Course
<1>3. QED BY <1>2 DEF T

-----------------------------------------------------------------------------
(* The reader of texts is well defined.                                    *)

Texts == Seq(Words)

LEMMA Parts ==
  ASSUME NEW t \in Texts, NEW i \in 1..(Len(t) + 1), NEW j \in 0..Len(t)
  PROVE  SubSeq(t, i, j) \in Texts /\ Len(SubSeq(t, i, j)) = IF i <= j THEN j - i + 1 ELSE 0
BY DEF Texts

\* What a text says hangs on the shorter ones only.
LEMMA ParsedSame ==
  ASSUME NEW t \in Texts, NEW g, NEW h, \A u \in Texts : Len(u) < Len(t) => g[u] = h[u]
  PROVE  Parsed(g, t) = Parsed(h, t)
<1> DEFINE n == Len(t)
           ors == Tops(t, "OR")
           ands == Tops(t, "AND")
           or == CHOOSE i \in ors : TRUE
           and == CHOOSE i \in ands : TRUE
<1>1. n \in Nat /\ ors \subseteq 1..n /\ ands \subseteq 1..n
  BY DEF Texts, Tops
<1>2. ASSUME NEW i \in 1..n PROVE g[SubSeq(t, 1, i - 1)] = h[SubSeq(t, 1, i - 1)] /\ g[SubSeq(t, i + 1, n)] = h[SubSeq(t, i + 1, n)]
  <2>1. /\ SubSeq(t, 1, i - 1) \in Texts /\ Len(SubSeq(t, 1, i - 1)) < n
        /\ SubSeq(t, i + 1, n) \in Texts /\ Len(SubSeq(t, i + 1, n)) < n
    <3>1. i \in 1..(Len(t) + 1) /\ i - 1 \in 0..Len(t) /\ i + 1 \in 1..(Len(t) + 1) /\ Len(t) \in 0..Len(t)
             /\ 1 \in 1..(Len(t) + 1)
      BY <1>1
    <3>2. SubSeq(t, 1, i - 1) \in Texts /\ Len(SubSeq(t, 1, i - 1)) = IF 1 <= i - 1 THEN i - 1 - 1 + 1 ELSE 0
      BY <3>1, Parts
    <3>3. SubSeq(t, i + 1, n) \in Texts /\ Len(SubSeq(t, i + 1, n)) = IF i + 1 <= n THEN n - (i + 1) + 1 ELSE 0
      BY <3>1, Parts
    <3> HIDE DEF n
    <3>4. QED BY <1>1, <3>2, <3>3
  <2>2. QED BY <2>1
<1>3. ASSUME n > 0 PROVE g[SubSeq(t, 2, n)] = h[SubSeq(t, 2, n)] /\ g[SubSeq(t, 2, n - 1)] = h[SubSeq(t, 2, n - 1)]
  <2>1. /\ SubSeq(t, 2, n) \in Texts /\ Len(SubSeq(t, 2, n)) < n
        /\ SubSeq(t, 2, n - 1) \in Texts /\ Len(SubSeq(t, 2, n - 1)) < n
    BY <1>1, <1>3, Parts
  <2>2. QED BY <2>1
<1>4. ors # {} => or \in 1..n
  BY <1>1
<1>5. ands # {} => and \in 1..n
  BY <1>1
<1> HIDE DEF ors, ands, or, and
<1>6. n = 0 \/ n > 0
  BY <1>1
<1> HIDE DEF n
<1>7. /\ ors # {} => g[SubSeq(t, 1, or - 1)] = h[SubSeq(t, 1, or - 1)] /\ g[SubSeq(t, or + 1, n)] = h[SubSeq(t, or + 1, n)]
      /\ ands # {} => g[SubSeq(t, 1, and - 1)] = h[SubSeq(t, 1, and - 1)] /\ g[SubSeq(t, and + 1, n)] = h[SubSeq(t, and + 1, n)]
  BY <1>2, <1>4, <1>5
<1>8. QED BY <1>3, <1>6, <1>7 DEF Parsed, n, ors, ands, or, and

\* A reading that is right for the texts of up to m words.
Right(g, m) == \A t \in Texts : Len(t) <= m => g[t] = Parsed(g, t)

LEMMA RightExists ==
  \A m \in Nat : \E g : Right(g, m)
<1> DEFINE S == {m \in Nat : \E g : Right(g, m)}
<1>1. ASSUME NEW n \in Nat, \A m \in 0..(n - 1) : m \in S PROVE n \in S
  <2>1. \E g : \A t \in Texts : Len(t) < n => g[t] = Parsed(g, t)
    <3>1. CASE n = 0
      <4>1. \A t \in Texts : ~(Len(t) < n)
        BY <3>1 DEF Texts
      <4>2. QED BY <4>1
    <3>2. CASE n # 0
      <4>1. n - 1 \in 0..(n - 1)
        BY <3>2
      <4>2. PICK g : Right(g, n - 1)
        BY <1>1, <4>1
      <4>3. \A t \in Texts : Len(t) < n => Len(t) <= n - 1
        BY DEF Texts
      <4>4. QED BY <4>2, <4>3 DEF Right
    <3>3. QED BY <3>1, <3>2
  <2>2. PICK g : \A t \in Texts : Len(t) < n => g[t] = Parsed(g, t)
    BY <2>1
  <2> DEFINE h == [t \in Texts |-> IF Len(t) < n THEN g[t] ELSE Parsed(g, t)]
  <2>3. ASSUME NEW t \in Texts, Len(t) <= n PROVE h[t] = Parsed(h, t)
    <3>1. \A u \in Texts : Len(u) < Len(t) => g[u] = h[u]
      <4>1. ASSUME NEW u \in Texts, Len(u) < Len(t) PROVE Len(u) < n
        BY <2>3, <4>1 DEF Texts
      <4>2. QED BY <4>1
    <3>2. h[t] = Parsed(g, t)
      BY <2>2
    <3> HIDE DEF h
    <3>3. QED BY <3>1, <3>2, ParsedSame
  <2> HIDE DEF h
  <2>4. Right(h, n)
    BY <2>3 DEF Right
  <2>5. QED BY <2>4
<1> HIDE DEF S
<1>2. \A n \in Nat : n \in S
  BY <1>1, Course
<1>3. QED BY <1>2 DEF S

LEMMA RightIsOne ==
  ASSUME NEW m \in Nat, NEW g, NEW h, Right(g, m), Right(h, m)
  PROVE  \A t \in Texts : Len(t) <= m => g[t] = h[t]
<1> DEFINE S == {n \in Nat : n <= m => \A t \in Texts : Len(t) = n => g[t] = h[t]}
<1>1. ASSUME NEW n \in Nat, \A i \in 0..(n - 1) : i \in S PROVE n \in S
  <2> SUFFICES ASSUME n <= m, NEW t \in Texts, Len(t) = n PROVE g[t] = h[t]
    OBVIOUS
  <2>1. ASSUME NEW u \in Texts, Len(u) < Len(t) PROVE g[u] = h[u]
    <3>1. Len(u) \in 0..(n - 1) /\ Len(u) <= m
      BY <2>1 DEF Texts
    <3>2. Len(u) \in S
      BY <1>1, <3>1
    <3>3. QED BY <3>1, <3>2
  <2>2. Parsed(g, t) = Parsed(h, t)
    BY <2>1, ParsedSame
  <2>3. g[t] = Parsed(g, t) /\ h[t] = Parsed(h, t)
    BY DEF Right
  <2>4. QED BY <2>2, <2>3
<1> HIDE DEF S
<1>2. \A n \in Nat : n \in S
  BY <1>1, Course
<1>3. \A t \in Texts : Len(t) \in Nat
  BY DEF Texts
<1>4. QED BY <1>2, <1>3 DEF S

\* Reading is what its definition says.
LEMMA ReadingIs ==
  \A t \in Texts : Reading[t] = Parsed(Reading, t)
<1> DEFINE r(m) == CHOOSE g : Right(g, m)
           G == [t \in Texts |-> r(Len(t))[t]]
<1>1. ASSUME NEW m \in Nat PROVE Right(r(m), m)
  BY RightExists
<1> HIDE DEF r
<1>2. ASSUME NEW t \in Texts PROVE G[t] = Parsed(G, t)
  <2>1. ASSUME NEW u \in Texts, Len(u) < Len(t) PROVE G[u] = r(Len(t))[u]
    <3>1. Len(u) \in Nat /\ Len(t) \in Nat /\ Len(u) <= Len(t)
      BY <2>1 DEF Texts
    <3>2. Right(r(Len(u)), Len(u)) /\ Right(r(Len(t)), Len(t))
      BY <1>1, <3>1
    <3>3. Right(r(Len(t)), Len(u))
      <4>1. ASSUME NEW v \in Texts, Len(v) <= Len(u) PROVE Len(v) <= Len(t)
        BY <3>1, <4>1 DEF Texts
      <4>2. QED BY <3>2, <4>1 DEF Right
    <3>4. r(Len(u))[u] = r(Len(t))[u]
      BY <3>1, <3>2, <3>3, RightIsOne
    <3>5. QED BY <3>4
  <2>2. Len(t) \in Nat
    BY DEF Texts
  <2>3. Right(r(Len(t)), Len(t))
    BY <1>1, <2>2
  <2>4. r(Len(t))[t] = Parsed(r(Len(t)), t)
    BY <2>2, <2>3 DEF Right
  <2>5. G[t] = r(Len(t))[t]
    OBVIOUS
  <2> HIDE DEF G
  <2>6. Parsed(G, t) = Parsed(r(Len(t)), t)
    BY <2>1, ParsedSame
  <2>7. QED BY <2>4, <2>5, <2>6
<1>3. G = [t \in Texts |-> Parsed(G, t)]
  BY <1>2
<1> HIDE DEF G
<1>4. \E f : f = [t \in Seq(Words) |-> Parsed(f, t)]
  BY <1>3 DEF Texts
<1>5. Reading = [t \in Seq(Words) |-> Parsed(Reading, t)]
  BY <1>4 DEF Reading
<1>6. QED BY <1>5 DEF Texts

-----------------------------------------------------------------------------
(* Counting words.                                                         *)

Times(t, w, i) == Cardinality({k \in 1..i : t[k] = w})

LEMMA TimesSteps ==
  ASSUME NEW t \in Texts, NEW w
  PROVE  /\ Times(t, w, 0) = 0
         /\ \A i \in Nat : Times(t, w, i) \in Nat
         /\ \A i \in 1..Len(t) : Times(t, w, i) = Times(t, w, i - 1) + IF t[i] = w THEN 1 ELSE 0
<1> DEFINE K(i) == {k \in 1..i : t[k] = w}
<1>1. ASSUME NEW i \in Nat PROVE IsFiniteSet(K(i)) /\ Cardinality(K(i)) \in Nat
  <2>1. IsFiniteSet(1..i) /\ K(i) \subseteq 1..i
    BY FS_Interval
  <2> HIDE DEF K
  <2>2. QED BY <2>1, FS_Subset, FS_CardinalityType
<1>2. K(0) = {}
  OBVIOUS
<1>3. ASSUME NEW i \in 1..Len(t) PROVE Cardinality(K(i)) = Cardinality(K(i - 1)) + IF t[i] = w THEN 1 ELSE 0
  <2>1. i \in Nat /\ i - 1 \in Nat /\ i \notin K(i - 1) /\ K(i) = IF t[i] = w THEN K(i - 1) \cup {i} ELSE K(i - 1)
    BY DEF Texts
  <2> HIDE DEF K
  <2>2. IsFiniteSet(K(i - 1)) /\ Cardinality(K(i - 1)) \in Nat
    BY <1>1, <2>1
  <2>3. Cardinality(K(i - 1) \cup {i}) = Cardinality(K(i - 1)) + 1
    BY <2>1, <2>2, FS_AddElement
  <2>4. QED BY <2>1, <2>2, <2>3
<1>4. Cardinality(K(0)) = 0
  BY <1>2, FS_EmptySet
<1>5. QED BY <1>1, <1>3, <1>4 DEF Times

LEMMA TimesNext ==
  ASSUME NEW t \in Texts, NEW w, NEW i \in 1..Len(t)
  PROVE  Times(t, w, i) = Times(t, w, i - 1) + IF t[i] = w THEN 1 ELSE 0
BY TimesSteps

LEMMA TimesNumber ==
  ASSUME NEW t \in Texts, NEW w, NEW i \in Nat
  PROVE  Times(t, w, i) \in Nat
BY TimesSteps

LEMMA Glue ==
  ASSUME NEW a \in Texts, NEW b \in Texts
  PROVE  /\ a \o b \in Texts /\ Len(a \o b) = Len(a) + Len(b) /\ Len(a) \in Nat /\ Len(b) \in Nat
         /\ \A i \in 1..Len(a) : (a \o b)[i] = a[i]
         /\ \A i \in 1..Len(b) : (a \o b)[Len(a) + i] = b[i]
BY DEF Texts

LEMMA SameTexts ==
  ASSUME NEW a \in Texts, NEW b \in Texts, Len(a) = Len(b), \A i \in 1..Len(b) : a[i] = b[i]
  PROVE  a = b
BY DEF Texts

LEMMA TimesGlue ==
  ASSUME NEW a \in Texts, NEW b \in Texts, NEW w
  PROVE  /\ \A i \in 0..Len(a) : Times(a \o b, w, i) = Times(a, w, i)
         /\ \A i \in 0..Len(b) : Times(a \o b, w, Len(a) + i) = Times(a, w, Len(a)) + Times(b, w, i)
<1> DEFINE t == a \o b
           S == {i \in 0..Len(a) : Times(t, w, i) = Times(a, w, i)}
           R == {i \in 0..Len(b) : Times(t, w, Len(a) + i) = Times(a, w, Len(a)) + Times(b, w, i)}
<1>1. /\ t \in Texts /\ Len(t) = Len(a) + Len(b) /\ Len(a) \in Nat /\ Len(b) \in Nat
      /\ \A i \in 1..Len(a) : t[i] = a[i]
      /\ \A i \in 1..Len(b) : t[Len(a) + i] = b[i]
  BY Glue
<1> HIDE DEF t
<1>2. Times(t, w, 0) = 0 /\ Times(a, w, 0) = 0 /\ Times(b, w, 0) = 0
  BY <1>1, TimesSteps
<1>3. \A i \in Nat : Times(t, w, i) \in Nat /\ Times(a, w, i) \in Nat /\ Times(b, w, i) \in Nat
  BY <1>1, TimesSteps
<1>4. 0 \in S
  BY <1>1, <1>2
<1>5. ASSUME NEW i \in 1..Len(a), i - 1 \in S PROVE i \in S
  <2>1. i \in 1..Len(t) /\ t[i] = a[i] /\ i \in 0..Len(a)
    BY <1>1
  <2>2. Times(t, w, i) = Times(t, w, i - 1) + IF t[i] = w THEN 1 ELSE 0
    BY <1>1, <2>1, TimesNext
  <2>3. Times(a, w, i) = Times(a, w, i - 1) + IF a[i] = w THEN 1 ELSE 0
    BY TimesNext
  <2>4. QED BY <1>5, <2>1, <2>2, <2>3
<1>6. \A i \in 0..Len(a) : i \in S
  <2> HIDE DEF S
  <2>1. QED BY <1>1, <1>4, <1>5, Climb
<1>7. 0 \in R
  <2>1. Times(t, w, Len(a)) = Times(a, w, Len(a))
    BY <1>1, <1>6
  <2>2. Len(a) + 0 = Len(a) /\ Times(a, w, Len(a)) \in Nat
    BY <1>1, <1>3
  <2>3. Times(a, w, Len(a)) + 0 = Times(a, w, Len(a))
    BY <2>2
  <2>4. QED BY <1>1, <1>2, <2>1, <2>2, <2>3
<1>8. ASSUME NEW i \in 1..Len(b), i - 1 \in R PROVE i \in R
  <2>1. Len(a) + i \in 1..Len(t) /\ t[Len(a) + i] = b[i] /\ i \in 0..Len(b) /\ Len(a) + i - 1 = Len(a) + (i - 1)
    BY <1>1
  <2>2. Times(t, w, Len(a) + i) = Times(t, w, Len(a) + i - 1) + IF t[Len(a) + i] = w THEN 1 ELSE 0
    BY <1>1, <2>1, TimesNext
  <2>3. Times(b, w, i) = Times(b, w, i - 1) + IF b[i] = w THEN 1 ELSE 0
    BY TimesNext
  <2>4. Times(t, w, Len(a) + (i - 1)) = Times(a, w, Len(a)) + Times(b, w, i - 1)
    BY <1>8
  <2>5. Times(a, w, Len(a)) \in Nat /\ Times(b, w, i - 1) \in Nat
    <3>1. Len(a) \in Nat /\ i - 1 \in Nat
      BY <1>1
    <3>2. QED BY <3>1, TimesNumber
  <2>6. Times(t, w, Len(a) + i) = Times(a, w, Len(a)) + Times(b, w, i)
    BY <2>1, <2>2, <2>3, <2>4, <2>5
  <2>7. QED BY <2>1, <2>6
<1>9. \A i \in 0..Len(b) : i \in R
  <2> HIDE DEF R
  <2>1. QED BY <1>1, <1>7, <1>8, Climb
<1>10. QED BY <1>6, <1>9 DEF t

LEMMA TimesLeft ==
  ASSUME NEW a \in Texts, NEW b \in Texts, NEW w, NEW i \in 0..Len(a)
  PROVE  Times(a \o b, w, i) = Times(a, w, i)
<1>1. \A j \in 0..Len(a) : Times(a \o b, w, j) = Times(a, w, j)
  BY TimesGlue, SMTT(20)
<1>2. QED BY <1>1

LEMMA TimesRight ==
  ASSUME NEW a \in Texts, NEW b \in Texts, NEW w, NEW i \in 0..Len(b)
  PROVE  Times(a \o b, w, Len(a) + i) = Times(a, w, Len(a)) + Times(b, w, i)
<1>1. \A j \in 0..Len(b) : Times(a \o b, w, Len(a) + j) = Times(a, w, Len(a)) + Times(b, w, j)
  BY TimesGlue
<1>2. QED BY <1>1

-----------------------------------------------------------------------------
(* Parentheses.                                                            *)

Balanced(t) == t \in Texts /\ (\A i \in 0..Len(t) : Depth(t, i) >= 0) /\ Depth(t, Len(t)) = 0

\* An OR or AND that no parentheses hide is part of a BETWEEN.
Quiet(t) == \A i \in 1..Len(t) : t[i] \in {"OR", "AND"} /\ Depth(t, i) = 0 => i > 2 /\ t[i - 2] = "BETWEEN"

TidyEnd(t) == t[Len(t)] # "BETWEEN" /\ (Len(t) > 1 => t[Len(t) - 1] # "BETWEEN")

\* A text that reads as one operand wherever it stands.
Solid(t) == Balanced(t) /\ t # <<>> /\ Quiet(t) /\ TidyEnd(t)

LEMMA DepthNumber ==
  ASSUME NEW t \in Texts
  PROVE  Depth(t, 0) = 0 /\ \A i \in Nat : Depth(t, i) \in Int
<1>1. Depth(t, 0) = Times(t, "(", 0) - Times(t, ")", 0) /\ Times(t, "(", 0) = 0 /\ Times(t, ")", 0) = 0
  BY TimesSteps DEF Depth, Times
<1>2. ASSUME NEW i \in Nat PROVE Depth(t, i) \in Int
  <2>1. Times(t, "(", i) \in Nat /\ Times(t, ")", i) \in Nat
    BY TimesNumber
  <2>2. Depth(t, i) = Times(t, "(", i) - Times(t, ")", i)
    BY DEF Depth, Times
  <2>3. QED BY <2>1, <2>2
<1>3. QED BY <1>1, <1>2

LEMMA DepthNext ==
  ASSUME NEW t \in Texts, NEW i \in 1..Len(t)
  PROVE  Depth(t, i) = Depth(t, i - 1) + IF t[i] = "(" THEN 1 ELSE IF t[i] = ")" THEN -1 ELSE 0
<1>1. \A j : Depth(t, j) = Times(t, "(", j) - Times(t, ")", j)
  BY DEF Depth, Times
<1>2. Times(t, "(", i) = Times(t, "(", i - 1) + IF t[i] = "(" THEN 1 ELSE 0
  BY TimesNext
<1>3. Times(t, ")", i) = Times(t, ")", i - 1) + IF t[i] = ")" THEN 1 ELSE 0
  BY TimesNext
<1>4. i - 1 \in Nat
  BY DEF Texts
<1>5. Times(t, "(", i - 1) \in Nat /\ Times(t, ")", i - 1) \in Nat
  BY <1>4, TimesNumber
<1>6. Depth(t, i) = Times(t, "(", i) - Times(t, ")", i) /\ Depth(t, i - 1) = Times(t, "(", i - 1) - Times(t, ")", i - 1)
  BY <1>1
<1>7. QED BY <1>2, <1>3, <1>5, <1>6

LEMMA DepthGlue ==
  ASSUME NEW a \in Texts, NEW b \in Texts
  PROVE  /\ \A i \in 0..Len(a) : Depth(a \o b, i) = Depth(a, i)
         /\ \A i \in 0..Len(b) : Depth(a \o b, Len(a) + i) = Depth(a, Len(a)) + Depth(b, i)
<1> DEFINE t == a \o b
<1>1. t \in Texts /\ Len(a) \in Nat /\ Len(b) \in Nat
  BY Glue
<1>2. /\ \A i : Depth(t, i) = Times(t, "(", i) - Times(t, ")", i)
      /\ \A i : Depth(a, i) = Times(a, "(", i) - Times(a, ")", i)
      /\ \A i : Depth(b, i) = Times(b, "(", i) - Times(b, ")", i)
  BY DEF Depth, Times
<1>3. ASSUME NEW i \in 0..Len(a) PROVE Depth(t, i) = Depth(a, i)
  <2>1. Times(t, "(", i) = Times(a, "(", i) /\ Times(t, ")", i) = Times(a, ")", i)
    <3>1. Times(a \o b, "(", i) = Times(a, "(", i)
      BY TimesLeft
    <3>2. Times(a \o b, ")", i) = Times(a, ")", i)
      BY TimesLeft
    <3>3. QED BY <3>1, <3>2
  <2> HIDE DEF t
  <2>2. QED BY <1>2, <2>1
<1>4. ASSUME NEW i \in 0..Len(b) PROVE Depth(t, Len(a) + i) = Depth(a, Len(a)) + Depth(b, i)
  <2>1. /\ Times(t, "(", Len(a) + i) = Times(a, "(", Len(a)) + Times(b, "(", i)
        /\ Times(t, ")", Len(a) + i) = Times(a, ")", Len(a)) + Times(b, ")", i)
    <3>1. Times(a \o b, "(", Len(a) + i) = Times(a, "(", Len(a)) + Times(b, "(", i)
      BY TimesRight
    <3>2. Times(a \o b, ")", Len(a) + i) = Times(a, ")", Len(a)) + Times(b, ")", i)
      BY TimesRight
    <3>3. QED BY <3>1, <3>2
  <2> HIDE DEF t
  <2>2. i \in Nat
    BY <1>1
  <2>3. Times(a, "(", Len(a)) \in Nat /\ Times(a, ")", Len(a)) \in Nat
    BY <1>1, TimesNumber
  <2>4. Times(b, "(", i) \in Nat /\ Times(b, ")", i) \in Nat
    BY <2>2, TimesNumber
  <2>5. /\ Depth(t, Len(a) + i) = Times(t, "(", Len(a) + i) - Times(t, ")", Len(a) + i)
        /\ Depth(a, Len(a)) = Times(a, "(", Len(a)) - Times(a, ")", Len(a))
        /\ Depth(b, i) = Times(b, "(", i) - Times(b, ")", i)
    BY <1>2
  <2>6. QED BY <2>1, <2>3, <2>4, <2>5
<1>5. QED BY <1>3, <1>4

LEMMA DepthFlat ==
  ASSUME NEW t \in Texts, \A i \in 1..Len(t) : t[i] \notin {"(", ")"}
  PROVE  \A i \in 0..Len(t) : Depth(t, i) = 0
<1>1. ASSUME NEW i \in 0..Len(t) PROVE Depth(t, i) = 0
  <2>1. {k \in 1..i : t[k] = "("} = {} /\ {k \in 1..i : t[k] = ")"} = {}
    BY DEF Texts
  <2>2. Cardinality({k \in 1..i : t[k] = "("}) = 0 /\ Cardinality({k \in 1..i : t[k] = ")"}) = 0
    BY <2>1, FS_EmptySet
  <2>3. Depth(t, i) = Cardinality({k \in 1..i : t[k] = "("}) - Cardinality({k \in 1..i : t[k] = ")"})
    BY DEF Depth
  <2>4. QED BY <2>2, <2>3
<1>2. QED BY <1>1

LEMMA BalancedGlue ==
  ASSUME NEW a, NEW b, Balanced(a), Balanced(b)
  PROVE  Balanced(a \o b)
<1> DEFINE t == a \o b
<1>1. a \in Texts /\ b \in Texts
  BY DEF Balanced
<1>2. t \in Texts /\ Len(t) = Len(a) + Len(b) /\ Len(a) \in Nat /\ Len(b) \in Nat
  BY <1>1, Glue
<1>3. /\ \A i \in 0..Len(a) : Depth(t, i) = Depth(a, i)
      /\ \A i \in 0..Len(b) : Depth(t, Len(a) + i) = Depth(a, Len(a)) + Depth(b, i)
  BY <1>1, DepthGlue
<1> HIDE DEF t
<1>4. Depth(a, Len(a)) = 0 /\ Depth(b, Len(b)) = 0
  BY DEF Balanced
<1>5. ASSUME NEW i \in 0..Len(t) PROVE Depth(t, i) >= 0
  <2>1. CASE i <= Len(a)
    BY <1>2, <1>3, <2>1 DEF Balanced
  <2>2. CASE i > Len(a)
    <3>1. i - Len(a) \in 0..Len(b) /\ Len(a) + (i - Len(a)) = i /\ i - Len(a) \in Nat
      BY <1>2, <2>2
    <3>2. Depth(t, i) = 0 + Depth(b, i - Len(a))
      BY <1>3, <1>4, <3>1
    <3>3. Depth(b, i - Len(a)) \in Int
      BY <1>1, <3>1, DepthNumber
    <3>4. Depth(b, i - Len(a)) >= 0
      BY <3>1 DEF Balanced
    <3>5. QED BY <3>2, <3>3, <3>4
  <2>3. QED BY <1>2, <2>1, <2>2
<1>6. Depth(t, Len(t)) = 0
  <2>1. Len(b) \in 0..Len(b)
    BY <1>2
  <2>2. QED BY <1>2, <1>3, <1>4, <2>1
<1>7. QED BY <1>2, <1>5, <1>6 DEF Balanced, t

LEMMA OneOf ==
  ASSUME NEW S, NEW w \in S
  PROVE  <<w>> \in Seq(S) /\ Len(<<w>>) = 1 /\ <<w>>[1] = w
OBVIOUS

LEMMA Word ==
  ASSUME NEW w \in Words
  PROVE  <<w>> \in Texts /\ Len(<<w>>) = 1 /\ <<w>>[1] = w
BY OneOf DEF Texts

LEMMA SolidWord ==
  ASSUME NEW w \in Words, w \notin {"(", ")", "OR", "AND", "BETWEEN"}
  PROVE  Solid(<<w>>)
<1>1. <<w>> \in Texts /\ Len(<<w>>) = 1 /\ <<w>>[1] = w /\ <<w>> # <<>>
  BY Word
<1>2. \A i \in 0..Len(<<w>>) : Depth(<<w>>, i) = 0
  BY <1>1, DepthFlat
<1>3. QED BY <1>1, <1>2 DEF Solid, Balanced, Quiet, TidyEnd

LEMMA SolidGlue ==
  ASSUME NEW a, NEW b, Solid(a), Solid(b)
  PROVE  Solid(a \o b)
<1> DEFINE t == a \o b
<1>1. a \in Texts /\ b \in Texts /\ Balanced(a) /\ Balanced(b) /\ Depth(a, Len(a)) = 0
  BY DEF Solid, Balanced
<1>2. /\ t \in Texts /\ Len(t) = Len(a) + Len(b) /\ Len(a) \in Nat /\ Len(b) \in Nat
      /\ \A i \in 1..Len(a) : t[i] = a[i]
      /\ \A i \in 1..Len(b) : t[Len(a) + i] = b[i]
  BY <1>1, Glue
<1>3. /\ \A i \in 0..Len(a) : Depth(t, i) = Depth(a, i)
      /\ \A i \in 0..Len(b) : Depth(t, Len(a) + i) = Depth(a, Len(a)) + Depth(b, i)
  BY <1>1, DepthGlue
<1>4. Balanced(t)
  BY <1>1, BalancedGlue
<1>5. Len(a) > 0 /\ Len(b) > 0
  BY <1>1 DEF Solid, Texts
<1> HIDE DEF t
<1>6. ASSUME NEW i \in 1..Len(t), t[i] \in {"OR", "AND"}, Depth(t, i) = 0
      PROVE  i > 2 /\ t[i - 2] = "BETWEEN"
  <2>1. CASE i <= Len(a)
    <3>1. i \in 1..Len(a) /\ i \in 0..Len(a) /\ t[i] = a[i] /\ Depth(t, i) = Depth(a, i)
      BY <1>2, <1>3, <2>1
    <3>2. i > 2 /\ a[i - 2] = "BETWEEN"
      BY <1>6, <3>1 DEF Solid, Quiet
    <3>3. i - 2 \in 1..Len(a)
      BY <1>2, <3>1, <3>2
    <3>4. QED BY <1>2, <3>2, <3>3
  <2>2. CASE i > Len(a)
    <3>1. PICK j \in 1..Len(b) : i = Len(a) + j
      <4>1. i - Len(a) \in 1..Len(b) /\ i = Len(a) + (i - Len(a))
        BY <1>2, <2>2
      <4>2. QED BY <4>1
    <3>2. j \in 0..Len(b) /\ j \in Nat
      BY <1>2
    <3>3. Depth(t, i) = 0 + Depth(b, j) /\ Depth(b, j) \in Int
      BY <1>1, <1>3, <3>1, <3>2, DepthNumber
    <3>4. t[i] = b[j] /\ Depth(b, j) = 0
      BY <1>2, <1>6, <3>1, <3>3
    <3>5. j > 2 /\ b[j - 2] = "BETWEEN"
      BY <1>6, <3>4 DEF Solid, Quiet
    <3>6. j - 2 \in 1..Len(b) /\ i - 2 = Len(a) + (j - 2)
      BY <1>2, <3>1, <3>5
    <3>7. t[i - 2] = b[j - 2]
      BY <1>2, <3>6
    <3>8. QED BY <1>2, <3>1, <3>5, <3>7
  <2>3. QED BY <1>2, <2>1, <2>2
<1>7. t[Len(t)] # "BETWEEN"
  <2>1. Len(b) \in 1..Len(b)
    BY <1>2, <1>5
  <2>2. t[Len(t)] = b[Len(b)]
    BY <1>2, <2>1
  <2>3. QED BY <2>2 DEF Solid, TidyEnd
<1>8. t[Len(t) - 1] # "BETWEEN"
  <2>1. CASE Len(b) = 1
    <3>1. Len(a) \in 1..Len(a) /\ Len(t) - 1 = Len(a)
      BY <1>2, <1>5, <2>1
    <3>2. QED BY <1>2, <3>1 DEF Solid, TidyEnd
  <2>2. CASE Len(b) # 1
    <3>0. Len(a) \in Nat /\ Len(b) \in Nat /\ Len(t) = Len(a) + Len(b)
      BY <1>2
    <3>1. Len(b) > 1 /\ Len(b) - 1 \in 1..Len(b)
      <4>1. Len(b) > 0
        BY <1>5
      <4>2. \A n \in Nat : n > 0 /\ n # 1 => n > 1 /\ n - 1 \in 1..n
        OBVIOUS
      <4>3. QED BY <3>0, <4>1, <4>2, <2>2
    <3>11. Len(t) - 1 = Len(a) + (Len(b) - 1)
      BY <3>0
    <3>2. t[Len(t) - 1] = b[Len(b) - 1]
      BY <1>2, <3>1, <3>11
    <3>3. QED BY <3>1, <3>2 DEF Solid, TidyEnd
  <2>3. QED BY <2>1, <2>2
<1>9. t # <<>>
  BY <1>2, <1>5
<1>10. Solid(t)
  BY <1>4, <1>6, <1>7, <1>8, <1>9 DEF Solid, Quiet, TidyEnd
<1>11. QED BY <1>10 DEF t

Enclosed(s) == <<"(">> \o s \o <<")">>

\* Nothing but the last word is outside.
LEMMA EnclosedIs ==
  ASSUME NEW s, Balanced(s)
  PROVE  LET t == Enclosed(s)
         IN /\ t \in Texts /\ Len(t) = Len(s) + 2 /\ Len(s) \in Nat
            /\ t[1] = "(" /\ t[Len(t)] = ")"
            /\ \A i \in 1..Len(s) : t[i + 1] = s[i]
            /\ Depth(t, 0) = 0 /\ Depth(t, Len(t)) = 0
            /\ \A i \in 1..(Len(t) - 1) : Depth(t, i) \in Int /\ Depth(t, i) > 0
<1> DEFINE p == <<"(">>
           q == <<")">>
           u == p \o s
           t == u \o q
<1>0. t = Enclosed(s)
  BY DEF Enclosed
<1>1. s \in Texts /\ Depth(s, Len(s)) = 0
  BY DEF Balanced
<1>2. p \in Texts /\ Len(p) = 1 /\ p[1] = "(" /\ q \in Texts /\ Len(q) = 1 /\ q[1] = ")"
  <2>1. "(" \in Words /\ ")" \in Words
    BY DEF Words
  <2>2. p \in Texts /\ Len(p) = 1 /\ p[1] = "("
    BY <2>1, Word, Zenon
  <2>3. q \in Texts /\ Len(q) = 1 /\ q[1] = ")"
    BY <2>1, Word, Zenon
  <2>4. QED BY <2>2, <2>3
<1>3. Depth(p, 0) = 0 /\ Depth(q, 0) = 0
  BY <1>2, DepthNumber
<1>4. 1 \in 1..Len(p) /\ 1 \in 1..Len(q) /\ 1 - 1 = 0
  BY <1>2
<1>5. Depth(p, 1) = 1
  <2> HIDE DEF p
  <2>1. Depth(p, 1) = Depth(p, 1 - 1) + IF p[1] = "(" THEN 1 ELSE IF p[1] = ")" THEN -1 ELSE 0
    BY <1>2, <1>4, DepthNext
  <2>2. QED BY <2>1, <1>2, <1>3, <1>4
<1>6. Depth(q, 1) = -1
  <2> HIDE DEF q
  <2>1. Depth(q, 1) = Depth(q, 1 - 1) + IF q[1] = "(" THEN 1 ELSE IF q[1] = ")" THEN -1 ELSE 0
    BY <1>2, <1>4, DepthNext
  <2>2. QED BY <2>1, <1>2, <1>3, <1>4
<1> HIDE DEF p, q
<1>7. /\ u \in Texts /\ Len(u) = Len(p) + Len(s) /\ Len(s) \in Nat
      /\ \A i \in 1..Len(p) : u[i] = p[i]
      /\ \A i \in 1..Len(s) : u[Len(p) + i] = s[i]
  BY <1>1, <1>2, Glue
<1>8. /\ \A i \in 0..Len(p) : Depth(u, i) = Depth(p, i)
      /\ \A i \in 0..Len(s) : Depth(u, Len(p) + i) = Depth(p, Len(p)) + Depth(s, i)
  BY <1>1, <1>2, DepthGlue
<1> HIDE DEF u
<1>9. /\ t \in Texts /\ Len(t) = Len(u) + Len(q)
      /\ \A i \in 1..Len(u) : t[i] = u[i]
      /\ \A i \in 1..Len(q) : t[Len(u) + i] = q[i]
  BY <1>2, <1>7, Glue
<1>10. /\ \A i \in 0..Len(u) : Depth(t, i) = Depth(u, i)
       /\ \A i \in 0..Len(q) : Depth(t, Len(u) + i) = Depth(u, Len(u)) + Depth(q, i)
  BY <1>2, <1>7, DepthGlue
<1> HIDE DEF t
<1>11. Len(u) = Len(s) + 1 /\ Len(t) = Len(s) + 2
  BY <1>2, <1>7, <1>9
<1>12. t[1] = "("
  <2>1. 1 \in 1..Len(u)
    BY <1>7, <1>11
  <2>2. t[1] = u[1] /\ u[1] = p[1]
    BY <1>4, <1>7, <1>9, <2>1
  <2>3. QED BY <1>2, <2>2
<1>13. t[Len(t)] = ")"
  BY <1>2, <1>4, <1>9
<1>14. ASSUME NEW i \in 1..Len(s) PROVE t[i + 1] = s[i]
  <2>1. i + 1 \in 1..Len(u) /\ i + 1 = Len(p) + i
    BY <1>2, <1>7, <1>11
  <2>2. QED BY <1>7, <1>9, <2>1
<1>15. Depth(t, 0) = 0
  BY <1>9, DepthNumber
<1>16. ASSUME NEW i \in 1..(Len(t) - 1) PROVE Depth(t, i) \in Int /\ Depth(t, i) > 0 /\ (i = Len(u) => Depth(t, i) = 1)
  <2>1. i \in 0..Len(u) /\ i - 1 \in 0..Len(s) /\ Len(p) + (i - 1) = i /\ i - 1 \in Nat
    BY <1>2, <1>7, <1>11
  <2>2. Depth(t, i) = Depth(u, i)
    BY <1>10, <2>1
  <2>3. Depth(u, i) = Depth(p, Len(p)) + Depth(s, i - 1)
    BY <1>8, <2>1
  <2>4. Depth(p, Len(p)) = 1
    BY <1>2, <1>5
  <2>5. Depth(s, i - 1) \in Int
    BY <1>1, <2>1, DepthNumber
  <2>6. Depth(s, i - 1) >= 0
    BY <2>1 DEF Balanced
  <2>7. i = Len(u) => Depth(s, i - 1) = 0
    BY <1>1, <1>11, <1>7
  <2>8. QED BY <2>2, <2>3, <2>4, <2>5, <2>6, <2>7
<1>17. Depth(t, Len(t)) = 0
  <2>1. Len(u) \in 1..(Len(t) - 1) /\ Len(u) \in 0..Len(u)
    BY <1>7, <1>11
  <2>2. Depth(t, Len(u)) = 1 /\ Depth(t, Len(u)) = Depth(u, Len(u))
    BY <1>10, <1>16, <2>1
  <2>3. Depth(t, Len(u) + 1) = Depth(u, Len(u)) + Depth(q, 1)
    BY <1>2, <1>10
  <2>4. Len(t) = Len(u) + 1
    BY <1>2, <1>9
  <2>5. QED BY <1>6, <2>2, <2>3, <2>4
<1>18. /\ t \in Texts /\ Len(t) = Len(s) + 2 /\ Len(s) \in Nat
       /\ t[1] = "(" /\ t[Len(t)] = ")"
       /\ \A i \in 1..Len(s) : t[i + 1] = s[i]
       /\ Depth(t, 0) = 0 /\ Depth(t, Len(t)) = 0
       /\ \A i \in 1..(Len(t) - 1) : Depth(t, i) \in Int /\ Depth(t, i) > 0
  BY <1>7, <1>9, <1>11, <1>12, <1>13, <1>14, <1>15, <1>16, <1>17
<1>19. t = Enclosed(s)
  BY <1>0 DEF t
<1>20. QED BY <1>18, <1>19

LEMMA SolidEnclosed ==
  ASSUME NEW s, Balanced(s), s # <<>>, s[Len(s)] # "BETWEEN"
  PROVE  Solid(Enclosed(s))
<1> DEFINE t == Enclosed(s)
<1>1. /\ t \in Texts /\ Len(t) = Len(s) + 2 /\ Len(s) \in Nat
      /\ t[1] = "(" /\ t[Len(t)] = ")"
      /\ \A i \in 1..Len(s) : t[i + 1] = s[i]
      /\ Depth(t, 0) = 0 /\ Depth(t, Len(t)) = 0
      /\ \A i \in 1..(Len(t) - 1) : Depth(t, i) \in Int /\ Depth(t, i) > 0
  BY EnclosedIs
<1>2. Len(s) > 0
  BY DEF Balanced, Texts
<1> HIDE DEF t
<1>3. ASSUME NEW i \in 1..Len(t), Depth(t, i) = 0 PROVE i = Len(t)
  BY <1>1, <1>3
<1>4. Quiet(t)
  BY <1>1, <1>3 DEF Quiet
<1>5. TidyEnd(t)
  <2>1. Len(s) \in 1..Len(s) /\ Len(t) - 1 = Len(s) + 1
    BY <1>1, <1>2
  <2>2. t[Len(t) - 1] = s[Len(s)]
    BY <1>1, <2>1
  <2>3. QED BY <1>1, <2>2 DEF TidyEnd
<1>6. ASSUME NEW i \in 0..Len(t) PROVE Depth(t, i) >= 0
  <2>1. i = 0 \/ i = Len(t) \/ i \in 1..(Len(t) - 1)
    BY <1>1
  <2>2. QED BY <1>1, <2>1
<1>7. Balanced(t)
  BY <1>1, <1>6 DEF Balanced
<1>8. t # <<>>
  BY <1>1
<1>9. Solid(t)
  BY <1>4, <1>5, <1>7, <1>8 DEF Solid
<1>10. QED BY <1>9 DEF t

LEMMA NoTops ==
  ASSUME NEW t, Solid(t)
  PROVE  Tops(t, "OR") = {} /\ Tops(t, "AND") = {}
<1>1. DOMAIN t = 1..Len(t)
  BY DEF Solid, Balanced, Texts
<1>2. ASSUME NEW i \in DOMAIN t, t[i] \in {"OR", "AND"}, Depth(t, i) = 0, i > 2 => t[i - 2] # "BETWEEN" PROVE FALSE
  BY <1>1, <1>2 DEF Solid, Quiet
<1>3. QED BY <1>2 DEF Tops

-----------------------------------------------------------------------------
(* Reading texts put together.                                             *)

LEMMA ReadingAt ==
  ASSUME NEW t \in Texts, NEW r \in Cells, t # <<>>, Tops(t, "OR") = {}, Tops(t, "AND") = {}
  PROVE  Reading[t][r] =
           IF t[1] = "NOT" THEN Not3(Reading[SubSeq(t, 2, Len(t))][r])
           ELSE IF t[1] = "(" THEN Reading[SubSeq(t, 2, Len(t) - 1)][r]
           ELSE IF Len(t) > 1 /\ t[2] = "NOT" THEN Not3(Test(Operand(t[1], r), SubSeq(t, 3, Len(t))))
           ELSE Test(Operand(t[1], r), [i \in 1..(Len(t) - 1) |-> Operand(t[i + 1], r)])
<1>1. Reading[t] = Parsed(Reading, t)
  BY ReadingIs
<1>2. Len(t) # 0
  BY DEF Texts
<1>3. QED BY <1>1, <1>2 DEF Parsed

LEMMA ReadEnclosed ==
  ASSUME NEW s, Balanced(s), s # <<>>, s[Len(s)] # "BETWEEN", NEW r \in Cells
  PROVE  Reading[Enclosed(s)][r] = Reading[s][r]
<1> DEFINE t == Enclosed(s)
<1>1. Solid(t)
  BY SolidEnclosed
<1>2. /\ t \in Texts /\ Len(t) = Len(s) + 2 /\ Len(s) \in Nat
      /\ t[1] = "("
      /\ \A i \in 1..Len(s) : t[i + 1] = s[i]
  BY EnclosedIs
<1>3. s \in Texts
  BY DEF Balanced
<1> HIDE DEF t
<1>4. SubSeq(t, 2, Len(t) - 1) = s
  <2>1. SubSeq(t, 2, Len(t) - 1) \in Texts /\ Len(SubSeq(t, 2, Len(t) - 1)) = Len(s)
    <3>1. 2 \in 1..(Len(t) + 1) /\ Len(t) - 1 \in 0..Len(t)
      BY <1>2
    <3>2. SubSeq(t, 2, Len(t) - 1) \in Texts /\ Len(SubSeq(t, 2, Len(t) - 1)) = IF 2 <= Len(t) - 1 THEN Len(t) - 1 - 2 + 1 ELSE 0
      BY <1>2, <3>1, Parts
    <3>3. QED BY <1>2, <3>2
  <2>2. ASSUME NEW i \in 1..Len(s) PROVE SubSeq(t, 2, Len(t) - 1)[i] = s[i]
    <3>1. SubSeq(t, 2, Len(t) - 1)[i] = t[i + 1]
      BY <1>2 DEF Texts
    <3>2. QED BY <1>2, <3>1
  <2>3. QED BY <1>3, <2>1, <2>2, SameTexts
<1>5. t # <<>> /\ Tops(t, "OR") = {} /\ Tops(t, "AND") = {}
  BY <1>1, NoTops DEF Solid
<1>6. Reading[t][r] = Reading[SubSeq(t, 2, Len(t) - 1)][r]
  BY <1>2, <1>5, ReadingAt
<1>7. QED BY <1>4, <1>6 DEF t

LEMMA ReadNot ==
  ASSUME NEW s, Solid(s), NEW r \in Cells
  PROVE  Solid(<<"NOT">> \o s) /\ Reading[<<"NOT">> \o s][r] = Not3(Reading[s][r])
<1> DEFINE p == <<"NOT">>
           t == p \o s
<1>1. "NOT" \in Words /\ "NOT" \notin {"(", ")", "OR", "AND", "BETWEEN"}
  BY DEF Words
<1>2. Solid(p) /\ p \in Texts /\ Len(p) = 1 /\ p[1] = "NOT"
  <2>1. Solid(p)
    BY <1>1, SolidWord, Zenon
  <2>2. p \in Texts /\ Len(p) = 1 /\ p[1] = "NOT"
    BY <1>1, Word, Zenon
  <2>3. QED BY <2>1, <2>2
<1> HIDE DEF p
<1>3. Solid(t)
  BY <1>2, SolidGlue
<1>4. s \in Texts
  BY DEF Solid, Balanced
<1>5. /\ t \in Texts /\ Len(t) = 1 + Len(s) /\ Len(s) \in Nat
      /\ \A i \in 1..Len(p) : t[i] = p[i]
      /\ \A i \in 1..Len(s) : t[1 + i] = s[i]
  <2>1. /\ t \in Texts /\ Len(t) = Len(p) + Len(s) /\ Len(s) \in Nat
        /\ \A i \in 1..Len(p) : t[i] = p[i]
        /\ \A i \in 1..Len(s) : t[Len(p) + i] = s[i]
    BY <1>2, <1>4, Glue
  <2> HIDE DEF t
  <2>2. QED BY <1>2, <2>1
<1> HIDE DEF t
<1>6. t[1] = "NOT"
  BY <1>2, <1>5
<1>7. SubSeq(t, 2, Len(t)) = s
  <2>1. SubSeq(t, 2, Len(t)) \in Texts /\ Len(SubSeq(t, 2, Len(t))) = Len(s)
    <3>1. 2 \in 1..(Len(t) + 1) /\ Len(t) \in 0..Len(t)
      BY <1>5
    <3>2. SubSeq(t, 2, Len(t)) \in Texts /\ Len(SubSeq(t, 2, Len(t))) = IF 2 <= Len(t) THEN Len(t) - 2 + 1 ELSE 0
      BY <1>5, <3>1, Parts
    <3>3. QED BY <1>5, <3>2
  <2>2. ASSUME NEW i \in 1..Len(s) PROVE SubSeq(t, 2, Len(t))[i] = s[i]
    <3>1. SubSeq(t, 2, Len(t))[i] = t[1 + i]
      BY <1>5 DEF Texts
    <3>2. QED BY <1>5, <3>1
  <2>3. QED BY <1>4, <2>1, <2>2, SameTexts
<1>8. t # <<>> /\ Tops(t, "OR") = {} /\ Tops(t, "AND") = {}
  BY <1>3, NoTops DEF Solid
<1>9. Reading[t][r] = Not3(Reading[SubSeq(t, 2, Len(t))][r])
  BY <1>5, <1>6, <1>8, ReadingAt
<1>10. QED BY <1>3, <1>7, <1>9 DEF t, p

Between3(a, w, b) == a \o <<w>> \o b

\* Two operands and the word between them.
LEMMA TopBetween ==
  ASSUME NEW a, NEW b, Solid(a), Solid(b), NEW w \in {"OR", "AND"}
  PROVE  LET t == Between3(a, w, b)
             k == Len(a) + 1
         IN /\ Balanced(t) /\ Len(t) = Len(a) + 1 + Len(b) /\ Len(a) \in Nat /\ Len(b) \in Nat
            /\ SubSeq(t, 1, k - 1) = a /\ SubSeq(t, k + 1, Len(t)) = b
            /\ t[Len(t)] # "BETWEEN"
            /\ Tops(t, w) = {k} /\ \A v \in {"OR", "AND"} \ {w} : Tops(t, v) = {}
<1> DEFINE p == <<w>>
           u == a \o p
           t == u \o b
           k == Len(a) + 1
<1>1. w \in Words
  BY DEF Words
<1>2. p \in Texts /\ Len(p) = 1 /\ p[1] = w
  BY <1>1, Word
<1>3. a \in Texts /\ b \in Texts /\ Balanced(a) /\ Balanced(b) /\ Depth(a, Len(a)) = 0
  BY DEF Solid, Balanced
<1>4. \A i \in 0..1 : Depth(p, i) = 0
  BY <1>2, DepthFlat
<1>5. Balanced(p)
  BY <1>2, <1>4 DEF Balanced
<1> HIDE DEF p
<1>6. /\ u \in Texts /\ Len(u) = k /\ Len(a) \in Nat
      /\ \A i \in 1..Len(a) : u[i] = a[i]
      /\ \A i \in 1..Len(p) : u[Len(a) + i] = p[i]
  <2>1. /\ u \in Texts /\ Len(u) = Len(a) + Len(p) /\ Len(a) \in Nat
        /\ \A i \in 1..Len(a) : u[i] = a[i]
        /\ \A i \in 1..Len(p) : u[Len(a) + i] = p[i]
    BY <1>2, <1>3, Glue
  <2> HIDE DEF u
  <2>2. QED BY <1>2, <2>1
<1>7. /\ \A i \in 0..Len(a) : Depth(u, i) = Depth(a, i)
      /\ \A i \in 0..Len(p) : Depth(u, Len(a) + i) = Depth(a, Len(a)) + Depth(p, i)
  BY <1>2, <1>3, DepthGlue
<1>8. Balanced(u)
  BY <1>3, <1>5, BalancedGlue
<1> HIDE DEF u
<1>9. /\ t \in Texts /\ Len(t) = Len(u) + Len(b) /\ Len(b) \in Nat
      /\ \A i \in 1..Len(u) : t[i] = u[i]
      /\ \A i \in 1..Len(b) : t[Len(u) + i] = b[i]
  <2>1. u \in Texts /\ b \in Texts
    BY <1>3, <1>6
  <2>2. QED BY <2>1, Glue
<1>10. /\ \A i \in 0..Len(u) : Depth(t, i) = Depth(u, i)
       /\ \A i \in 0..Len(b) : Depth(t, Len(u) + i) = Depth(u, Len(u)) + Depth(b, i)
  BY <1>3, <1>6, DepthGlue
<1>11. Balanced(t)
  BY <1>3, <1>8, BalancedGlue
<1> HIDE DEF t
<1>12. u[k] = w /\ Depth(u, k) = 0
  <2>1. 1 \in 1..Len(p) /\ 1 \in 0..Len(p) /\ 1 \in 0..1
    BY <1>2
  <2>2. u[k] = w
    BY <1>2, <1>6, <2>1
  <2>3. Depth(u, k) = Depth(a, Len(a)) + Depth(p, 1)
    BY <1>7, <2>1
  <2>4. QED BY <1>3, <1>4, <2>1, <2>2, <2>3
<1>13. Len(t) = Len(a) + 1 + Len(b) /\ Len(u) = Len(a) + 1 /\ k \in 1..Len(t) /\ Len(a) > 0 /\ Len(b) > 0
  <2>1. Len(a) > 0 /\ Len(b) > 0
    BY <1>3 DEF Solid, Texts
  <2>2. QED BY <1>6, <1>9, <2>1
<1>14. ASSUME NEW i \in 1..Len(a) PROVE t[i] = a[i] /\ Depth(t, i) = Depth(a, i)
  <2>1. i \in 1..Len(u) /\ i \in 0..Len(u) /\ i \in 0..Len(a)
    BY <1>6
  <2>2. QED BY <1>6, <1>7, <1>9, <1>10, <2>1
<1>15. ASSUME NEW i \in 1..Len(b) PROVE t[k + i] = b[i] /\ Depth(t, k + i) = Depth(b, i)
  <2>1. i \in 0..Len(b) /\ i \in Nat /\ k + i = Len(u) + i
    BY <1>6, <1>9
  <2>2. Depth(b, i) \in Int
    BY <1>3, <2>1, DepthNumber
  <2>3. Depth(t, k + i) = 0 + Depth(b, i)
    BY <1>6, <1>10, <1>12, <2>1
  <2>4. QED BY <1>9, <2>1, <2>2, <2>3
<1>16. t[k] = w /\ Depth(t, k) = 0
  <2>1. k \in 1..Len(u) /\ k \in 0..Len(u)
    BY <1>6
  <2>2. QED BY <1>9, <1>10, <1>12, <2>1
<1>17. SubSeq(t, 1, k - 1) = a
  <2>1. SubSeq(t, 1, k - 1) \in Texts /\ Len(SubSeq(t, 1, k - 1)) = Len(a)
    <3>1. 1 \in 1..(Len(t) + 1) /\ k - 1 \in 0..Len(t)
      BY <1>6, <1>9, <1>13
    <3>2. SubSeq(t, 1, k - 1) \in Texts /\ Len(SubSeq(t, 1, k - 1)) = IF 1 <= k - 1 THEN k - 1 - 1 + 1 ELSE 0
      BY <1>9, <3>1, Parts
    <3>3. QED BY <1>6, <1>13, <3>2
  <2>2. ASSUME NEW i \in 1..Len(a) PROVE SubSeq(t, 1, k - 1)[i] = a[i]
    <3>1. SubSeq(t, 1, k - 1)[i] = t[i]
      BY <1>6, <1>9, <1>13 DEF Texts
    <3>2. QED BY <1>14, <3>1
  <2>3. QED BY <1>3, <2>1, <2>2, SameTexts
<1>18. SubSeq(t, k + 1, Len(t)) = b
  <2>1. SubSeq(t, k + 1, Len(t)) \in Texts /\ Len(SubSeq(t, k + 1, Len(t))) = Len(b)
    <3>1. k + 1 \in 1..(Len(t) + 1) /\ Len(t) \in 0..Len(t)
      BY <1>6, <1>9, <1>13
    <3>2. SubSeq(t, k + 1, Len(t)) \in Texts /\ Len(SubSeq(t, k + 1, Len(t))) = IF k + 1 <= Len(t) THEN Len(t) - (k + 1) + 1 ELSE 0
      BY <1>9, <3>1, Parts
    <3>3. QED BY <1>6, <1>9, <1>13, <3>2
  <2>2. ASSUME NEW i \in 1..Len(b) PROVE SubSeq(t, k + 1, Len(t))[i] = b[i]
    <3>1. SubSeq(t, k + 1, Len(t))[i] = t[k + i]
      BY <1>6, <1>9, <1>13 DEF Texts
    <3>2. QED BY <1>15, <3>1
  <2>3. QED BY <1>3, <2>1, <2>2, SameTexts
<1>19. t[Len(t)] # "BETWEEN"
  <2>1. Len(b) \in 1..Len(b) /\ Len(t) = k + Len(b)
    BY <1>9, <1>13
  <2>2. t[Len(t)] = b[Len(b)]
    BY <1>15, <2>1
  <2>3. QED BY <2>2 DEF Solid, TidyEnd
<1>20. DOMAIN t = 1..Len(t)
  BY <1>9 DEF Texts
<1>21. ASSUME NEW i \in DOMAIN t, i # k, t[i] \in {"OR", "AND"}, Depth(t, i) = 0
       PROVE  i > 2 /\ t[i - 2] = "BETWEEN"
  <2>1. CASE i \in 1..Len(a)
    <3>1. i > 2 /\ a[i - 2] = "BETWEEN"
      BY <1>14, <1>21, <2>1 DEF Solid, Quiet
    <3>2. i - 2 \in 1..Len(a)
      BY <2>1, <3>1
    <3>3. QED BY <1>14, <3>1, <3>2
  <2>2. CASE i \notin 1..Len(a)
    <3>1. PICK j \in 1..Len(b) : i = k + j
      <4>1. i - k \in 1..Len(b) /\ i = k + (i - k)
        BY <1>6, <1>9, <1>13, <1>20, <1>21, <2>2
      <4>2. QED BY <4>1
    <3>2. j > 2 /\ b[j - 2] = "BETWEEN"
      BY <1>15, <1>21, <3>1 DEF Solid, Quiet
    <3>3. j - 2 \in 1..Len(b) /\ i - 2 = k + (j - 2)
      BY <1>6, <3>1, <3>2
    <3>4. t[i - 2] = b[j - 2]
      BY <1>15, <3>3
    <3>5. QED BY <1>6, <3>1, <3>2, <3>4
  <2>3. QED BY <2>1, <2>2
<1>22. k > 2 => t[k - 2] # "BETWEEN"
  <2>1. SUFFICES ASSUME k > 2 PROVE t[k - 2] # "BETWEEN"
    OBVIOUS
  <2>2. Len(a) > 1 /\ Len(a) - 1 \in 1..Len(a) /\ k - 2 = Len(a) - 1
    BY <1>6, <2>1
  <2>3. t[k - 2] = a[Len(a) - 1]
    BY <1>14, <2>2
  <2>4. QED BY <2>2, <2>3 DEF Solid, TidyEnd
<1>23. Tops(t, w) = {k}
  <2>1. k \in Tops(t, w)
    BY <1>13, <1>16, <1>20, <1>22 DEF Tops
  <2>2. \A i \in Tops(t, w) : i = k
    BY <1>21 DEF Tops
  <2>3. QED BY <2>1, <2>2
<1>24. ASSUME NEW v \in {"OR", "AND"} \ {w} PROVE Tops(t, v) = {}
  <2>1. ASSUME NEW i \in Tops(t, v) PROVE FALSE
    <3>1. i \in DOMAIN t /\ t[i] = v /\ Depth(t, i) = 0 /\ (i > 2 => t[i - 2] # "BETWEEN")
      BY <2>1 DEF Tops
    <3>2. i # k
      BY <1>16, <3>1
    <3>3. QED BY <1>21, <3>1, <3>2
  <2>2. QED BY <2>1
<1>25. t = Between3(a, w, b)
  BY DEF t, u, p, Between3
<1> HIDE DEF k
<1>26. /\ Balanced(t) /\ Len(t) = Len(a) + 1 + Len(b) /\ Len(a) \in Nat /\ Len(b) \in Nat
       /\ SubSeq(t, 1, k - 1) = a /\ SubSeq(t, k + 1, Len(t)) = b
       /\ t[Len(t)] # "BETWEEN"
       /\ Tops(t, w) = {k} /\ \A v \in {"OR", "AND"} \ {w} : Tops(t, v) = {}
  BY <1>6, <1>9, <1>11, <1>13, <1>17, <1>18, <1>19, <1>23, <1>24
<1>27. k = Len(a) + 1
  BY DEF k
<1>28. QED BY <1>25, <1>26, <1>27

LEMMA ReadJoined ==
  ASSUME NEW a, NEW b, Solid(a), Solid(b), NEW w \in {"OR", "AND"}, NEW r \in Cells
  PROVE  /\ Solid(Joined(a, w, b))
         /\ Reading[Joined(a, w, b)][r] =
              IF w = "OR" THEN Or3(Reading[a][r], Reading[b][r]) ELSE And3(Reading[a][r], Reading[b][r])
<1> DEFINE t == Between3(a, w, b)
           k == Len(a) + 1
<1>1. /\ Balanced(t) /\ Len(t) = Len(a) + 1 + Len(b) /\ Len(a) \in Nat /\ Len(b) \in Nat
      /\ SubSeq(t, 1, k - 1) = a /\ SubSeq(t, k + 1, Len(t)) = b
      /\ t[Len(t)] # "BETWEEN"
      /\ Tops(t, w) = {k} /\ \A v \in {"OR", "AND"} \ {w} : Tops(t, v) = {}
  BY TopBetween
<1>2. Joined(a, w, b) = Enclosed(t)
  BY DEF Joined, Enclosed, Between3
<1> HIDE DEF t, k
<1>3. t # <<>> /\ Len(t) # 0 /\ t \in Texts
  BY <1>1 DEF Balanced
<1>4. Solid(Enclosed(t)) /\ Reading[Enclosed(t)][r] = Reading[t][r]
  BY <1>1, <1>3, SolidEnclosed, ReadEnclosed
<1>5. Reading[t] = Parsed(Reading, t)
  BY <1>3, ReadingIs
<1>6. CASE w = "OR"
  <2>1. Tops(t, "OR") = {k} /\ (CHOOSE i \in {k} : TRUE) = k
    BY <1>1, <1>6
  <2>2. Reading[t][r] = Or3(Reading[SubSeq(t, 1, k - 1)][r], Reading[SubSeq(t, k + 1, Len(t))][r])
    BY <1>3, <1>5, <2>1 DEF Parsed
  <2>3. QED BY <1>1, <1>2, <1>4, <1>6, <2>2
<1>7. CASE w = "AND"
  <2>1. Tops(t, "AND") = {k} /\ (CHOOSE i \in {k} : TRUE) = k /\ Tops(t, "OR") = {}
    BY <1>1, <1>7
  <2>2. Reading[t][r] = And3(Reading[SubSeq(t, 1, k - 1)][r], Reading[SubSeq(t, k + 1, Len(t))][r])
    BY <1>3, <1>5, <2>1 DEF Parsed
  <2>3. QED BY <1>1, <1>2, <1>4, <1>7, <2>2
<1>8. QED BY <1>6, <1>7

-----------------------------------------------------------------------------
(* Values at their question marks.                                         *)

Marked(t) == Times(t, "?", Len(t))

Fill(t, bs) == [i \in DOMAIN t |-> IF t[i] = "?" THEN bs[Times(t, "?", i)] ELSE t[i]]

Fit(t, bs) == t \in Texts /\ bs \in Texts /\ Len(bs) = Marked(t)

LEMMA BoundIsFill ==
  ASSUME NEW c
  PROVE  Bound(c) = Fill(c.text, c.binders)
BY DEF Bound, Fill, Times

LEMMA MarkOf ==
  ASSUME NEW t \in Texts, NEW i \in 1..Len(t), t[i] = "?"
  PROVE  Times(t, "?", i) \in 1..Marked(t)
<1>1. Times(t, "?", i) = Times(t, "?", i - 1) + IF t[i] = "?" THEN 1 ELSE 0
  BY TimesNext
<1>2. i - 1 \in Nat /\ i \in Nat /\ Len(t) \in Nat /\ i <= Len(t)
  BY DEF Texts
<1>3. Times(t, "?", i - 1) \in Nat
  BY <1>2, TimesNumber
<1>4. Times(t, "?", i) \in Nat
  BY <1>2, TimesNumber
<1>5. Marked(t) \in Nat
  BY <1>2, TimesNumber DEF Marked
<1>6. Times(t, "?", i) <= Marked(t)
  <2> DEFINE K == {k \in 1..i : t[k] = "?"}
             N == {k \in 1..Len(t) : t[k] = "?"}
  <2>1. K \subseteq N /\ N \subseteq 1..Len(t)
    BY <1>2
  <2>2. Times(t, "?", i) = Cardinality(K) /\ Marked(t) = Cardinality(N)
    BY DEF Times, Marked
  <2>3. IsFiniteSet(1..Len(t))
    BY <1>2, FS_Interval
  <2> HIDE DEF K, N
  <2>4. IsFiniteSet(N)
    BY <2>1, <2>3, FS_Subset
  <2>5. QED BY <2>1, <2>2, <2>4, FS_Subset
<1>7. QED BY <1>1, <1>3, <1>4, <1>5, <1>6

LEMMA FillType ==
  ASSUME NEW t, NEW bs, Fit(t, bs)
  PROVE  Fill(t, bs) \in Texts /\ Len(Fill(t, bs)) = Len(t)
<1>1. t \in Texts /\ bs \in Texts /\ Len(bs) = Marked(t) /\ DOMAIN t = 1..Len(t) /\ Len(t) \in Nat
  BY DEF Fit, Texts
<1>2. ASSUME NEW i \in 1..Len(t) PROVE (IF t[i] = "?" THEN bs[Times(t, "?", i)] ELSE t[i]) \in Words
  <2>1. CASE t[i] = "?"
    <3>1. Times(t, "?", i) \in 1..Len(bs)
      BY <1>1, <2>1, MarkOf
    <3>2. QED BY <1>1, <2>1, <3>1 DEF Texts
  <2>2. CASE t[i] # "?"
    BY <1>1, <2>2 DEF Texts
  <2>3. QED BY <2>1, <2>2
<1>3. Fill(t, bs) = [i \in 1..Len(t) |-> IF t[i] = "?" THEN bs[Times(t, "?", i)] ELSE t[i]]
  BY <1>1 DEF Fill
<1>4. QED BY <1>1, <1>2, <1>3 DEF Texts

LEMMA FillGlue ==
  ASSUME NEW a, NEW b, NEW ba, NEW bb, Fit(a, ba), Fit(b, bb)
  PROVE  Fit(a \o b, ba \o bb) /\ Fill(a \o b, ba \o bb) = Fill(a, ba) \o Fill(b, bb)
<1> DEFINE t == a \o b
           bs == ba \o bb
           f == Fill(a, ba)
           g == Fill(b, bb)
           h == f \o g
           u == Fill(t, bs)
<1>1. a \in Texts /\ b \in Texts /\ ba \in Texts /\ bb \in Texts /\ Len(ba) = Marked(a) /\ Len(bb) = Marked(b)
  BY DEF Fit
<1>2. /\ t \in Texts /\ Len(t) = Len(a) + Len(b) /\ Len(a) \in Nat /\ Len(b) \in Nat
      /\ \A i \in 1..Len(a) : t[i] = a[i]
      /\ \A i \in 1..Len(b) : t[Len(a) + i] = b[i]
  BY <1>1, Glue
<1>3. /\ bs \in Texts /\ Len(bs) = Len(ba) + Len(bb) /\ Len(ba) \in Nat /\ Len(bb) \in Nat
      /\ \A i \in 1..Len(ba) : bs[i] = ba[i]
      /\ \A i \in 1..Len(bb) : bs[Len(ba) + i] = bb[i]
  BY <1>1, Glue
<1>4. ASSUME NEW i \in 0..Len(a) PROVE Times(t, "?", i) = Times(a, "?", i)
  BY <1>1, TimesLeft
<1>5. ASSUME NEW i \in 0..Len(b) PROVE Times(t, "?", Len(a) + i) = Marked(a) + Times(b, "?", i)
  <2>1. Times(a \o b, "?", Len(a) + i) = Times(a, "?", Len(a)) + Times(b, "?", i)
    BY <1>1, TimesRight
  <2>2. QED BY <2>1 DEF Marked
<1> HIDE DEF t, bs
<1>6. Fit(t, bs)
  <2>1. Len(b) \in 0..Len(b)
    BY <1>2
  <2>2. Times(t, "?", Len(t)) = Marked(a) + Times(b, "?", Len(b))
    BY <1>2, <1>5, <2>1
  <2>3. Marked(t) = Marked(a) + Marked(b)
    BY <2>2 DEF Marked
  <2>4. QED BY <1>1, <1>2, <1>3, <2>3 DEF Fit
<1>7. u \in Texts /\ Len(u) = Len(t) /\ f \in Texts /\ Len(f) = Len(a) /\ g \in Texts /\ Len(g) = Len(b)
  BY <1>6, FillType
<1>8. /\ \A i \in 1..Len(t) : u[i] = IF t[i] = "?" THEN bs[Times(t, "?", i)] ELSE t[i]
      /\ \A i \in 1..Len(a) : f[i] = IF a[i] = "?" THEN ba[Times(a, "?", i)] ELSE a[i]
      /\ \A i \in 1..Len(b) : g[i] = IF b[i] = "?" THEN bb[Times(b, "?", i)] ELSE b[i]
  <2>1. DOMAIN t = 1..Len(t) /\ DOMAIN a = 1..Len(a) /\ DOMAIN b = 1..Len(b)
    BY <1>1, <1>2 DEF Texts
  <2>2. QED BY <2>1 DEF Fill
<1> HIDE DEF u, f, g
<1>9. /\ h \in Texts /\ Len(h) = Len(f) + Len(g)
      /\ \A i \in 1..Len(f) : h[i] = f[i]
      /\ \A i \in 1..Len(g) : h[Len(f) + i] = g[i]
  BY <1>7, Glue
<1> HIDE DEF h
<1>10. ASSUME NEW i \in 1..Len(a) PROVE u[i] = h[i]
  <2>1. i \in 1..Len(t) /\ i \in 0..Len(a) /\ t[i] = a[i]
    BY <1>2
  <2>2. Times(t, "?", i) = Times(a, "?", i)
    BY <1>4, <2>1
  <2>3. a[i] = "?" => Times(a, "?", i) \in 1..Len(ba)
    BY <1>1, MarkOf
  <2>4. a[i] = "?" => bs[Times(a, "?", i)] = ba[Times(a, "?", i)]
    BY <1>3, <2>3
  <2>5. u[i] = f[i]
    BY <1>8, <2>1, <2>2, <2>4
  <2>6. h[i] = f[i]
    BY <1>7, <1>9
  <2>7. QED BY <2>5, <2>6
<1>11. ASSUME NEW i \in 1..Len(b) PROVE u[Len(a) + i] = h[Len(a) + i]
  <2>1. Len(a) + i \in 1..Len(t) /\ i \in 0..Len(b) /\ t[Len(a) + i] = b[i]
    BY <1>2
  <2>2. Times(t, "?", Len(a) + i) = Len(ba) + Times(b, "?", i)
    BY <1>1, <1>5, <2>1
  <2>3. b[i] = "?" => Times(b, "?", i) \in 1..Len(bb)
    BY <1>1, MarkOf
  <2>4. b[i] = "?" => bs[Len(ba) + Times(b, "?", i)] = bb[Times(b, "?", i)]
    BY <1>3, <2>3
  <2>5. u[Len(a) + i] = g[i]
    BY <1>8, <2>1, <2>2, <2>4
  <2>6. h[Len(a) + i] = g[i]
    BY <1>7, <1>9
  <2>7. QED BY <2>5, <2>6
<1>12. ASSUME NEW i \in 1..Len(h) PROVE u[i] = h[i]
  <2>1. i \in 1..Len(a) \/ (i - Len(a) \in 1..Len(b) /\ i = Len(a) + (i - Len(a)))
    BY <1>2, <1>7, <1>9
  <2>2. QED BY <1>10, <1>11, <2>1
<1>13. u = h
  BY <1>2, <1>7, <1>9, <1>12, SameTexts
<1>14. QED BY <1>6, <1>13 DEF u, h, f, g, t, bs

\* The same with a name for putting texts together.
Glued(a, b) == a \o b

LEMMA FillGlued ==
  ASSUME NEW a, NEW b, NEW ba, NEW bb, Fit(a, ba), Fit(b, bb)
  PROVE  Fit(Glued(a, b), Glued(ba, bb)) /\ Fill(Glued(a, b), Glued(ba, bb)) = Glued(Fill(a, ba), Fill(b, bb))
BY FillGlue DEF Glued

LEMMA NoWords == <<>> \in Texts /\ Len(<<>>) = 0
BY DEF Texts

LEMMA FillWord ==
  ASSUME NEW w \in Words, w # "?"
  PROVE  Fit(<<w>>, <<>>) /\ Fill(<<w>>, <<>>) = <<w>>
<1> DEFINE t == <<w>>
<1>1. t \in Texts /\ Len(t) = 1 /\ t[1] = w
  BY Word
<1> HIDE DEF t
<1>2. 1 \in 1..Len(t) /\ 1 - 1 = 0 /\ DOMAIN t = 1..1
  BY <1>1 DEF Texts
<1>3. Times(t, "?", 1) = Times(t, "?", 1 - 1) + IF t[1] = "?" THEN 1 ELSE 0
  BY <1>1, <1>2, TimesNext
<1>4. Times(t, "?", 0) = 0
  BY <1>1, TimesSteps
<1>5. Marked(t) = 0
  BY <1>1, <1>2, <1>3, <1>4 DEF Marked
<1>6. Fit(t, <<>>)
  BY <1>1, <1>5, NoWords DEF Fit
<1>7. Fill(t, <<>>) \in Texts /\ Len(Fill(t, <<>>)) = Len(t)
  BY <1>6, FillType
<1>8. \A i \in 1..Len(t) : Fill(t, <<>>)[i] = t[i]
  BY <1>1, <1>2 DEF Fill
<1>9. Fill(t, <<>>) = t
  BY <1>1, <1>7, <1>8, SameTexts
<1>10. QED BY <1>6, <1>9 DEF t

\* A value at its mark.
LEMMA FillMark ==
  ASSUME NEW v \in Words
  PROVE  Fit(<<"?">>, <<v>>) /\ Fill(<<"?">>, <<v>>) = <<v>>
<1> DEFINE t == <<"?">>
           b == <<v>>
<1>0. "?" \in Words
  BY DEF Words
<1>1. t \in Texts /\ Len(t) = 1 /\ t[1] = "?"
  BY <1>0, Word, Zenon
<1>2. b \in Texts /\ Len(b) = 1 /\ b[1] = v
  BY Word
<1> HIDE DEF t, b
<1>3. 1 \in 1..Len(t) /\ 1 - 1 = 0 /\ DOMAIN t = 1..1
  BY <1>1 DEF Texts
<1>4. Times(t, "?", 1) = Times(t, "?", 1 - 1) + IF t[1] = "?" THEN 1 ELSE 0
  BY <1>1, <1>3, TimesNext
<1>5. Times(t, "?", 0) = 0
  BY <1>1, TimesSteps
<1>6. Times(t, "?", 1) = 1 /\ Marked(t) = 1
  BY <1>1, <1>3, <1>4, <1>5 DEF Marked
<1>7. Fit(t, b)
  BY <1>1, <1>2, <1>6 DEF Fit
<1>8. Fill(t, b) \in Texts /\ Len(Fill(t, b)) = Len(t)
  BY <1>7, FillType
<1>9. \A i \in 1..Len(b) : Fill(t, b)[i] = b[i]
  BY <1>1, <1>2, <1>3, <1>6 DEF Fill
<1>10. Fill(t, b) = b
  BY <1>1, <1>2, <1>8, <1>9, SameTexts
<1>11. QED BY <1>7, <1>10 DEF t, b

LEMMA NoMore ==
  ASSUME NEW t \in Texts
  PROVE  Glued(t, <<>>) = t /\ Glued(<<>>, t) = t
BY DEF Texts, Glued

LEMMA FillEnclosed ==
  ASSUME NEW s, NEW bs, Fit(s, bs)
  PROVE  Fit(Enclosed(s), bs) /\ Fill(Enclosed(s), bs) = Enclosed(Fill(s, bs))
<1> DEFINE p == <<"(">>
           q == <<")">>
<1>1. "(" \in Words /\ ")" \in Words /\ "(" # "?" /\ ")" # "?"
  BY DEF Words
<1>2. Fit(p, <<>>) /\ Fill(p, <<>>) = p /\ Fit(q, <<>>) /\ Fill(q, <<>>) = q
  BY <1>1, FillWord, Zenon
<1>3. Enclosed(s) = Glued(Glued(p, s), q) /\ Enclosed(Fill(s, bs)) = Glued(Glued(p, Fill(s, bs)), q)
  BY DEF Enclosed, Glued
<1> HIDE DEF p, q
<1>4. Glued(<<>>, bs) = bs /\ Glued(bs, <<>>) = bs
  BY NoMore DEF Fit
<1>5. Fit(Glued(p, s), bs) /\ Fill(Glued(p, s), bs) = Glued(p, Fill(s, bs))
  BY <1>2, <1>4, FillGlued
<1>6. Fit(Glued(Glued(p, s), q), bs) /\ Fill(Glued(Glued(p, s), q), bs) = Glued(Glued(p, Fill(s, bs)), q)
  BY <1>2, <1>4, <1>5, FillGlued
<1>7. QED BY <1>3, <1>6

LEMMA FillJoined ==
  ASSUME NEW a, NEW b, NEW ba, NEW bb, Fit(a, ba), Fit(b, bb), NEW w \in {"OR", "AND"}
  PROVE  /\ Fit(Joined(a, w, b), ba \o bb)
         /\ Fill(Joined(a, w, b), ba \o bb) = Joined(Fill(a, ba), w, Fill(b, bb))
<1> DEFINE p == <<w>>
           t == Glued(Glued(a, p), b)
           bs == Glued(ba, bb)
           u == Glued(Glued(Fill(a, ba), p), Fill(b, bb))
<1>1. w \in Words /\ w # "?"
  BY DEF Words
<1>2. Fit(p, <<>>) /\ Fill(p, <<>>) = p
  BY <1>1, FillWord
<1>3. Joined(a, w, b) = Enclosed(t) /\ Joined(Fill(a, ba), w, Fill(b, bb)) = Enclosed(u) /\ ba \o bb = bs
  BY DEF Joined, Enclosed, Glued
<1> HIDE DEF p
<1>4. Glued(ba, <<>>) = ba
  BY NoMore DEF Fit
<1>5. Fit(Glued(a, p), ba) /\ Fill(Glued(a, p), ba) = Glued(Fill(a, ba), p)
  BY <1>2, <1>4, FillGlued
<1>6. Fit(t, bs) /\ Fill(t, bs) = u
  BY <1>5, FillGlued
<1>7. Fit(Enclosed(t), bs) /\ Fill(Enclosed(t), bs) = Enclosed(Fill(t, bs))
  BY <1>6, FillEnclosed
<1> HIDE DEF t, u, bs
<1>8. QED BY <1>3, <1>6, <1>7

-----------------------------------------------------------------------------
(* Leaves.                                                                 *)

Piece(t, bs, f) == Fit(t, bs) /\ Fill(t, bs) = f

LEMMA PieceGlued ==
  ASSUME NEW a, NEW b, NEW ba, NEW bb, NEW f, NEW g, Piece(a, ba, f), Piece(b, bb, g)
  PROVE  Piece(Glued(a, b), Glued(ba, bb), Glued(f, g))
BY FillGlued DEF Piece

LEMMA PieceWord ==
  ASSUME NEW w \in Words, w # "?"
  PROVE  Piece(<<w>>, <<>>, <<w>>)
BY FillWord DEF Piece

LEMMA PieceMark ==
  ASSUME NEW v \in Words
  PROVE  Piece(<<"?">>, <<v>>, <<v>>)
BY FillMark DEF Piece

LEMMA PieceFill ==
  ASSUME NEW t, NEW bs, NEW f, Piece(t, bs, f)
  PROVE  t \in Texts /\ bs \in Texts /\ f \in Texts
BY FillType DEF Piece, Fit

Three == {"T", "F", "U"}

Conditions ==
  [text : Texts, binders : Texts, ok : BOOLEAN, means : [Cells -> Three], valid : BOOLEAN, odd : BOOLEAN]

\* What holds of every condition that is built.
Sound(c) ==
  /\ c.ok => c.valid
  /\ ~c.odd => Fit(c.text, c.binders)
  /\ c.ok /\ ~c.odd /\ c.text = <<>> => \A r \in Cells : c.means[r] = "T"
  /\ c.ok /\ ~c.odd /\ c.text # <<>> =>
       /\ Solid(Fill(c.text, c.binders))
       /\ \A r \in Cells : Reading[Fill(c.text, c.binders)][r] = c.means[r]

Goods == {c \in Conditions : Sound(c)}

\* Words that name no column.
Fixed(t) == \A i \in 1..Len(t) : Plain(t[i]) \notin {"tag", "level"}

\* The word a leaf begins with.
Heads == {"level", "t.level", "1"}

LEMMA HeadWord ==
  ASSUME NEW c \in Heads
  PROVE  c \in Words /\ c \notin {"(", ")", "OR", "AND", "BETWEEN", "NOT", "?"}
<1>1. "level" \in Columns /\ "1" \in Digits
  BY DEF Columns, Digits
<1>2. Dotted("level") = "t.level"
  BY DEF Dotted
<1>3. "t.level" \in {Dotted(d) : d \in Columns}
  BY <1>1, <1>2
<1>4. QED BY <1>1, <1>3 DEF Heads, Words

LEMMA ReadTest ==
  ASSUME NEW c \in Heads, NEW u, Solid(u), u[1] # "NOT", NEW r \in Cells
  PROVE  /\ Solid(<<c>> \o u)
         /\ Reading[<<c>> \o u][r] = Test(Operand(c, r), [i \in 1..Len(u) |-> Operand(u[i], r)])
<1> DEFINE p == <<c>>
           t == p \o u
<1>1. c \in Words /\ c \notin {"(", ")", "OR", "AND", "BETWEEN", "NOT", "?"}
  BY HeadWord
<1>2. Solid(p) /\ p \in Texts /\ Len(p) = 1 /\ p[1] = c
  BY <1>1, SolidWord, Word
<1> HIDE DEF p
<1>3. Solid(t)
  BY <1>2, SolidGlue
<1>4. u \in Texts /\ u # <<>>
  BY DEF Solid, Balanced
<1>5. /\ t \in Texts /\ Len(t) = Len(p) + Len(u) /\ Len(u) \in Nat
      /\ \A i \in 1..Len(p) : t[i] = p[i]
      /\ \A i \in 1..Len(u) : t[Len(p) + i] = u[i]
  BY <1>2, <1>4, Glue
<1> HIDE DEF t
<1>6. Len(u) > 0
  BY <1>4, <1>5 DEF Texts
<1>7. t[1] = c /\ Len(t) = 1 + Len(u) /\ \A i \in 1..Len(u) : t[1 + i] = u[i]
  BY <1>2, <1>5
<1>8. t[2] = u[1] /\ Len(t) - 1 = Len(u)
  BY <1>5, <1>6, <1>7
<1>9. t # <<>> /\ Tops(t, "OR") = {} /\ Tops(t, "AND") = {}
  BY <1>3, NoTops DEF Solid
<1>10. Reading[t][r] = Test(Operand(t[1], r), [i \in 1..(Len(t) - 1) |-> Operand(t[i + 1], r)])
  <2>1. t[1] # "NOT" /\ t[1] # "(" /\ t[2] # "NOT"
    BY <1>1, <1>7, <1>8
  <2>2. QED BY <1>5, <1>9, <2>1, ReadingAt
<1>11. [i \in 1..(Len(t) - 1) |-> Operand(t[i + 1], r)] = [i \in 1..Len(u) |-> Operand(u[i], r)]
  <2>1. \A i \in 1..Len(u) : t[i + 1] = u[i]
    BY <1>5, <1>7
  <2>2. QED BY <1>8, <2>1
<1>12. QED BY <1>3, <1>7, <1>10, <1>11 DEF t, p

LEMMA ReadNotTest ==
  ASSUME NEW c \in Heads, NEW u, Solid(u), NEW r \in Cells
  PROVE  /\ Solid(<<c>> \o (<<"NOT">> \o u))
         /\ Reading[<<c>> \o (<<"NOT">> \o u)][r] = Not3(Test(Operand(c, r), u))
<1> DEFINE p == <<c>>
           q == <<"NOT">>
           v == q \o u
           t == p \o v
<1>1. c \in Words /\ c \notin {"(", ")", "OR", "AND", "BETWEEN", "NOT", "?"}
  BY HeadWord
<1>2. Solid(p) /\ p \in Texts /\ Len(p) = 1 /\ p[1] = c
  BY <1>1, SolidWord, Word
<1>3. q \in Texts /\ Len(q) = 1 /\ q[1] = "NOT"
  <2>1. "NOT" \in Words
    BY DEF Words
  <2>2. QED BY <2>1, Word, Zenon
<1>4. Solid(v)
  BY ReadNot
<1> HIDE DEF p, q
<1>5. u \in Texts /\ u # <<>>
  BY DEF Solid, Balanced
<1>6. /\ v \in Texts /\ Len(v) = Len(q) + Len(u) /\ Len(u) \in Nat
      /\ \A i \in 1..Len(q) : v[i] = q[i]
      /\ \A i \in 1..Len(u) : v[Len(q) + i] = u[i]
  BY <1>3, <1>5, Glue
<1> HIDE DEF v
<1>7. Solid(t)
  BY <1>2, <1>4, SolidGlue
<1>8. /\ t \in Texts /\ Len(t) = Len(p) + Len(v)
      /\ \A i \in 1..Len(p) : t[i] = p[i]
      /\ \A i \in 1..Len(v) : t[Len(p) + i] = v[i]
  BY <1>2, <1>6, Glue
<1> HIDE DEF t
<1>9. Len(v) = 1 + Len(u) /\ v[1] = "NOT" /\ \A i \in 1..Len(u) : v[1 + i] = u[i]
  BY <1>3, <1>6
<1>10. Len(t) = 2 + Len(u) /\ t[1] = c /\ \A i \in 1..Len(v) : t[1 + i] = v[i]
  BY <1>2, <1>6, <1>8, <1>9
<1>11. t[2] = "NOT"
  <2>1. 1 \in 1..Len(v) /\ 1 + 1 = 2
    BY <1>6, <1>9
  <2>2. QED BY <1>9, <1>10, <2>1
<1>12. ASSUME NEW i \in 1..Len(u) PROVE t[2 + i] = u[i]
  <2>1. 1 + i \in 1..Len(v) /\ 2 + i = 1 + (1 + i)
    BY <1>6, <1>9
  <2>2. t[1 + (1 + i)] = v[1 + i]
    BY <1>10, <2>1
  <2>3. QED BY <1>9, <2>1, <2>2
<1>13. t # <<>> /\ Tops(t, "OR") = {} /\ Tops(t, "AND") = {}
  BY <1>7, NoTops DEF Solid
<1>14. Reading[t][r] = Not3(Test(Operand(t[1], r), SubSeq(t, 3, Len(t))))
  <2>1. t[1] # "NOT" /\ t[1] # "(" /\ t[2] = "NOT" /\ Len(t) > 1
    BY <1>1, <1>6, <1>10, <1>11
  <2>2. QED BY <1>8, <1>13, <2>1, ReadingAt
<1>15. SubSeq(t, 3, Len(t)) = u
  <2>1. SubSeq(t, 3, Len(t)) \in Texts /\ Len(SubSeq(t, 3, Len(t))) = Len(u)
    <3>1. 3 \in 1..(Len(t) + 1) /\ Len(t) \in 0..Len(t)
      BY <1>6, <1>10
    <3>2. SubSeq(t, 3, Len(t)) \in Texts /\ Len(SubSeq(t, 3, Len(t))) = IF 3 <= Len(t) THEN Len(t) - 3 + 1 ELSE 0
      BY <1>8, <3>1, Parts
    <3>3. QED BY <1>6, <1>10, <3>2
  <2>2. ASSUME NEW i \in 1..Len(u) PROVE SubSeq(t, 3, Len(t))[i] = u[i]
    <3>1. SubSeq(t, 3, Len(t))[i] = t[2 + i]
      BY <1>6, <1>8, <1>10 DEF Texts
    <3>2. QED BY <1>12, <3>1
  <2>3. QED BY <1>5, <2>1, <2>2, SameTexts
<1>16. QED BY <1>7, <1>10, <1>14, <1>15 DEF t, v, p, q

LEMMA ConditionGood ==
  ASSUME NEW t, NEW bs, NEW m \in [Cells -> Three], Fit(t, bs), Solid(Fill(t, bs)),
         \A r \in Cells : Reading[Fill(t, bs)][r] = m[r]
  PROVE  Condition(t, bs, m) \in Goods
<1>1. t \in Texts /\ bs \in Texts
  BY DEF Fit
<1>2. Len(Fill(t, bs)) = Len(t) /\ Fill(t, bs) \in Texts /\ Fill(t, bs) # <<>>
  BY FillType DEF Solid
<1>3. t # <<>>
  BY <1>1, <1>2 DEF Texts
<1>4. QED BY <1>1, <1>3 DEF Condition, Goods, Conditions, Sound

\* A leaf is a column and a test, or a column, NOT and a test.
LEMMA LeafGood ==
  ASSUME NEW c \in Heads, NEW t, NEW bs, NEW u, Piece(t, bs, u), Solid(u), u[1] # "NOT",
         NEW m \in [Cells -> Three],
         \A r \in Cells : m[r] = Test(Operand(c, r), [i \in 1..Len(u) |-> Operand(u[i], r)])
  PROVE  Condition(<<c>> \o t, bs, m) \in Goods
<1> DEFINE p == <<c>>
<1>1. Piece(p, <<>>, p)
  BY HeadWord, PieceWord
<1>2. \A r \in Cells : Solid(p \o u) /\ Reading[p \o u][r] = m[r]
  BY ReadTest
<1>3. Solid(p \o u)
  <2>1. Solid(p)
    BY HeadWord, SolidWord
  <2> HIDE DEF p
  <2>2. QED BY <2>1, SolidGlue
<1> HIDE DEF p
<1>4. bs \in Texts
  BY PieceFill
<1>5. Glued(<<>>, bs) = bs
  BY <1>4, NoMore
<1>6. Piece(Glued(p, t), bs, Glued(p, u))
  BY <1>1, <1>5, PieceGlued
<1>7. Glued(p, t) = p \o t /\ Glued(p, u) = p \o u
  BY DEF Glued
<1>8. Fit(p \o t, bs) /\ Fill(p \o t, bs) = p \o u
  BY <1>6, <1>7 DEF Piece
<1>9. Condition(p \o t, bs, m) \in Goods
  BY <1>2, <1>3, <1>8, ConditionGood
<1>10. QED BY <1>9 DEF p

LEMMA NotLeafGood ==
  ASSUME NEW c \in Heads, NEW t, NEW bs, NEW u, Piece(t, bs, u), Solid(u),
         NEW m \in [Cells -> Three],
         \A r \in Cells : m[r] = Not3(Test(Operand(c, r), u))
  PROVE  Condition(<<c>> \o (<<"NOT">> \o t), bs, m) \in Goods
<1> DEFINE p == <<c>>
           q == <<"NOT">>
<1>1. Piece(p, <<>>, p)
  BY HeadWord, PieceWord
<1>2. Piece(q, <<>>, q)
  <2>1. "NOT" \in Words /\ "NOT" # "?"
    BY DEF Words
  <2>2. QED BY <2>1, PieceWord, Zenon
<1>3. \A r \in Cells : Reading[p \o (q \o u)][r] = m[r]
  BY ReadNotTest
<1>4. Solid(p \o (q \o u))
  <2>1. Solid(p)
    BY HeadWord, SolidWord
  <2>2. Solid(q)
    <3>1. "NOT" \in Words /\ "NOT" \notin {"(", ")", "OR", "AND", "BETWEEN"}
      BY DEF Words
    <3>2. QED BY <3>1, SolidWord, Zenon
  <2> HIDE DEF p, q
  <2>3. Solid(q \o u)
    BY <2>2, SolidGlue
  <2>4. QED BY <2>1, <2>3, SolidGlue
<1> HIDE DEF p, q
<1>5. bs \in Texts
  BY PieceFill
<1>6. Glued(<<>>, bs) = bs
  BY <1>5, NoMore
<1>7. Piece(Glued(p, Glued(q, t)), bs, Glued(p, Glued(q, u)))
  <2>1. Piece(Glued(q, t), bs, Glued(q, u))
    BY <1>2, <1>6, PieceGlued
  <2>2. QED BY <1>1, <1>6, <2>1, PieceGlued
<1>8. Glued(p, Glued(q, t)) = p \o (q \o t) /\ Glued(p, Glued(q, u)) = p \o (q \o u)
  BY DEF Glued
<1>9. Fit(p \o (q \o t), bs) /\ Fill(p \o (q \o t), bs) = p \o (q \o u)
  BY <1>7, <1>8 DEF Piece
<1>10. Condition(p \o (q \o t), bs, m) \in Goods
  BY <1>3, <1>4, <1>9, ConditionGood
<1>11. QED BY <1>10 DEF p, q

Vals == Digits \cup {Null}

LEMMA ValueWord ==
  ASSUME NEW v \in Vals
  PROVE  v \in Words /\ v # "?" /\ v \notin {"(", ")", "OR", "AND", "BETWEEN"}
         /\ Plain(v) \notin {"tag", "level"}
BY DEF Vals, Digits, Null, Words, Plain

Signs == {"=", "!=", "<", ">="}

LEMMA SignWord ==
  ASSUME NEW w \in Signs \cup {"IS", "NOT", "IN", "NULL", "0", "1"}
  PROVE  w \in Words /\ w # "?" /\ w \notin {"(", ")", "OR", "AND", "BETWEEN"} /\ Plain(w) \notin {"tag", "level"}
BY DEF Signs, Words, Plain, Digits, Null

LEMMA FixedSame ==
  ASSUME NEW u \in Texts, Fixed(u), NEW r \in Cells
  PROVE  [i \in 1..Len(u) |-> Operand(u[i], r)] = u
<1>1. \A i \in 1..Len(u) : Operand(u[i], r) = u[i]
  BY DEF Fixed, Operand
<1>2. [i \in 1..Len(u) |-> u[i]] = u
  BY DEF Texts
<1>3. QED BY <1>1, <1>2

LEMMA TwoWords ==
  ASSUME NEW a \in Words, NEW b \in Words
  PROVE  /\ <<a, b>> \in Texts /\ Len(<<a, b>>) = 2 /\ <<a, b>>[1] = a /\ <<a, b>>[2] = b
         /\ <<a>> \o <<b>> = <<a, b>>
<1> DEFINE p == <<a>>
           q == <<b>>
           t == <<a, b>>
<1>1. t \in Texts
  BY DEF Texts
<1>2. Len(t) = 2 /\ t[1] = a /\ t[2] = b
  OBVIOUS
<1>3. p \in Texts /\ Len(p) = 1 /\ p[1] = a /\ q \in Texts /\ Len(q) = 1 /\ q[1] = b
  BY Word
<1> HIDE DEF p, q, t
<1>4. /\ p \o q \in Texts /\ Len(p \o q) = Len(p) + Len(q)
      /\ \A i \in 1..Len(p) : (p \o q)[i] = p[i]
      /\ \A i \in 1..Len(q) : (p \o q)[Len(p) + i] = q[i]
  BY <1>3, Glue
<1>5. Len(p \o q) = 2 /\ (p \o q)[1] = a /\ (p \o q)[2] = b
  BY <1>3, <1>4
<1>6. \A i \in 1..2 : i = 1 \/ i = 2
  OBVIOUS
<1>7. \A i \in 1..Len(t) : (p \o q)[i] = t[i]
  BY <1>2, <1>5, <1>6
<1>8. p \o q = t
  <2>1. p \o q \in Texts /\ t \in Texts /\ Len(p \o q) = Len(t)
    BY <1>1, <1>2, <1>4, <1>5
  <2>2. QED BY <1>7, <2>1, SameTexts
<1>9. QED BY <1>1, <1>2, <1>8 DEF p, q, t

LEMMA ThreeWords ==
  ASSUME NEW a \in Words, NEW b \in Words, NEW c \in Words
  PROVE  <<a, b>> \o <<c>> = <<a, b, c>>
<1> DEFINE p == <<a, b>>
           q == <<c>>
           t == <<a, b, c>>
<1>1. t \in Texts
  BY DEF Texts
<1>2. Len(t) = 3 /\ t[1] = a /\ t[2] = b /\ t[3] = c
  OBVIOUS
<1>3. p \in Texts /\ Len(p) = 2 /\ p[1] = a /\ p[2] = b
  BY TwoWords
<1>4. q \in Texts /\ Len(q) = 1 /\ q[1] = c
  BY Word
<1> HIDE DEF p, q, t
<1>5. /\ p \o q \in Texts /\ Len(p \o q) = Len(p) + Len(q)
      /\ \A i \in 1..Len(p) : (p \o q)[i] = p[i]
      /\ \A i \in 1..Len(q) : (p \o q)[Len(p) + i] = q[i]
  BY <1>3, <1>4, Glue
<1>6. Len(p \o q) = 3 /\ (p \o q)[1] = a /\ (p \o q)[2] = b /\ (p \o q)[3] = c
  BY <1>3, <1>4, <1>5
<1>7. \A i \in 1..3 : i = 1 \/ i = 2 \/ i = 3
  OBVIOUS
<1>8. \A i \in 1..Len(t) : (p \o q)[i] = t[i]
  BY <1>2, <1>6, <1>7
<1>9. p \o q = t
  <2>1. p \o q \in Texts /\ t \in Texts /\ Len(p \o q) = Len(t)
    BY <1>1, <1>2, <1>5, <1>6
  <2>2. QED BY <1>8, <2>1, SameTexts
<1>10. QED BY <1>9 DEF p, q, t

LEMMA ThreeGlued ==
  ASSUME NEW a \in Words, NEW b \in Words, NEW c \in Words
  PROVE  Glued(Glued(<<a>>, <<b>>), <<c>>) = <<a, b, c>>
<1>1. <<a>> \o <<b>> = <<a, b>>
  BY TwoWords
<1>2. <<a, b>> \o <<c>> = <<a, b, c>>
  BY ThreeWords
<1>3. QED BY <1>1, <1>2 DEF Glued

LEMMA FourGlued ==
  ASSUME NEW a \in Words, NEW b \in Words, NEW c \in Words, NEW d \in Words
  PROVE  Glued(Glued(<<a>>, <<b>>), Glued(<<c>>, <<d>>)) = <<a, b, c, d>>
<1> DEFINE p == Glued(<<a>>, <<b>>)
           q == Glued(<<c>>, <<d>>)
           t == <<a, b, c, d>>
<1>1. t \in Texts
  BY DEF Texts
<1>2. Len(t) = 4 /\ t[1] = a /\ t[2] = b /\ t[3] = c /\ t[4] = d
  OBVIOUS
<1>3. /\ p \in Texts /\ Len(p) = 2 /\ p[1] = a /\ p[2] = b
      /\ q \in Texts /\ Len(q) = 2 /\ q[1] = c /\ q[2] = d
  <2>1. p = <<a, b>> /\ q = <<c, d>>
    BY TwoWords DEF Glued
  <2> HIDE DEF p, q
  <2>2. QED BY <2>1, TwoWords
<1> HIDE DEF p, q, t
<1>4. /\ p \o q \in Texts /\ Len(p \o q) = Len(p) + Len(q)
      /\ \A i \in 1..Len(p) : (p \o q)[i] = p[i]
      /\ \A i \in 1..Len(q) : (p \o q)[Len(p) + i] = q[i]
  BY <1>3, Glue
<1>5. Len(p \o q) = 4 /\ (p \o q)[1] = a /\ (p \o q)[2] = b /\ (p \o q)[3] = c /\ (p \o q)[4] = d
  BY <1>3, <1>4
<1>6. \A i \in 1..4 : i = 1 \/ i = 2 \/ i = 3 \/ i = 4
  OBVIOUS
<1>7. \A i \in 1..Len(t) : (p \o q)[i] = t[i]
  BY <1>2, <1>5, <1>6
<1>8. p \o q \in Texts /\ t \in Texts /\ Len(p \o q) = Len(t)
  BY <1>1, <1>2, <1>4, <1>5
<1>9. p \o q = t
  BY <1>7, <1>8, SameTexts
<1>10. Glued(p, q) = t
  BY <1>9 DEF Glued
<1>11. QED BY <1>10 DEF p, q, t

LEMMA SolidPair ==
  ASSUME NEW a \in Words, NEW b \in Words,
         a \notin {"(", ")", "OR", "AND", "BETWEEN"}, b \notin {"(", ")", "OR", "AND", "BETWEEN"}
  PROVE  Solid(<<a, b>>)
<1>1. Solid(<<a>>) /\ Solid(<<b>>)
  BY SolidWord
<1>2. Solid(<<a>> \o <<b>>)
  BY <1>1, SolidGlue
<1>3. QED BY <1>2, TwoWords

\* A comparison with a value, the test that is left of it, and its meaning.
LEMMA SignTest ==
  ASSUME NEW o \in Signs, NEW v \in Vals
  PROVE  /\ Piece(<<o, "?">>, <<v>>, <<o, v>>) /\ Solid(<<o, v>>) /\ <<o, v>>[1] # "NOT"
         /\ <<o, v>> \in Texts /\ Fixed(<<o, v>>)
         /\ \A x : Test(x, <<o, v>>) = Compared(o, x, v)
<1>1. o \in Words /\ o # "?" /\ o \notin {"(", ")", "OR", "AND", "BETWEEN"} /\ Plain(o) \notin {"tag", "level"} /\ o \notin {"NOT", "IS", "IN"}
  <2>1. o \notin {"NOT", "IS", "IN"}
    BY DEF Signs
  <2>2. QED BY <2>1, SignWord
<1>2. v \in Words /\ v \notin {"(", ")", "OR", "AND", "BETWEEN"} /\ Plain(v) \notin {"tag", "level"}
  BY ValueWord
<1>3. "?" \in Words
  BY DEF Words
<1>4. Piece(<<o>>, <<>>, <<o>>) /\ Piece(<<"?">>, <<v>>, <<v>>)
  BY <1>1, <1>2, PieceWord, PieceMark
<1>5. Piece(Glued(<<o>>, <<"?">>), Glued(<<>>, <<v>>), Glued(<<o>>, <<v>>))
  BY <1>4, PieceGlued
<1>6. Glued(<<o>>, <<"?">>) = <<o, "?">> /\ Glued(<<>>, <<v>>) = <<v>> /\ Glued(<<o>>, <<v>>) = <<o, v>>
  <2>1. <<o>> \o <<"?">> = <<o, "?">> /\ <<o>> \o <<v>> = <<o, v>>
    BY <1>1, <1>2, <1>3, TwoWords
  <2>2. Glued(<<>>, <<v>>) = <<v>>
    BY DEF Glued
  <2>3. Glued(<<o>>, <<"?">>) = <<o>> \o <<"?">> /\ Glued(<<o>>, <<v>>) = <<o>> \o <<v>>
    BY DEF Glued
  <2>4. QED BY <2>1, <2>2, <2>3
<1>7. Solid(<<o, v>>)
  BY <1>1, <1>2, SolidPair
<1>8. <<o, v>> \in Texts /\ Len(<<o, v>>) = 2 /\ <<o, v>>[1] = o /\ <<o, v>>[2] = v
  BY <1>1, <1>2, TwoWords
<1>9. Fixed(<<o, v>>)
  <2>1. \A i \in 1..2 : i = 1 \/ i = 2
    OBVIOUS
  <2>2. QED BY <1>1, <1>2, <1>8, <2>1 DEF Fixed
<1>10. ASSUME NEW x PROVE Test(x, <<o, v>>) = Compared(o, x, v)
  BY <1>1, <1>8 DEF Test
<1>11. QED BY <1>1, <1>5, <1>6, <1>7, <1>8, <1>9, <1>10

LEMMA NullTest ==
  /\ Piece(<<"IS", "NULL">>, <<>>, <<"IS", "NULL">>) /\ Solid(<<"IS", "NULL">>) /\ <<"IS", "NULL">>[1] # "NOT"
  /\ <<"IS", "NULL">> \in Texts /\ Fixed(<<"IS", "NULL">>)
  /\ \A x : Test(x, <<"IS", "NULL">>) = Fact(x = Null)
<1> DEFINE a == "IS"
           b == "NULL"
<1>1. /\ a \in Words /\ a # "?" /\ a \notin {"(", ")", "OR", "AND", "BETWEEN"} /\ Plain(a) \notin {"tag", "level"}
      /\ b \in Words /\ b # "?" /\ b \notin {"(", ")", "OR", "AND", "BETWEEN"} /\ Plain(b) \notin {"tag", "level"}
      /\ a # "NOT" /\ a = "IS"
  BY DEF Words, Plain, Null
<1> HIDE DEF a, b
<1>2. Piece(<<a>>, <<>>, <<a>>) /\ Piece(<<b>>, <<>>, <<b>>)
  BY <1>1, PieceWord
<1>3. Piece(Glued(<<a>>, <<b>>), Glued(<<>>, <<>>), Glued(<<a>>, <<b>>))
  BY <1>2, PieceGlued
<1>4. Glued(<<a>>, <<b>>) = <<a, b>>
  <2>1. <<a>> \o <<b>> = <<a, b>>
    BY <1>1, TwoWords
  <2>2. QED BY <2>1 DEF Glued
<1>5. Glued(<<>>, <<>>) = <<>>
  BY NoMore, NoWords
<1>6. Solid(<<a, b>>)
  BY <1>1, SolidPair
<1>7. <<a, b>> \in Texts /\ Len(<<a, b>>) = 2 /\ <<a, b>>[1] = a /\ <<a, b>>[2] = b
  BY <1>1, TwoWords
<1>8. Fixed(<<a, b>>)
  <2>1. \A i \in 1..2 : i = 1 \/ i = 2
    OBVIOUS
  <2>2. QED BY <1>1, <1>7, <2>1 DEF Fixed
<1>9. ASSUME NEW x PROVE Test(x, <<a, b>>) = Fact(x = Null)
  BY <1>1, <1>7 DEF Test
<1>10. /\ Piece(<<a, b>>, <<>>, <<a, b>>) /\ Solid(<<a, b>>) /\ <<a, b>>[1] # "NOT"
       /\ <<a, b>> \in Texts /\ Fixed(<<a, b>>)
       /\ \A x : Test(x, <<a, b>>) = Fact(x = Null)
  BY <1>1, <1>3, <1>4, <1>5, <1>6, <1>7, <1>8, <1>9
<1>11. QED BY <1>10 DEF a, b

LEMMA ValueTest ==
  LET u == <<"IS", "NOT", "NULL">>
  IN Piece(u, <<>>, u) /\ Solid(u) /\ u[1] # "NOT" /\ u \in Texts /\ Fixed(u) /\ \A x : Test(x, u) = Fact(x # Null)
<1> DEFINE a == "IS"
           b == "NOT"
           c == "NULL"
           u == <<a, b, c>>
<1>1. /\ a \in Words /\ a # "?" /\ a \notin {"(", ")", "OR", "AND", "BETWEEN"} /\ Plain(a) \notin {"tag", "level"}
      /\ b \in Words /\ b # "?" /\ b \notin {"(", ")", "OR", "AND", "BETWEEN"} /\ Plain(b) \notin {"tag", "level"}
      /\ c \in Words /\ c # "?" /\ c \notin {"(", ")", "OR", "AND", "BETWEEN"} /\ Plain(c) \notin {"tag", "level"}
      /\ a # "NOT" /\ a = "IS"
  BY DEF Words, Plain, Null
<1> HIDE DEF a, b, c
<1>2. Piece(<<a>>, <<>>, <<a>>) /\ Piece(<<b>>, <<>>, <<b>>) /\ Piece(<<c>>, <<>>, <<c>>)
  BY <1>1, PieceWord
<1>3. Glued(<<>>, <<>>) = <<>>
  BY NoMore, NoWords
<1>4. Piece(Glued(Glued(<<a>>, <<b>>), <<c>>), <<>>, Glued(Glued(<<a>>, <<b>>), <<c>>))
  <2>1. Piece(Glued(<<a>>, <<b>>), <<>>, Glued(<<a>>, <<b>>))
    BY <1>2, <1>3, PieceGlued
  <2>2. QED BY <1>2, <1>3, <2>1, PieceGlued
<1>5. Glued(Glued(<<a>>, <<b>>), <<c>>) = u
  BY <1>1, ThreeGlued
<1>6. Solid(u)
  <2>1. Solid(<<a, b>>) /\ Solid(<<c>>)
    BY <1>1, SolidPair, SolidWord
  <2>2. Solid(<<a, b>> \o <<c>>)
    BY <2>1, SolidGlue
  <2>3. <<a, b>> \o <<c>> = <<a, b, c>>
    BY <1>1, ThreeWords
  <2>4. QED BY <2>2, <2>3
<1>7. u \in Texts
  BY <1>1 DEF Texts
<1>8. Len(u) = 3 /\ u[1] = a /\ u[2] = b /\ u[3] = c
  OBVIOUS
<1> HIDE DEF u
<1>9. Fixed(u)
  <2>1. \A i \in 1..3 : i = 1 \/ i = 2 \/ i = 3
    OBVIOUS
  <2>2. QED BY <1>1, <1>8, <2>1 DEF Fixed
<1>10. ASSUME NEW x PROVE Test(x, u) = Fact(x # Null)
  BY <1>1, <1>8 DEF Test
<1>11. Piece(u, <<>>, u) /\ Solid(u) /\ u[1] # "NOT" /\ u \in Texts /\ Fixed(u) /\ \A x : Test(x, u) = Fact(x # Null)
  BY <1>1, <1>4, <1>5, <1>6, <1>7, <1>8, <1>9, <1>10
<1>12. u = <<"IS", "NOT", "NULL">>
  BY DEF u, a, b, c
<1>13. QED BY <1>11, <1>12

LEMMA BetweenTest ==
  ASSUME NEW v \in Vals, NEW w \in Vals
  PROVE  LET t == <<"BETWEEN", "?", "AND", "?">>
             u == <<"BETWEEN", v, "AND", w>>
         IN /\ Piece(t, <<v, w>>, u) /\ Solid(u) /\ u[1] # "NOT" /\ u \in Texts /\ Fixed(u)
            /\ \A x : Test(x, u) = And3(Compared(">=", x, v), Compared("<=", x, w))
<1> DEFINE a == "BETWEEN"
           b == "AND"
           q == "?"
           t == <<a, q, b, q>>
           u == <<a, v, b, w>>
<1>1. /\ a \in Words /\ a # "?" /\ a \notin {"(", ")", "OR", "AND"} /\ Plain(a) \notin {"tag", "level"}
      /\ b \in Words /\ b # "?" /\ b \notin {"(", ")", "OR", "BETWEEN"} /\ Plain(b) \notin {"tag", "level"}
      /\ a \notin {"NOT", "IS"} /\ a = "BETWEEN" /\ b = "AND" /\ q = "?"
  BY DEF Words, Plain
<1> HIDE DEF a, b, q
<1>2. /\ v \in Words /\ v \notin {"(", ")", "OR", "AND", "BETWEEN"} /\ Plain(v) \notin {"tag", "level"}
      /\ w \in Words /\ w \notin {"(", ")", "OR", "AND", "BETWEEN"} /\ Plain(w) \notin {"tag", "level"}
  BY ValueWord
<1>3. /\ Piece(<<a>>, <<>>, <<a>>) /\ Piece(<<b>>, <<>>, <<b>>)
      /\ Piece(<<q>>, <<v>>, <<v>>) /\ Piece(<<q>>, <<w>>, <<w>>)
  <2>1. Piece(<<a>>, <<>>, <<a>>) /\ Piece(<<b>>, <<>>, <<b>>)
    BY <1>1, PieceWord
  <2>2. Piece(<<q>>, <<v>>, <<v>>) /\ Piece(<<q>>, <<w>>, <<w>>)
    BY <1>1, <1>2, PieceMark
  <2>3. QED BY <2>1, <2>2
<1>4. Piece(Glued(Glued(<<a>>, <<q>>), Glued(<<b>>, <<q>>)), Glued(Glued(<<>>, <<v>>), Glued(<<>>, <<w>>)),
            Glued(Glued(<<a>>, <<v>>), Glued(<<b>>, <<w>>)))
  <2>1. Piece(Glued(<<a>>, <<q>>), Glued(<<>>, <<v>>), Glued(<<a>>, <<v>>))
    BY <1>3, PieceGlued
  <2>2. Piece(Glued(<<b>>, <<q>>), Glued(<<>>, <<w>>), Glued(<<b>>, <<w>>))
    BY <1>3, PieceGlued
  <2>3. QED BY <2>1, <2>2, PieceGlued
<1>5. Glued(Glued(<<a>>, <<q>>), Glued(<<b>>, <<q>>)) = t
  <2>1. q \in Words
    BY <1>1 DEF Words
  <2>2. QED BY <1>1, <2>1, FourGlued
<1>6. Glued(Glued(<<>>, <<v>>), Glued(<<>>, <<w>>)) = <<v, w>>
  <2>1. Glued(<<>>, <<v>>) = <<v>> /\ Glued(<<>>, <<w>>) = <<w>>
    BY <1>2, Word, NoMore
  <2>2. <<v>> \o <<w>> = <<v, w>>
    BY <1>2, TwoWords
  <2>3. Glued(<<v>>, <<w>>) = <<v>> \o <<w>>
    BY DEF Glued
  <2>4. QED BY <2>1, <2>2, <2>3
<1>7. Glued(Glued(<<a>>, <<v>>), Glued(<<b>>, <<w>>)) = u
  BY <1>1, <1>2, FourGlued
<1>8. u \in Texts
  BY <1>1, <1>2 DEF Texts
<1>9. Len(u) = 4 /\ u[1] = a /\ u[2] = v /\ u[3] = b /\ u[4] = w /\ u # <<>>
  OBVIOUS
<1> HIDE DEF u
<1>10. \A i \in 1..Len(u) : i = 1 \/ i = 2 \/ i = 3 \/ i = 4
  BY <1>9
<1>11. Fixed(u)
  BY <1>1, <1>2, <1>9, <1>10 DEF Fixed
<1>12. \A i \in 1..Len(u) : u[i] \notin {"(", ")"}
  BY <1>1, <1>2, <1>9, <1>10
<1>13. \A i \in 0..Len(u) : Depth(u, i) = 0
  BY <1>8, <1>12, DepthFlat
<1>14. Balanced(u)
  BY <1>8, <1>9, <1>13 DEF Balanced
<1>15. Quiet(u)
  <2>1. SUFFICES ASSUME NEW i \in 1..Len(u), u[i] \in {"OR", "AND"} PROVE i > 2 /\ u[i - 2] = "BETWEEN"
    BY DEF Quiet
  <2>2. i = 3
    BY <1>1, <1>2, <1>9, <1>10, <2>1
  <2>3. QED BY <1>1, <1>9, <2>2
<1>16. TidyEnd(u)
  BY <1>1, <1>2, <1>9 DEF TidyEnd
<1>17. Solid(u)
  BY <1>9, <1>14, <1>15, <1>16 DEF Solid
<1>18. ASSUME NEW x PROVE Test(x, u) = And3(Compared(">=", x, v), Compared("<=", x, w))
  BY <1>1, <1>9 DEF Test
<1>19. /\ Piece(t, <<v, w>>, u) /\ Solid(u) /\ u[1] # "NOT" /\ u \in Texts /\ Fixed(u)
       /\ \A x : Test(x, u) = And3(Compared(">=", x, v), Compared("<=", x, w))
  BY <1>1, <1>4, <1>5, <1>6, <1>7, <1>8, <1>9, <1>11, <1>17, <1>18
<1>20. u = <<"BETWEEN", v, "AND", w>> /\ t = <<"BETWEEN", "?", "AND", "?">>
  BY DEF u, t, a, b, q
<1>21. QED BY <1>19, <1>20

LEMMA Halves ==
  ASSUME NEW i \in Nat
  PROVE  /\ (i + 1) \div 2 \in Nat
         /\ i > 0 => (i + 1) \div 2 = ((i - 1) + 1) \div 2 + IF i % 2 = 1 THEN 1 ELSE 0
         /\ \A n \in Nat : i < 2 * n => (i + 1) \div 2 <= n
         /\ i > 0 => (i + 1) \div 2 > 0
OBVIOUS

\* A list behind IN: a mark for each value, in order.
LEMMA MarksAre ==
  ASSUME NEW list \in Seq(Vals), list # <<>>
  PROVE  LET t == Marks(list)
             f == Fill(t, list)
         IN /\ Fit(t, list) /\ f \in Texts /\ Len(f) = 2 * Len(list) - 1 /\ Len(list) \in Nat /\ Len(list) > 0
            /\ \A i \in 1..Len(f) : f[i] = IF i % 2 = 1 THEN list[(i + 1) \div 2] ELSE ","
            /\ \A i \in 1..Len(f) : i % 2 = 1 => (i + 1) \div 2 \in 1..Len(list)
<1> DEFINE t == Marks(list)
           f == Fill(t, list)
           m == 2 * Len(list) - 1
           S == {i \in 0..m : Times(t, "?", i) = (i + 1) \div 2}
<1>1. Len(list) \in Nat /\ Len(list) > 0 /\ m \in Nat /\ list \in Texts
  <2>1. Vals \subseteq Words
    BY ValueWord
  <2>2. QED BY <2>1 DEF Texts
<1>2. t \in Texts /\ Len(t) = m /\ \A i \in 1..m : t[i] = IF i % 2 = 1 THEN "?" ELSE ","
  <2>1. "?" \in Words /\ "," \in Words
    BY DEF Words
  <2>2. t = [i \in 1..m |-> IF i % 2 = 1 THEN "?" ELSE ","]
    BY DEF Marks
  <2> HIDE DEF t, m
  <2>3. \A i \in 1..m : t[i] = IF i % 2 = 1 THEN "?" ELSE ","
    BY <2>2
  <2>4. t \in [1..m -> Words]
    BY <2>1, <2>2
  <2>5. m \in Nat
    BY <1>1
  <2>6. t \in Texts /\ Len(t) = m
    BY <2>4, <2>5 DEF Texts
  <2>7. QED BY <2>3, <2>6
<1> HIDE DEF t
<1>3. 0 \in S
  <2>1. Times(t, "?", 0) = 0
    BY <1>2, TimesSteps
  <2>2. QED BY <1>1, <2>1
<1>4. ASSUME NEW i \in 1..m, i - 1 \in S PROVE i \in S
  <2>1. i \in 1..Len(t) /\ i \in Nat /\ i > 0
    <3>1. Len(t) = m /\ m \in Nat
      BY <1>1, <1>2
    <3> HIDE DEF m
    <3>2. QED BY <3>1
  <2>2. Times(t, "?", i) = Times(t, "?", i - 1) + IF t[i] = "?" THEN 1 ELSE 0
    BY <1>2, <2>1, TimesNext
  <2>3. Times(t, "?", i - 1) = ((i - 1) + 1) \div 2
    BY <1>4
  <2>4. t[i] = "?" <=> i % 2 = 1
    BY <1>2
  <2>5. (i + 1) \div 2 = ((i - 1) + 1) \div 2 + IF i % 2 = 1 THEN 1 ELSE 0
    BY <2>1, Halves
  <2>6. Times(t, "?", i) = (i + 1) \div 2
    BY <2>2, <2>3, <2>4, <2>5
  <2>7. QED BY <2>1, <2>6, <1>1
<1>5. \A i \in 0..m : i \in S
  <2> HIDE DEF S, m
  <2>1. QED BY <1>1, <1>3, <1>4, Climb
<1>6. Fit(t, list)
  <2>1. m \in 0..m /\ (m + 1) \div 2 = Len(list)
    BY <1>1
  <2>2. Times(t, "?", m) = Len(list)
    BY <1>5, <2>1
  <2>3. Marked(t) = Len(list)
    BY <1>2, <2>2 DEF Marked
  <2>4. QED BY <1>1, <1>2, <2>3 DEF Fit
<1>7. f \in Texts /\ Len(f) = m
  BY <1>2, <1>6, FillType
<1>8. ASSUME NEW i \in 1..m PROVE f[i] = IF i % 2 = 1 THEN list[(i + 1) \div 2] ELSE ","
  <2>1. i \in DOMAIN t
    <3>1. Len(t) = m /\ t \in Texts
      BY <1>2
    <3> HIDE DEF m
    <3>2. QED BY <3>1 DEF Texts
  <2>2. f[i] = IF t[i] = "?" THEN list[Times(t, "?", i)] ELSE t[i]
    BY <2>1 DEF Fill
  <2>3. Times(t, "?", i) = (i + 1) \div 2
    BY <1>1, <1>5
  <2>4. t[i] = IF i % 2 = 1 THEN "?" ELSE ","
    BY <1>2
  <2>5. QED BY <2>2, <2>3, <2>4
<1>9. ASSUME NEW i \in 1..m PROVE (i + 1) \div 2 \in 1..Len(list)
  <2>1. i \in Nat /\ i > 0 /\ i < 2 * Len(list)
    BY <1>1
  <2>2. (i + 1) \div 2 \in Nat /\ (i + 1) \div 2 <= Len(list) /\ (i + 1) \div 2 > 0
    BY <1>1, <2>1, Halves
  <2>3. QED BY <1>1, <2>2
<1> HIDE DEF f
<1>10. /\ Fit(t, list) /\ f \in Texts /\ Len(f) = 2 * Len(list) - 1 /\ Len(list) \in Nat /\ Len(list) > 0
       /\ \A i \in 1..Len(f) : f[i] = IF i % 2 = 1 THEN list[(i + 1) \div 2] ELSE ","
       /\ \A i \in 1..Len(f) : i % 2 = 1 => (i + 1) \div 2 \in 1..Len(list)
  BY <1>1, <1>6, <1>7, <1>8, <1>9
<1>11. QED BY <1>10 DEF f, t

LEMMA InTest ==
  ASSUME NEW list \in Seq(Vals), list # <<>>
  PROVE  LET t == <<"IN">> \o Enclosed(Marks(list))
             u == <<"IN">> \o Enclosed(Fill(Marks(list), list))
         IN /\ Piece(t, list, u) /\ Solid(u) /\ u[1] # "NOT" /\ u \in Texts /\ Fixed(u)
            /\ \A x : Test(x, u) = Any3({Compared("=", x, list[i]) : i \in DOMAIN list})
<1> DEFINE p == <<"IN">>
           s == Marks(list)
           f == Fill(s, list)
           e == Enclosed(f)
           u == p \o e
<1>1. /\ Fit(s, list) /\ f \in Texts /\ Len(f) = 2 * Len(list) - 1 /\ Len(list) \in Nat /\ Len(list) > 0
      /\ \A i \in 1..Len(f) : f[i] = IF i % 2 = 1 THEN list[(i + 1) \div 2] ELSE ","
      /\ \A i \in 1..Len(f) : i % 2 = 1 => (i + 1) \div 2 \in 1..Len(list)
  BY MarksAre
<1>2. p \in Texts /\ Len(p) = 1 /\ p[1] = "IN" /\ Piece(p, <<>>, p) /\ Solid(p)
  <2>1. "IN" \in Words /\ "IN" # "?" /\ "IN" \notin {"(", ")", "OR", "AND", "BETWEEN"}
    BY DEF Words
  <2>2. p \in Texts /\ Len(p) = 1 /\ p[1] = "IN"
    BY <2>1, Word, Zenon
  <2>3. Piece(p, <<>>, p)
    BY <2>1, PieceWord, Zenon
  <2>4. Solid(p)
    BY <2>1, SolidWord, Zenon
  <2>5. QED BY <2>2, <2>3, <2>4
<1>3. Fit(Enclosed(s), list) /\ Fill(Enclosed(s), list) = e
  BY <1>1, FillEnclosed
<1> HIDE DEF p, s, f
<1>4. Piece(p \o Enclosed(s), list, u)
  <2>1. Piece(Enclosed(s), list, e)
    BY <1>3 DEF Piece
  <2>2. list \in Texts
    BY <1>1 DEF Fit
  <2>3. Piece(Glued(p, Enclosed(s)), Glued(<<>>, list), Glued(p, e))
    BY <1>2, <2>1, PieceGlued
  <2>4. Glued(<<>>, list) = list
    BY <2>2, NoMore
  <2>5. Glued(p, Enclosed(s)) = p \o Enclosed(s) /\ Glued(p, e) = u
    BY DEF Glued
  <2> HIDE DEF u, e
  <2>6. QED BY <2>3, <2>4, <2>5
<1>5. ASSUME NEW i \in 1..Len(list) PROVE list[i] \in Vals
  OBVIOUS
<1>6. ASSUME NEW i \in 1..Len(f) PROVE f[i] \notin {"(", ")", "BETWEEN"} /\ Plain(f[i]) \notin {"tag", "level"}
  <2>1. CASE i % 2 = 1
    <3>1. f[i] \in Vals
      BY <1>1, <1>5, <2>1
    <3>2. QED BY <3>1, ValueWord
  <2>2. CASE i % 2 # 1
    <3>1. f[i] = ","
      BY <1>1, <2>2
    <3>2. QED BY <3>1 DEF Plain
  <2>3. QED BY <2>1, <2>2
<1>71. Len(f) = 2 * Len(list) - 1 /\ Len(list) \in Nat /\ Len(list) > 0
  BY <1>1
<1>7. Len(f) \in 1..Len(f) /\ Len(f) \in Nat /\ Len(f) > 0 /\ f # <<>>
  <2>1. Len(f) \in 1..Len(f) /\ Len(f) \in Nat /\ Len(f) > 0
    BY <1>71
  <2>2. Len(<<>>) = 0
    OBVIOUS
  <2>3. QED BY <2>1, <2>2
<1>8. Balanced(f)
  <2>4. f \in Texts /\ \A i \in 1..Len(f) : f[i] \notin {"(", ")"}
    BY <1>1, <1>6
  <2>1. \A i \in 0..Len(f) : Depth(f, i) = 0
    BY <2>4, DepthFlat
  <2>2. Len(f) \in 0..Len(f)
    BY <1>7
  <2>3. QED BY <2>4, <2>1, <2>2 DEF Balanced
<1>9. Solid(e)
  BY <1>6, <1>7, <1>8, SolidEnclosed
<1>10. /\ e \in Texts /\ Len(e) = Len(f) + 2 /\ e[1] = "(" /\ e[Len(e)] = ")"
       /\ \A i \in 1..Len(f) : e[i + 1] = f[i]
  BY <1>8, EnclosedIs
<1> HIDE DEF e
<1>11. Solid(u)
  BY <1>2, <1>9, SolidGlue
<1>12. /\ u \in Texts /\ Len(u) = Len(p) + Len(e)
       /\ \A i \in 1..Len(p) : u[i] = p[i]
       /\ \A i \in 1..Len(e) : u[Len(p) + i] = e[i]
  BY <1>2, <1>10, Glue
<1> HIDE DEF u
<1>13. u[1] = "IN" /\ Len(u) = 2 * Len(list) + 2 /\ u[2] = "(" /\ u[Len(u)] = ")"
  <2>1. u[1] = "IN"
    BY <1>2, <1>12
  <2>2. Len(u) = 2 * Len(list) + 2
    <3>1. Len(u) = Len(p) + Len(e) /\ Len(e) = Len(f) + 2 /\ Len(p) = 1
      BY <1>2, <1>10, <1>12
    <3>2. QED BY <1>71, <3>1
  <2>3. u[2] = "("
    <3>1. 1 \in 1..Len(e) /\ Len(p) + 1 = 2
      BY <1>2, <1>7, <1>10
    <3>2. QED BY <1>10, <1>12, <3>1
  <2>4. u[Len(u)] = ")"
    <3>1. Len(e) \in 1..Len(e)
      BY <1>7, <1>10
    <3>2. QED BY <1>10, <1>12, <3>1
  <2>5. QED BY <2>1, <2>2, <2>3, <2>4
<1>14. ASSUME NEW i \in 1..Len(f) PROVE u[i + 2] = f[i]
  <2>1. i + 1 \in 1..Len(e) /\ Len(p) + (i + 1) = i + 2
    BY <1>2, <1>7, <1>10
  <2>2. u[Len(p) + (i + 1)] = e[i + 1]
    BY <1>12, <2>1
  <2>3. QED BY <1>10, <2>1, <2>2
<1>141. Len(u) = 2 * Len(list) + 2
  BY <1>13
<1>15. Fixed(u)
  <2>1. SUFFICES ASSUME NEW i \in 1..Len(u) PROVE Plain(u[i]) \notin {"tag", "level"}
    BY DEF Fixed
  <2>2. CASE i = 1
    BY <1>13, <2>2 DEF Plain
  <2>3. CASE i = 2
    BY <1>13, <2>3 DEF Plain
  <2>4. CASE i = Len(u)
    BY <1>13, <2>4 DEF Plain
  <2>5. CASE i \in 3..(Len(u) - 1)
    <3>1. i - 2 \in 1..Len(f) /\ (i - 2) + 2 = i
      BY <1>71, <1>141, <2>5
    <3>2. u[i] = f[i - 2]
      BY <1>14, <3>1
    <3>3. QED BY <1>6, <3>1, <3>2
  <2>6. i = 1 \/ i = 2 \/ i = Len(u) \/ i \in 3..(Len(u) - 1)
    BY <1>71, <1>141
  <2>7. QED BY <2>2, <2>3, <2>4, <2>5, <2>6
<1>16. ASSUME NEW x PROVE Test(x, u) = Any3({Compared("=", x, list[i]) : i \in DOMAIN list})
  <2> DEFINE A == {Compared("=", x, u[i]) : i \in {k \in 3..(Len(u) - 1) : k % 2 = 1}}
             B == {Compared("=", x, list[i]) : i \in DOMAIN list}
  <2>1. Test(x, u) = Any3(A)
    <3>1. Len(u) # 2 /\ Len(u) # 3
      BY <1>71, <1>141
    <3>2. QED BY <1>13, <3>1 DEF Test
  <2>2. DOMAIN list = 1..Len(list)
    OBVIOUS
  <2>3. ASSUME NEW k \in 3..(Len(u) - 1), k % 2 = 1
        PROVE  (k - 1) \div 2 \in 1..Len(list) /\ u[k] = list[(k - 1) \div 2]
    <3>1. k - 2 \in 1..Len(f) /\ (k - 2) + 2 = k /\ (k - 2) % 2 = 1 /\ (k - 2) + 1 = k - 1
      BY <1>71, <1>141, <2>3
    <3>2. u[k] = f[k - 2]
      BY <1>14, <3>1
    <3>3. QED BY <1>1, <3>1, <3>2
  <2>4. ASSUME NEW i \in 1..Len(list)
        PROVE  2 * i + 1 \in 3..(Len(u) - 1) /\ (2 * i + 1) % 2 = 1 /\ ((2 * i + 1) - 1) \div 2 = i
    <3>1. 2 * i + 1 \in 3..(Len(u) - 1)
      BY <1>71, <1>141
    <3>2. (2 * i + 1) % 2 = 1
      OBVIOUS
    <3>3. ((2 * i + 1) - 1) \div 2 = i
      OBVIOUS
    <3>4. QED BY <3>1, <3>2, <3>3
  <2>5. \A y \in A : y \in B
    BY <2>2, <2>3
  <2>6. \A y \in B : y \in A
    <3>1. SUFFICES ASSUME NEW i \in 1..Len(list) PROVE Compared("=", x, list[i]) \in A
      BY <2>2
    <3>2. 2 * i + 1 \in 3..(Len(u) - 1) /\ (2 * i + 1) % 2 = 1 /\ u[2 * i + 1] = list[i]
      BY <2>3, <2>4
    <3>3. QED BY <3>2
  <2>7. A = B
    <3> HIDE DEF A, B
    <3>1. QED BY <2>5, <2>6
  <2>8. QED BY <2>1, <2>7
<1>17. /\ Piece(p \o Enclosed(s), list, u) /\ Solid(u) /\ u[1] # "NOT" /\ u \in Texts /\ Fixed(u)
       /\ \A x : Test(x, u) = Any3({Compared("=", x, list[i]) : i \in DOMAIN list})
  BY <1>4, <1>11, <1>12, <1>13, <1>15, <1>16
<1>18. QED BY <1>17 DEF u, e, f, s, p

-----------------------------------------------------------------------------
(* Each leaf means what its text says.                                     *)

LEMMA Logic ==
  /\ \A o, v, w : Compared(o, v, w) \in Three /\ Meant(o, v, w) \in Three
  /\ \A p : Fact(p) \in Three /\ Not3(p) \in Three
  /\ \A p, q : And3(p, q) \in Three /\ Or3(p, q) \in Three
  /\ \A S : Any3(S) \in Three
BY DEF Compared, Meant, Fact, Not3, And3, Or3, Any3, Three

LEMMA GluedTexts ==
  ASSUME NEW a \in Texts, NEW b \in Texts
  PROVE  Glued(a, b) \in Texts
BY Glue DEF Glued

LEMMA GluedThree ==
  ASSUME NEW a \in Texts, NEW b \in Texts, NEW c \in Texts
  PROVE  Glued(Glued(a, b), c) = Glued(a, Glued(b, c))
<1>1. (a \o b) \o c = a \o (b \o c)
  BY ConcatAssociative DEF Texts
<1>2. QED BY <1>1 DEF Glued

LEMMA HeadOn ==
  ASSUME NEW w \in Words, NEW t \in Texts
  PROVE  /\ <<w>> \o t \in Texts /\ Len(<<w>> \o t) = 1 + Len(t) /\ (<<w>> \o t)[1] = w
         /\ \A i \in 1..Len(t) : (<<w>> \o t)[1 + i] = t[i]
<1> DEFINE p == <<w>>
<1>1. p \in Texts /\ Len(p) = 1 /\ p[1] = w
  BY Word
<1> HIDE DEF p
<1>2. /\ p \o t \in Texts /\ Len(p \o t) = Len(p) + Len(t) /\ Len(t) \in Nat
      /\ \A i \in 1..Len(p) : (p \o t)[i] = p[i]
      /\ \A i \in 1..Len(t) : (p \o t)[Len(p) + i] = t[i]
  BY <1>1, Glue
<1> DEFINE u == p \o t
<1> HIDE DEF u
<1>3. u \in Texts /\ Len(u) = 1 + Len(t) /\ u[1] = w /\ \A i \in 1..Len(t) : u[1 + i] = t[i]
  BY <1>1, <1>2 DEF u
<1>4. QED BY <1>3 DEF u, p

LEMMA HeadOfTwo ==
  ASSUME NEW w \in Words, NEW a \in Words, NEW b \in Words
  PROVE  <<w>> \o <<a, b>> = <<w, a, b>>
<1> DEFINE t == <<a, b>>
           u == <<w>> \o t
           s == <<w, a, b>>
<1>1. t \in Texts /\ Len(t) = 2 /\ t[1] = a /\ t[2] = b
  BY TwoWords
<1>2. s \in Texts
  BY DEF Texts
<1>3. Len(s) = 3 /\ s[1] = w /\ s[2] = a /\ s[3] = b
  OBVIOUS
<1> HIDE DEF t, s
<1>4. u \in Texts /\ Len(u) = 1 + Len(t) /\ u[1] = w /\ \A i \in 1..Len(t) : u[1 + i] = t[i]
  BY <1>1, HeadOn
<1> HIDE DEF u
<1>5. Len(u) = Len(s) /\ u[2] = a /\ u[3] = b
  <2>1. 1 \in 1..Len(t) /\ 2 \in 1..Len(t) /\ 1 + 1 = 2 /\ 1 + 2 = 3
    BY <1>1
  <2>2. QED BY <1>1, <1>3, <1>4, <2>1
<1>6. \A i \in 1..Len(s) : i = 1 \/ i = 2 \/ i = 3
  BY <1>3
<1>7. \A i \in 1..Len(s) : u[i] = s[i]
  BY <1>3, <1>4, <1>5, <1>6
<1>8. u = s
  BY <1>2, <1>4, <1>5, <1>7, SameTexts
<1>9. QED BY <1>8 DEF u, s, t

LEMMA HeadOfThree ==
  ASSUME NEW w \in Words, NEW a \in Words, NEW b \in Words, NEW c \in Words
  PROVE  <<w>> \o <<a, b, c>> = <<w, a, b, c>>
<1> DEFINE t == <<a, b, c>>
           u == <<w>> \o t
           s == <<w, a, b, c>>
<1>1. t \in Texts /\ s \in Texts
  BY DEF Texts
<1>2. Len(t) = 3 /\ t[1] = a /\ t[2] = b /\ t[3] = c
  OBVIOUS
<1>3. Len(s) = 4 /\ s[1] = w /\ s[2] = a /\ s[3] = b /\ s[4] = c
  OBVIOUS
<1> HIDE DEF t, s
<1>4. u \in Texts /\ Len(u) = 1 + Len(t) /\ u[1] = w /\ \A i \in 1..Len(t) : u[1 + i] = t[i]
  BY <1>1, HeadOn
<1> HIDE DEF u
<1>5. Len(u) = Len(s) /\ u[2] = a /\ u[3] = b /\ u[4] = c
  <2>1. 1 \in 1..Len(t) /\ 2 \in 1..Len(t) /\ 3 \in 1..Len(t) /\ 1 + 1 = 2 /\ 1 + 2 = 3 /\ 1 + 3 = 4
    BY <1>2
  <2>2. QED BY <1>2, <1>3, <1>4, <2>1
<1>6. \A i \in 1..Len(s) : i = 1 \/ i = 2 \/ i = 3 \/ i = 4
  BY <1>3
<1>7. \A i \in 1..Len(s) : u[i] = s[i]
  BY <1>3, <1>4, <1>5, <1>6
<1>8. u = s
  BY <1>1, <1>4, <1>5, <1>7, SameTexts
<1>9. QED BY <1>8 DEF u, s, t

LEMMA HeadOfFour ==
  ASSUME NEW w \in Words, NEW a \in Words, NEW b \in Words, NEW c \in Words, NEW d \in Words
  PROVE  <<w>> \o <<a, b, c, d>> = <<w, a, b, c, d>>
<1> DEFINE t == <<a, b, c, d>>
           u == <<w>> \o t
           s == <<w, a, b, c, d>>
<1>1. t \in Texts /\ s \in Texts
  BY DEF Texts
<1>2. Len(t) = 4 /\ t[1] = a /\ t[2] = b /\ t[3] = c /\ t[4] = d
  OBVIOUS
<1>3. Len(s) = 5 /\ s[1] = w /\ s[2] = a /\ s[3] = b /\ s[4] = c /\ s[5] = d
  OBVIOUS
<1> HIDE DEF t, s
<1>4. u \in Texts /\ Len(u) = 1 + Len(t) /\ u[1] = w /\ \A i \in 1..Len(t) : u[1 + i] = t[i]
  BY <1>1, HeadOn
<1> HIDE DEF u
<1>5. Len(u) = Len(s) /\ u[2] = a /\ u[3] = b /\ u[4] = c /\ u[5] = d
  <2>1. 1 \in 1..Len(t) /\ 2 \in 1..Len(t) /\ 3 \in 1..Len(t) /\ 4 \in 1..Len(t)
        /\ 1 + 1 = 2 /\ 1 + 2 = 3 /\ 1 + 3 = 4 /\ 1 + 4 = 5
    BY <1>2
  <2>2. QED BY <1>2, <1>3, <1>4, <2>1
<1>6. \A i \in 1..Len(s) : i = 1 \/ i = 2 \/ i = 3 \/ i = 4 \/ i = 5
  BY <1>3
<1>7. \A i \in 1..Len(s) : u[i] = s[i]
  BY <1>3, <1>4, <1>5, <1>6
<1>8. u = s
  BY <1>1, <1>4, <1>5, <1>7, SameTexts
<1>9. QED BY <1>8 DEF u, s, t

LEMMA HeadOfFive ==
  ASSUME NEW w \in Words, NEW a \in Words, NEW b \in Words, NEW c \in Words, NEW d \in Words, NEW e \in Words
  PROVE  <<w>> \o <<a, b, c, d, e>> = <<w, a, b, c, d, e>>
<1> DEFINE t == <<a, b, c, d, e>>
           u == <<w>> \o t
           s == <<w, a, b, c, d, e>>
<1>1. t \in Texts /\ s \in Texts
  BY DEF Texts
<1>2. Len(t) = 5 /\ t[1] = a /\ t[2] = b /\ t[3] = c /\ t[4] = d /\ t[5] = e
  OBVIOUS
<1>3. Len(s) = 6 /\ s[1] = w /\ s[2] = a /\ s[3] = b /\ s[4] = c /\ s[5] = d /\ s[6] = e
  OBVIOUS
<1> HIDE DEF t, s
<1>4. u \in Texts /\ Len(u) = 1 + Len(t) /\ u[1] = w /\ \A i \in 1..Len(t) : u[1 + i] = t[i]
  BY <1>1, HeadOn
<1> HIDE DEF u
<1>5. Len(u) = Len(s) /\ u[2] = a /\ u[3] = b /\ u[4] = c /\ u[5] = d /\ u[6] = e
  <2>1. 1 \in 1..Len(t) /\ 2 \in 1..Len(t) /\ 3 \in 1..Len(t) /\ 4 \in 1..Len(t) /\ 5 \in 1..Len(t)
        /\ 1 + 1 = 2 /\ 1 + 2 = 3 /\ 1 + 3 = 4 /\ 1 + 4 = 5 /\ 1 + 5 = 6
    BY <1>2
  <2>2. QED BY <1>2, <1>3, <1>4, <2>1
<1>6. \A i \in 1..Len(s) : i = 1 \/ i = 2 \/ i = 3 \/ i = 4 \/ i = 5 \/ i = 6
  BY <1>3
<1>7. \A i \in 1..Len(s) : u[i] = s[i]
  BY <1>3, <1>4, <1>5, <1>6
<1>8. u = s
  BY <1>1, <1>4, <1>5, <1>7, SameTexts
<1>9. QED BY <1>8 DEF u, s, t

LEMMA OddGood ==
  ASSUME NEW t \in Texts, NEW bs \in Texts, NEW m \in [Cells -> Three]
  PROVE  [Condition(t, bs, m) EXCEPT !.odd = TRUE] \in Goods
BY DEF Condition, Goods, Conditions, Sound

LEMMA NotOdd ==
  ASSUME NEW t \in Texts, NEW bs \in Texts, NEW m \in [Cells -> Three]
  PROVE  [Condition(t, bs, m) EXCEPT !.odd = FALSE] = Condition(t, bs, m)
<1> DEFINE c == Condition(t, bs, m)
<1>1. c \in Conditions /\ c.odd = FALSE
  BY DEF Condition, Conditions
<1> HIDE DEF c
<1>2. [c EXCEPT !.odd = FALSE] = c
  BY <1>1 DEF Conditions
<1>3. QED BY <1>2 DEF c

LEMMA PlainGood ==
  Invalid \in Goods /\ NoCondition \in Goods
<1>1. <<>> \in Texts /\ Fit(<<>>, <<>>)
  <2>1. Times(<<>>, "?", 0) = 0
    BY NoWords, TimesSteps
  <2>2. QED BY <2>1, NoWords DEF Fit, Marked
<1>2. [r \in Cells |-> "U"] \in [Cells -> Three] /\ [r \in Cells |-> "T"] \in [Cells -> Three]
  BY DEF Three
<1>3. Invalid \in Goods
  BY <1>1, <1>2 DEF Invalid, Condition, Goods, Conditions, Sound
<1>4. NoCondition \in Goods
  BY <1>1, <1>2 DEF NoCondition, Condition, Goods, Conditions, Sound
<1>5. QED BY <1>3, <1>4

\* The refs of the column compared.
LEMMA LevelRef ==
  ASSUME NEW ref \in {Ref("level"), RefOf("level")}
  PROVE  /\ ref.ok = TRUE /\ ref.text \in Heads /\ ref.text \in Words
         /\ \A r : Operand(ref.text, r) = r["level"] /\ Of(ref, r) = r["level"]
<1>1. ref.text \in {"level", "t.level"} /\ ref.ok = TRUE
  BY DEF Ref, RefOf, Dotted
<1>2. Plain(ref.text) = "level"
  BY <1>1 DEF Plain
<1>3. ref.text \in Heads
  BY <1>1 DEF Heads
<1>4. QED BY <1>1, <1>2, <1>3, HeadWord DEF Operand, Of

LevelCol == Ref("level")

LEMMA NullGood ==
  ASSUME NEW m \in [Cells -> Three], \A r \in Cells : m[r] = Fact(r["level"] = Null)
  PROVE  Condition(<<LevelCol.text, "IS", "NULL">>, <<>>, m) \in Goods
<1> DEFINE c == LevelCol.text
           u == <<"IS", "NULL">>
<1>1. c \in Heads /\ c \in Words /\ \A r : Operand(c, r) = r["level"]
  BY LevelRef DEF LevelCol
<1> HIDE DEF c
<1>2. "IS" \in Words /\ "NULL" \in Words
  BY DEF Words, Null
<1>3. <<c>> \o u = <<c, "IS", "NULL">>
  BY <1>1, <1>2, HeadOfTwo
<1>4. Piece(u, <<>>, u) /\ Solid(u) /\ u[1] # "NOT" /\ u \in Texts /\ Fixed(u) /\ \A x : Test(x, u) = Fact(x = Null)
  BY NullTest
<1> HIDE DEF u
<1>5. \A r \in Cells : m[r] = Test(Operand(c, r), [i \in 1..Len(u) |-> Operand(u[i], r)])
  BY <1>1, <1>4, FixedSame
<1>6. Condition(<<c>> \o u, <<>>, m) \in Goods
  BY <1>1, <1>4, <1>5, LeafGood
<1>7. QED BY <1>3, <1>6 DEF c

LEMMA ValueGood ==
  ASSUME NEW m \in [Cells -> Three], \A r \in Cells : m[r] = Fact(r["level"] # Null)
  PROVE  Condition(<<LevelCol.text, "IS", "NOT", "NULL">>, <<>>, m) \in Goods
<1> DEFINE c == LevelCol.text
           u == <<"IS", "NOT", "NULL">>
<1>1. c \in Heads /\ c \in Words /\ \A r : Operand(c, r) = r["level"]
  BY LevelRef DEF LevelCol
<1> HIDE DEF c
<1>2. "IS" \in Words /\ "NULL" \in Words /\ "NOT" \in Words
  BY DEF Words, Null
<1>3. <<c>> \o u = <<c, "IS", "NOT", "NULL">>
  BY <1>1, <1>2, HeadOfThree
<1>4. Piece(u, <<>>, u) /\ Solid(u) /\ u[1] # "NOT" /\ u \in Texts /\ Fixed(u) /\ \A x : Test(x, u) = Fact(x # Null)
  BY ValueTest
<1> HIDE DEF u
<1>5. \A r \in Cells : m[r] = Test(Operand(c, r), [i \in 1..Len(u) |-> Operand(u[i], r)])
  BY <1>1, <1>4, FixedSame
<1>6. Condition(<<c>> \o u, <<>>, m) \in Goods
  BY <1>1, <1>4, <1>5, LeafGood
<1>7. QED BY <1>3, <1>6 DEF c

LEMMA SignGood ==
  ASSUME NEW o \in Signs, NEW v \in Vals, NEW m \in [Cells -> Three],
         \A r \in Cells : m[r] = Compared(o, r["level"], v)
  PROVE  Condition(<<LevelCol.text, o, "?">>, <<v>>, m) \in Goods
<1> DEFINE c == LevelCol.text
           t == <<o, "?">>
           u == <<o, v>>
           b == <<v>>
<1>1. c \in Heads /\ c \in Words /\ \A r : Operand(c, r) = r["level"]
  BY LevelRef DEF LevelCol
<1> HIDE DEF c
<1>2. o \in Words /\ "?" \in Words
  BY SignWord DEF Words
<1>3. <<c>> \o t = <<c, o, "?">>
  BY <1>1, <1>2, HeadOfTwo
<1>4. Piece(t, b, u) /\ Solid(u) /\ u[1] # "NOT" /\ u \in Texts /\ Fixed(u) /\ \A x : Test(x, u) = Compared(o, x, v)
  BY SignTest
<1> HIDE DEF t, u, b
<1>5. \A r \in Cells : m[r] = Test(Operand(c, r), [i \in 1..Len(u) |-> Operand(u[i], r)])
  BY <1>1, <1>4, FixedSame
<1>6. Condition(<<c>> \o t, b, m) \in Goods
  BY <1>1, <1>4, <1>5, LeafGood
<1>7. QED BY <1>3, <1>6 DEF c, b

LEMMA CompareGood ==
  ASSUME NEW o \in Signs, NEW v \in Vals
  PROVE  Compare(LevelCol, o, v) \in Goods /\ CompareCalled(LevelCol, o, v) \in Goods
<1> DEFINE m == [r \in Cells |-> Meant(o, Of(LevelCol, r), v)]
<1>1. LevelCol.ok = TRUE /\ LevelCol.text \in Words /\ \A r : Of(LevelCol, r) = r["level"]
  BY LevelRef DEF LevelCol
<1>2. m \in [Cells -> Three] /\ \A r \in Cells : m[r] = Meant(o, r["level"], v)
  BY <1>1, Logic
<1> HIDE DEF m
<1>5. ASSUME ~(v = Null /\ o \in {"=", "!="}) PROVE Condition(<<LevelCol.text, o, "?">>, <<v>>, m) \in Goods
  <2>1. \A r \in Cells : m[r] = Compared(o, r["level"], v)
    BY <1>2, <1>5 DEF Meant
  <2>2. QED BY <1>2, <2>1, SignGood
<1>7. Compare(LevelCol, o, v) \in Goods
  <2>1. CASE v = Null /\ o = "="
    <3>1. \A r \in Cells : m[r] = Fact(r["level"] = Null)
      BY <1>2, <2>1 DEF Meant
    <3>2. Condition(<<LevelCol.text, "IS", "NULL">>, <<>>, m) \in Goods
      BY <1>2, <3>1, NullGood
    <3>3. Compare(LevelCol, o, v) = Condition(<<LevelCol.text, "IS", "NULL">>, <<>>, m)
      BY <1>1, <2>1 DEF Compare, m
    <3>4. QED BY <3>2, <3>3
  <2>2. CASE v = Null /\ o = "!="
    <3>1. \A r \in Cells : m[r] = Fact(r["level"] # Null)
      BY <1>2, <2>2 DEF Meant
    <3>2. Condition(<<LevelCol.text, "IS", "NOT", "NULL">>, <<>>, m) \in Goods
      BY <1>2, <3>1, ValueGood
    <3>3. Compare(LevelCol, o, v) = Condition(<<LevelCol.text, "IS", "NOT", "NULL">>, <<>>, m)
      BY <1>1, <2>2 DEF Compare, m
    <3>4. QED BY <3>2, <3>3
  <2>3. CASE ~(v = Null /\ o \in {"=", "!="})
    <3>1. Compare(LevelCol, o, v) = Condition(<<LevelCol.text, o, "?">>, <<v>>, m)
      BY <1>1, <2>3 DEF Compare, m
    <3>2. QED BY <1>5, <2>3, <3>1
  <2>4. QED BY <2>1, <2>2, <2>3
<1>8. <<LevelCol.text, o, "?">> \in Texts /\ <<v>> \in Texts
  <2>1. o \in Words /\ "?" \in Words /\ v \in Words
    BY SignWord, ValueWord DEF Words
  <2>2. <<LevelCol.text, o, "?">> \in Texts
    BY <1>1, <2>1 DEF Texts
  <2>3. QED BY <2>1, <2>2, Word
<1> DEFINE k == Condition(<<LevelCol.text, o, "?">>, <<v>>, m)
<1>9. CompareCalled(LevelCol, o, v) = [k EXCEPT !.odd = v = Null /\ o \in {"=", "!="}]
  BY <1>1 DEF CompareCalled, m
<1>10. CompareCalled(LevelCol, o, v) \in Goods
  <2>1. CASE v = Null /\ o \in {"=", "!="}
    <3>1. CompareCalled(LevelCol, o, v) = [k EXCEPT !.odd = TRUE]
      BY <1>9, <2>1
    <3>2. QED BY <1>2, <1>8, <3>1, OddGood
  <2>2. CASE ~(v = Null /\ o \in {"=", "!="})
    <3>1. CompareCalled(LevelCol, o, v) = [k EXCEPT !.odd = FALSE]
      BY <1>9, <2>2
    <3>2. [k EXCEPT !.odd = FALSE] = k
      BY <1>2, <1>8, NotOdd
    <3>3. QED BY <1>5, <2>2, <3>1, <3>2
  <2>3. QED BY <2>1, <2>2
<1>11. QED BY <1>7, <1>10

LEMMA NullnessGood ==
  IsNull(LevelCol) \in Goods /\ HasValue(LevelCol) \in Goods
<1> DEFINE m == [r \in Cells |-> Fact(Of(LevelCol, r) = Null)]
           n == [r \in Cells |-> Fact(Of(LevelCol, r) # Null)]
<1>1. LevelCol.ok = TRUE /\ \A r : Of(LevelCol, r) = r["level"]
  BY LevelRef DEF LevelCol
<1>2. m \in [Cells -> Three] /\ \A r \in Cells : m[r] = Fact(r["level"] = Null)
  BY <1>1, Logic
<1>3. n \in [Cells -> Three] /\ \A r \in Cells : n[r] = Fact(r["level"] # Null)
  BY <1>1, Logic
<1>4. /\ IsNull(LevelCol) = Condition(<<LevelCol.text, "IS", "NULL">>, <<>>, m)
      /\ HasValue(LevelCol) = Condition(<<LevelCol.text, "IS", "NOT", "NULL">>, <<>>, n)
  BY <1>1 DEF IsNull, HasValue
<1> HIDE DEF m, n
<1>5. QED BY <1>2, <1>3, <1>4, NullGood, ValueGood

LEMMA ColumnGood ==
  CompareColumn(RefOf("level"), "=", RefOf("tag")) \in Goods
<1> DEFINE c == RefOf("level")
           d == RefOf("tag")
           m == [r \in Cells |-> Compared("=", Of(c, r), Of(d, r))]
           w == "="
           x == d.text
           u == <<w, x>>
<1>1. c.ok = TRUE /\ c.text \in Heads /\ c.text \in Words /\ \A r : Operand(c.text, r) = r["level"] /\ Of(c, r) = r["level"]
  BY LevelRef
<1>2. d.ok = TRUE /\ x = "t.tag" /\ Plain(x) = "tag"
  BY DEF RefOf, Dotted, Plain
<1>3. x \in Words /\ x \notin {"(", ")", "OR", "AND", "BETWEEN"}
  <2>1. "tag" \in Columns /\ x = Dotted("tag")
    BY DEF Columns, RefOf
  <2>2. x \in {Dotted(e) : e \in Columns}
    BY <2>1
  <2>3. QED BY <1>2, <2>2 DEF Words
<1>4. \A r : Operand(x, r) = r["tag"] /\ Of(d, r) = r["tag"]
  BY <1>2 DEF Operand, Of
<1>5. w \in Words /\ w # "?" /\ w \notin {"(", ")", "OR", "AND", "BETWEEN"} /\ w \notin {"NOT", "IS", "IN"}
      /\ w = "=" /\ Plain(w) \notin {"tag", "level"} /\ x # "?"
  BY <1>2 DEF Words, Plain
<1>6. CompareColumn(c, "=", d) = Condition(<<c.text, w, x>>, <<>>, m)
  BY <1>1, <1>2 DEF CompareColumn
<1>7. m \in [Cells -> Three] /\ \A r \in Cells : m[r] = Compared("=", r["level"], r["tag"])
  BY <1>1, <1>4, Logic
<1> HIDE DEF c, d, m, w
<1>8. u \in Texts /\ Len(u) = 2 /\ u[1] = w /\ u[2] = x /\ <<w>> \o <<x>> = u
  BY <1>3, <1>5, TwoWords
<1>9. <<c.text>> \o u = <<c.text, w, x>>
  BY <1>1, <1>3, <1>5, HeadOfTwo
<1>10. Piece(u, <<>>, u)
  <2>1. Piece(<<w>>, <<>>, <<w>>) /\ Piece(<<x>>, <<>>, <<x>>)
    BY <1>3, <1>5, PieceWord
  <2>2. Piece(Glued(<<w>>, <<x>>), Glued(<<>>, <<>>), Glued(<<w>>, <<x>>))
    BY <2>1, PieceGlued
  <2>3. Glued(<<w>>, <<x>>) = u
    BY <1>8 DEF Glued
  <2>4. Glued(<<>>, <<>>) = <<>>
    BY NoMore, NoWords
  <2>5. QED BY <2>2, <2>3, <2>4
<1>11. Solid(u)
  BY <1>3, <1>5, SolidPair
<1> HIDE DEF u
<1>12. ASSUME NEW r \in Cells
       PROVE  m[r] = Test(Operand(c.text, r), [i \in 1..Len(u) |-> Operand(u[i], r)])
  <2> DEFINE v == [i \in 1..Len(u) |-> Operand(u[i], r)]
  <2>1. v[1] = w /\ v[2] = r["tag"]
    BY <1>4, <1>5, <1>8 DEF Operand
  <2>2. Len(v) = 2
    BY <1>8
  <2> HIDE DEF v
  <2>3. Test(r["level"], v) = Compared(w, r["level"], r["tag"])
    BY <1>5, <2>1, <2>2 DEF Test
  <2>4. Test(Operand(c.text, r), v) = m[r]
    BY <1>1, <1>5, <1>7, <2>3
  <2>5. QED BY <2>4 DEF v
<1>13. u[1] # "NOT"
  BY <1>5, <1>8
<1>14. Condition(<<c.text>> \o u, <<>>, m) \in Goods
  BY <1>1, <1>7, <1>10, <1>11, <1>12, <1>13, LeafGood
<1>15. QED BY <1>6, <1>9, <1>14 DEF c, d

LEMMA BetweenGood ==
  ASSUME NEW list \in Seq(Vals), Len(list) = 2
  PROVE  Between(LevelCol, list) \in Goods /\ NotBetween(LevelCol, list) \in Goods
<1> DEFINE c == LevelCol.text
           v == list[1]
           w == list[2]
           t == <<"BETWEEN", "?", "AND", "?">>
           u == <<"BETWEEN", v, "AND", w>>
           m == [r \in Cells |-> Inside(LevelCol, list, r)]
           n == [r \in Cells |-> Not3(Inside(LevelCol, list, r))]
<1>1. LevelCol.ok = TRUE /\ c \in Heads /\ c \in Words /\ \A r : Operand(c, r) = r["level"] /\ Of(LevelCol, r) = r["level"]
  BY LevelRef DEF LevelCol
<1>2. v \in Vals /\ w \in Vals /\ list = <<v, w>>
  OBVIOUS
<1>3. /\ Piece(t, <<v, w>>, u) /\ Solid(u) /\ u[1] # "NOT" /\ u \in Texts /\ Fixed(u)
      /\ \A x : Test(x, u) = And3(Compared(">=", x, v), Compared("<=", x, w))
  BY <1>2, BetweenTest
<1>4. "BETWEEN" \in Words /\ "?" \in Words /\ "AND" \in Words /\ "NOT" \in Words
  BY DEF Words
<1>5. <<c>> \o t = <<c, "BETWEEN", "?", "AND", "?">>
  BY <1>1, <1>4, HeadOfFour
<1>6. <<c>> \o (<<"NOT">> \o t) = <<c, "NOT", "BETWEEN", "?", "AND", "?">>
  <2>1. <<"NOT">> \o t = <<"NOT", "BETWEEN", "?", "AND", "?">>
    BY <1>4, HeadOfFour
  <2>2. <<c>> \o <<"NOT", "BETWEEN", "?", "AND", "?">> = <<c, "NOT", "BETWEEN", "?", "AND", "?">>
    BY <1>1, <1>4, HeadOfFive
  <2>3. QED BY <2>1, <2>2
<1>7. \A r \in Cells : Inside(LevelCol, list, r) = And3(Compared(">=", r["level"], v), Compared("<=", r["level"], w))
  BY <1>1 DEF Inside
<1>8. m \in [Cells -> Three] /\ \A r \in Cells : m[r] = And3(Compared(">=", r["level"], v), Compared("<=", r["level"], w))
  BY <1>7, Logic
<1>9. n \in [Cells -> Three] /\ \A r \in Cells : n[r] = Not3(And3(Compared(">=", r["level"], v), Compared("<=", r["level"], w)))
  BY <1>7, Logic
<1>10. /\ Between(LevelCol, list) = Condition(<<c, "BETWEEN", "?", "AND", "?">>, list, m)
       /\ NotBetween(LevelCol, list) = Condition(<<c, "NOT", "BETWEEN", "?", "AND", "?">>, list, n)
  <2>1. LevelCol.ok = TRUE
    BY <1>1
  <2>2. Between(LevelCol, list) = Condition(<<c, "BETWEEN", "?", "AND", "?">>, list, m)
    BY <2>1 DEF Between
  <2>3. NotBetween(LevelCol, list) = Condition(<<c, "NOT", "BETWEEN", "?", "AND", "?">>, list, n)
    BY <2>1 DEF NotBetween
  <2>4. QED BY <2>2, <2>3
<1> HIDE DEF m, n, c, t, u
<1>11. \A r \in Cells : m[r] = Test(Operand(c, r), [i \in 1..Len(u) |-> Operand(u[i], r)])
  <2>1. \A r \in Cells : [i \in 1..Len(u) |-> Operand(u[i], r)] = u
    BY <1>3, FixedSame
  <2>2. \A r \in Cells : m[r] = Test(Operand(c, r), u)
    BY <1>1, <1>3, <1>8
  <2>3. QED BY <2>1, <2>2
<1>12. \A r \in Cells : n[r] = Not3(Test(Operand(c, r), u))
  BY <1>1, <1>3, <1>9
<1>13. Piece(t, list, u)
  BY <1>2, <1>3
<1>14. Condition(<<c>> \o t, list, m) \in Goods
  BY <1>1, <1>3, <1>8, <1>11, <1>13, LeafGood
<1>15. Condition(<<c>> \o (<<"NOT">> \o t), list, n) \in Goods
  BY <1>1, <1>3, <1>9, <1>12, <1>13, NotLeafGood
<1>16. QED BY <1>5, <1>6, <1>10, <1>14, <1>15

\* The words of in() and not_in() put together.
LEMMA InTexts ==
  ASSUME NEW c \in Words, NEW s \in Texts
  PROVE  /\ <<c, "IN", "(">> \o s \o <<")">> = <<c>> \o (<<"IN">> \o Enclosed(s))
         /\ <<c, "NOT", "IN", "(">> \o s \o <<")">> = <<c>> \o (<<"NOT">> \o (<<"IN">> \o Enclosed(s)))
<1> DEFINE a == <<c>>
           b == <<"IN">>
           n == <<"NOT">>
           p == <<"(">>
           q == <<")">>
           e == Glued(Glued(p, s), q)
<1>1. "IN" \in Words /\ "NOT" \in Words /\ "(" \in Words /\ ")" \in Words
  BY DEF Words
<1>2. a \in Texts /\ b \in Texts /\ n \in Texts /\ p \in Texts /\ q \in Texts
  <2>1. a \in Texts /\ b \in Texts /\ n \in Texts
    BY <1>1, Word
  <2>2. p \in Texts /\ q \in Texts
    BY <1>1, Word
  <2>3. QED BY <2>1, <2>2
<1>3. Glued(Glued(a, b), p) = <<c, "IN", "(">>
  BY <1>1, ThreeGlued
<1>4. Glued(Glued(a, n), Glued(b, p)) = <<c, "NOT", "IN", "(">>
  BY <1>1, FourGlued
<1>5. /\ <<c, "IN", "(">> \o s \o <<")">> = Glued(Glued(<<c, "IN", "(">>, s), q)
      /\ <<c, "NOT", "IN", "(">> \o s \o <<")">> = Glued(Glued(<<c, "NOT", "IN", "(">>, s), q)
  BY DEF Glued
<1>6. /\ <<c>> \o (<<"IN">> \o Enclosed(s)) = Glued(a, Glued(b, e))
      /\ <<c>> \o (<<"NOT">> \o (<<"IN">> \o Enclosed(s))) = Glued(a, Glued(n, Glued(b, e)))
  BY DEF Glued, Enclosed
<1> HIDE DEF a, b, n, p, q
<1>7. Glued(a, b) \in Texts /\ Glued(p, s) \in Texts /\ Glued(b, p) \in Texts /\ Glued(a, n) \in Texts
  BY <1>2, GluedTexts
<1>8. Glued(Glued(Glued(Glued(a, b), p), s), q) = Glued(a, Glued(b, e))
  <2>1. Glued(Glued(Glued(a, b), p), s) = Glued(Glued(a, b), Glued(p, s))
    BY <1>2, <1>7, GluedThree
  <2>2. Glued(Glued(Glued(a, b), Glued(p, s)), q) = Glued(Glued(a, b), e)
    BY <1>2, <1>7, GluedThree
  <2>3. e \in Texts
    BY <1>2, <1>7, GluedTexts
  <2> HIDE DEF e
  <2>4. Glued(Glued(a, b), e) = Glued(a, Glued(b, e))
    BY <1>2, <2>3, GluedThree
  <2>5. QED BY <2>1, <2>2, <2>4
<1>9. Glued(Glued(Glued(Glued(a, n), Glued(b, p)), s), q) = Glued(a, Glued(n, Glued(b, e)))
  <2> DEFINE an == Glued(a, n)
             ps == Glued(p, s)
  <2>1. Glued(Glued(an, Glued(b, p)), s) = Glued(an, Glued(Glued(b, p), s))
    BY <1>2, <1>7, GluedThree
  <2>2. Glued(Glued(b, p), s) = Glued(b, ps)
    BY <1>2, GluedThree
  <2>3. Glued(b, ps) \in Texts /\ e \in Texts
    BY <1>2, <1>7, GluedTexts
  <2>4. Glued(Glued(an, Glued(b, ps)), q) = Glued(an, Glued(Glued(b, ps), q))
    BY <1>2, <1>7, <2>3, GluedThree
  <2>5. Glued(Glued(b, ps), q) = Glued(b, e)
    BY <1>2, <1>7, GluedThree
  <2> HIDE DEF e
  <2>6. Glued(b, e) \in Texts
    BY <1>2, <2>3, GluedTexts
  <2>7. Glued(Glued(a, n), Glued(b, e)) = Glued(a, Glued(n, Glued(b, e)))
    BY <1>2, <2>6, GluedThree
  <2>8. QED BY <2>1, <2>2, <2>4, <2>5, <2>7
<1>10. QED BY <1>3, <1>4, <1>5, <1>6, <1>8, <1>9

LEMMA InGood ==
  ASSUME NEW list \in Seq(Vals)
  PROVE  In(LevelCol, list) \in Goods /\ NotIn(LevelCol, list) \in Goods
<1> DEFINE c == LevelCol.text
           odd == \E i \in DOMAIN list : list[i] = Null
           m == [r \in Cells |-> AnyOf(list, LevelCol, r)]
           n == [r \in Cells |-> Not3(AnyOf(list, LevelCol, r))]
           f == <<c, "IN", "(">> \o Marks(list) \o <<")">>
           g == <<c, "NOT", "IN", "(">> \o Marks(list) \o <<")">>
<1>1. LevelCol.ok = TRUE /\ c \in Heads /\ c \in Words /\ \A r : Operand(c, r) = r["level"] /\ Of(LevelCol, r) = r["level"]
  BY LevelRef DEF LevelCol
<1>2. m \in [Cells -> Three] /\ n \in [Cells -> Three]
  BY Logic DEF AnyOf
<1>3. CASE list = <<>>
  <2>1. ASSUME NEW r \in Cells PROVE AnyOf(list, LevelCol, r) = "F"
    BY <1>3 DEF AnyOf, Any3
  <2>2. \A r \in Cells : m[r] = "F" /\ n[r] = "T"
    BY <2>1 DEF Not3
  <2>3. In(LevelCol, list) = Condition(<<"1", "=", "0">>, <<>>, m) /\ NotIn(LevelCol, list) = Condition(<<"1", "=", "1">>, <<>>, n)
    BY <1>1, <1>3 DEF In, NotIn
  <2>4. ASSUME NEW v \in {"0", "1"}, NEW k \in [Cells -> Three], \A r \in Cells : k[r] = Compared("=", "1", v)
        PROVE  Condition(<<"1", "=", v>>, <<>>, k) \in Goods
    <3> DEFINE h == "1"
               u == <<"=", v>>
    <3>1. h \in Heads /\ h \in Words /\ \A r : Operand(h, r) = h
      BY HeadWord DEF Heads, Operand, Plain
    <3>2. "=" \in Signs /\ v \in Vals /\ "=" \in Words /\ v \in Words
      BY DEF Signs, Vals, Digits, Words
    <3>3. Piece(<<"=", "?">>, <<v>>, u) /\ Solid(u) /\ u[1] # "NOT" /\ u \in Texts /\ Fixed(u) /\ \A x : Test(x, u) = Compared("=", x, v)
      BY <3>2, SignTest
    <3>4. <<h>> \o u = <<h, "=", v>>
      BY <3>1, <3>2, HeadOfTwo
    <3>5. Piece(u, <<>>, u)
      <4>1. "=" # "?" /\ v # "?"
        OBVIOUS
      <4>2. Piece(<<"=">>, <<>>, <<"=">>)
        BY <3>2, <4>1, PieceWord, Zenon
      <4>3. Piece(<<v>>, <<>>, <<v>>)
        BY <3>2, <4>1, PieceWord, Zenon
      <4>4. Piece(Glued(<<"=">>, <<v>>), Glued(<<>>, <<>>), Glued(<<"=">>, <<v>>))
        BY <4>2, <4>3, PieceGlued
      <4>5. Glued(<<"=">>, <<v>>) = u
        <5>1. <<"=">> \o <<v>> = u
          BY <3>2, TwoWords
        <5>2. QED BY <5>1 DEF Glued
      <4>6. Glued(<<>>, <<>>) = <<>>
        BY NoMore, NoWords
      <4>7. QED BY <4>4, <4>5, <4>6
    <3> HIDE DEF u
    <3>6. \A r \in Cells : k[r] = Test(Operand(h, r), [i \in 1..Len(u) |-> Operand(u[i], r)])
      BY <2>4, <3>1, <3>3, FixedSame
    <3>7. Condition(<<h>> \o u, <<>>, k) \in Goods
      <4> HIDE DEF h
      <4>1. QED BY <3>1, <3>3, <3>5, <3>6, LeafGood
    <3>8. QED BY <3>4, <3>7
  <2>5. Compared("=", "1", "0") = "F" /\ Compared("=", "1", "1") = "T"
    BY DEF Compared, Null
  <2> HIDE DEF m, n
  <2>6. Condition(<<"1", "=", "0">>, <<>>, m) \in Goods
    BY <1>2, <2>2, <2>4, <2>5
  <2>7. Condition(<<"1", "=", "1">>, <<>>, n) \in Goods
    BY <1>2, <2>2, <2>4, <2>5
  <2>8. QED BY <2>3, <2>6, <2>7
<1>4. CASE list # <<>>
  <2> DEFINE s == Marks(list)
             t == <<"IN">> \o Enclosed(s)
             u == <<"IN">> \o Enclosed(Fill(s, list))
  <2>1. In(LevelCol, list) = [Condition(f, list, m) EXCEPT !.odd = odd] /\ NotIn(LevelCol, list) = [Condition(g, list, n) EXCEPT !.odd = odd]
    BY <1>1, <1>4 DEF In, NotIn
  <2>2. /\ Piece(t, list, u) /\ Solid(u) /\ u[1] # "NOT" /\ u \in Texts /\ Fixed(u)
        /\ \A x : Test(x, u) = Any3({Compared("=", x, list[i]) : i \in DOMAIN list})
    BY <1>4, InTest
  <2>3. s \in Texts /\ list \in Texts
    BY <1>4, MarksAre DEF Fit
  <2>4. f = <<c>> \o t /\ g = <<c>> \o (<<"NOT">> \o t)
    BY <1>1, <2>3, InTexts
  <2>5. f \in Texts /\ g \in Texts
    <3>1. t \in Texts
      BY <2>2, PieceFill
    <3>2. "NOT" \in Words
      BY DEF Words
    <3> HIDE DEF t, f, g, c
    <3>3. <<c>> \o t \in Texts /\ <<"NOT">> \o t \in Texts
      BY <1>1, <3>1, <3>2, HeadOn
    <3>4. <<c>> \o (<<"NOT">> \o t) \in Texts
      BY <1>1, <3>3, HeadOn
    <3>5. QED BY <2>4, <3>3, <3>4
  <2>6. CASE odd
    <3> HIDE DEF f, g, m, n
    <3>1. In(LevelCol, list) = [Condition(f, list, m) EXCEPT !.odd = TRUE] /\ NotIn(LevelCol, list) = [Condition(g, list, n) EXCEPT !.odd = TRUE]
      BY <2>1, <2>6
    <3>2. QED BY <1>2, <2>3, <2>5, <3>1, OddGood
  <2>7. CASE ~odd
    <3>1. ASSUME NEW r \in Cells PROVE AnyOf(list, LevelCol, r) = Test(r["level"], u)
      <4>1. \A i \in DOMAIN list : Meant("=", r["level"], list[i]) = Compared("=", r["level"], list[i])
        BY <2>7 DEF Meant
      <4>2. {Meant("=", Of(LevelCol, r), list[i]) : i \in DOMAIN list} = {Compared("=", r["level"], list[i]) : i \in DOMAIN list}
        BY <1>1, <4>1
      <4>3. QED BY <2>2, <4>2 DEF AnyOf
    <3>2. \A r \in Cells : m[r] = Test(r["level"], u) /\ n[r] = Not3(Test(r["level"], u))
      BY <3>1
    <3> HIDE DEF f, g, m, n, t, u
    <3>3. \A r \in Cells : m[r] = Test(Operand(c, r), [i \in 1..Len(u) |-> Operand(u[i], r)])
      BY <1>1, <2>2, <3>2, FixedSame
    <3>4. \A r \in Cells : n[r] = Not3(Test(Operand(c, r), u))
      BY <1>1, <3>2
    <3> HIDE DEF c
    <3>5. Condition(<<c>> \o t, list, m) \in Goods
      BY <1>1, <1>2, <2>2, <3>3, LeafGood
    <3>6. Condition(<<c>> \o (<<"NOT">> \o t), list, n) \in Goods
      BY <1>1, <1>2, <2>2, <3>4, NotLeafGood
    <3>7. In(LevelCol, list) = [Condition(f, list, m) EXCEPT !.odd = FALSE] /\ NotIn(LevelCol, list) = [Condition(g, list, n) EXCEPT !.odd = FALSE]
      BY <2>1, <2>7
    <3>8. [Condition(f, list, m) EXCEPT !.odd = FALSE] = Condition(f, list, m) /\ [Condition(g, list, n) EXCEPT !.odd = FALSE] = Condition(g, list, n)
      BY <1>2, <2>3, <2>5, NotOdd
    <3>9. QED BY <2>4, <3>5, <3>6, <3>7, <3>8
  <2>8. QED BY <2>6, <2>7
<1>5. QED BY <1>3, <1>4

LEMMA LeavesGood ==
  Leaves \subseteq Goods
<1>1. Levels \cup {Null} \subseteq Vals
  BY ValuesAreDigits DEF Vals
<1>2. \A l \in Lists : l \in Seq(Vals)
  BY ListsOfValues DEF Vals
<1>3. {Compare(LevelCol, op, v) : op \in {"=", "!=", "<", ">="}, v \in Levels \cup {Null}} \subseteq Goods
  BY <1>1, CompareGood DEF Signs
<1>4. {CompareCalled(LevelCol, "=", v) : v \in Levels \cup {Null}} \subseteq Goods
  BY <1>1, CompareGood DEF Signs
<1>5. {In(LevelCol, l) : l \in Lists} \subseteq Goods /\ {NotIn(LevelCol, l) : l \in Lists} \subseteq Goods
  BY <1>2, InGood
<1>6. /\ {Between(LevelCol, l) : l \in {m \in Lists : Len(m) = 2}} \subseteq Goods
      /\ {NotBetween(LevelCol, l) : l \in {m \in Lists : Len(m) = 2}} \subseteq Goods
  BY <1>2, BetweenGood
<1>7. {Invalid, NoCondition, CompareColumn(RefOf("level"), "=", RefOf("tag")), IsNull(LevelCol), HasValue(LevelCol)} \subseteq Goods
  BY PlainGood, ColumnGood, NullnessGood
<1>8. LevelCol = Ref("level")
  BY DEF LevelCol
<1>9. QED BY <1>3, <1>4, <1>5, <1>6, <1>7, <1>8 DEF Leaves

-----------------------------------------------------------------------------
(* Conditions put together mean what their texts say.                      *)

LEMMA NotEnclosed ==
  ASSUME NEW t \in Texts
  PROVE  <<"NOT", "(">> \o t \o <<")">> = Glued(<<"NOT">>, Enclosed(t))
<1> DEFINE n == <<"NOT">>
           p == <<"(">>
           q == <<")">>
           np == <<"NOT", "(">>
<1>1. "NOT" \in Words /\ "(" \in Words /\ ")" \in Words
  BY DEF Words
<1>2. n \in Texts /\ p \in Texts /\ q \in Texts
  BY <1>1, Word, Zenon
<1>3. n \o p = np
  BY <1>1, TwoWords
<1> HIDE DEF n, p, q, np
<1>4. Glued(n, p) = np
  BY <1>3 DEF Glued
<1>5. Glued(np, t) = Glued(n, Glued(p, t))
  BY <1>2, <1>4, GluedThree
<1>6. Glued(p, t) \in Texts
  BY <1>2, GluedTexts
<1>7. Glued(Glued(np, t), q) = Glued(n, Glued(Glued(p, t), q))
  BY <1>2, <1>5, <1>6, GluedThree
<1>8. Glued(Glued(np, t), q) = np \o t \o q /\ Glued(Glued(p, t), q) = p \o t \o q
  BY DEF Glued
<1>9. QED BY <1>7, <1>8 DEF Enclosed, n, p, q, np

LEMMA TidyText ==
  ASSUME NEW s, Solid(s)
  PROVE  Balanced(s) /\ s # <<>> /\ s[Len(s)] # "BETWEEN" /\ s \in Texts
BY DEF Solid, TidyEnd, Balanced

\* NOT of an enclosed text.
LEMMA FillNot ==
  ASSUME NEW t, NEW bs, Fit(t, bs), Solid(Fill(t, bs))
  PROVE  LET u == Glued(<<"NOT">>, Enclosed(t))
         IN /\ Fit(u, bs) /\ Solid(Fill(u, bs))
            /\ \A r \in Cells : Reading[Fill(u, bs)][r] = Not3(Reading[Fill(t, bs)][r])
<1> DEFINE n == <<"NOT">>
           e == Enclosed(t)
           f == Fill(t, bs)
           g == Enclosed(f)
<1>1. Piece(n, <<>>, n)
  <2>1. "NOT" \in Words /\ "NOT" # "?"
    BY DEF Words
  <2>2. QED BY <2>1, PieceWord, Zenon
<1>2. Piece(e, bs, g)
  BY FillEnclosed DEF Piece
<1>3. Solid(g) /\ \A r \in Cells : Reading[g][r] = Reading[f][r]
  BY TidyText, SolidEnclosed, ReadEnclosed
<1>4. \A r \in Cells : Solid(n \o g) /\ Reading[n \o g][r] = Not3(Reading[g][r])
  BY <1>3, ReadNot
<1>5. Solid(n \o g)
  <2>1. Solid(n)
    <3>1. "NOT" \in Words /\ "NOT" \notin {"(", ")", "OR", "AND", "BETWEEN"}
      BY DEF Words
    <3>2. QED BY <3>1, SolidWord, Zenon
  <2> HIDE DEF n, g
  <2>2. QED BY <1>3, <2>1, SolidGlue
<1> HIDE DEF n, e, f, g
<1>6. Glued(<<>>, bs) = bs
  BY NoMore DEF Fit
<1>7. Piece(Glued(n, e), bs, Glued(n, g))
  BY <1>1, <1>2, <1>6, PieceGlued
<1>8. Fit(Glued(n, e), bs) /\ Fill(Glued(n, e), bs) = n \o g
  BY <1>7 DEF Piece, Glued
<1>9. QED BY <1>3, <1>4, <1>5, <1>8 DEF n, e, f

LEMMA NegatedGood ==
  ASSUME NEW a \in Goods
  PROVE  Negated(a) \in Goods
<1> DEFINE u == Glued(<<"NOT">>, Enclosed(a.text))
           m == [r \in Cells |-> Not3(a.means[r])]
           c == [a EXCEPT !.text = u, !.means = m]
<1>1. a \in Conditions /\ Sound(a)
  BY DEF Goods
<1>2. CASE ~a.ok \/ a.text = <<>>
  BY <1>2 DEF Negated
<1>3. CASE ~(~a.ok \/ a.text = <<>>)
  <2>1. a.text \in Texts
    BY <1>1 DEF Conditions
  <2>2. <<"NOT", "(">> \o a.text \o <<")">> = u
    BY <2>1, NotEnclosed
  <2> HIDE DEF u
  <2>3. Negated(a) = c
    BY <1>3, <2>2 DEF Negated
  <2>4. m \in [Cells -> Three] /\ \A r \in Cells : m[r] = Not3(a.means[r])
    BY Logic
  <2>5. u \in Texts
    <3>1. "NOT" \in Words /\ "(" \in Words /\ ")" \in Words
      BY DEF Words
    <3>2. <<"NOT">> \in Texts /\ <<"(">> \in Texts /\ <<")">> \in Texts
      BY <3>1, Word, Zenon
    <3>3. Enclosed(a.text) \in Texts
      BY <2>1, <3>2, Glue DEF Enclosed
    <3>4. QED BY <3>2, <3>3, GluedTexts DEF u
  <2> HIDE DEF m
  <2>6. /\ c \in Conditions /\ c.text = u /\ c.means = m /\ c.binders = a.binders /\ c.ok = a.ok
        /\ c.valid = a.valid /\ c.odd = a.odd
    BY <1>1, <2>4, <2>5 DEF Conditions
  <2> HIDE DEF c
  <2>7. ASSUME ~a.odd
        PROVE  /\ Fit(u, a.binders) /\ Solid(Fill(u, a.binders))
               /\ \A r \in Cells : Reading[Fill(u, a.binders)][r] = m[r]
    <3>1. /\ Fit(a.text, a.binders) /\ Solid(Fill(a.text, a.binders))
          /\ \A r \in Cells : Reading[Fill(a.text, a.binders)][r] = a.means[r]
      BY <1>1, <1>3, <2>7 DEF Sound
    <3>2. /\ Fit(u, a.binders) /\ Solid(Fill(u, a.binders))
          /\ \A r \in Cells : Reading[Fill(u, a.binders)][r] = Not3(Reading[Fill(a.text, a.binders)][r])
      BY <3>1, FillNot DEF u
    <3>3. QED BY <2>4, <3>1, <3>2
  <2>8. ~a.odd => u # <<>>
    <3>1. SUFFICES ASSUME ~a.odd PROVE u # <<>>
      OBVIOUS
    <3>2. Len(Fill(u, a.binders)) = Len(u) /\ Fill(u, a.binders) # <<>> /\ Fill(u, a.binders) \in Texts
      BY <2>7, <3>1, FillType, TidyText
    <3>3. QED BY <3>2 DEF Texts
  <2>9. Sound(c)
    BY <1>1, <2>6, <2>7, <2>8 DEF Sound
  <2>10. QED BY <2>3, <2>6, <2>9 DEF Goods
<1>4. QED BY <1>2, <1>3

LEMMA Kept ==
  ASSUME NEW c \in Goods, NEW v \in BOOLEAN, NEW o \in BOOLEAN, c.ok => v, c.odd => o
  PROVE  [c EXCEPT !.valid = v, !.odd = o] \in Goods
<1> DEFINE d == [c EXCEPT !.valid = v]
           e == [d EXCEPT !.odd = o]
<1>1. c \in Conditions /\ Sound(c)
  BY DEF Goods
<1>2. /\ d \in Conditions /\ d.text = c.text /\ d.binders = c.binders /\ d.means = c.means
      /\ d.ok = c.ok /\ d.valid = v /\ d.odd = c.odd
  BY <1>1 DEF Conditions
<1> HIDE DEF d
<1>3. /\ e \in Conditions /\ e.text = c.text /\ e.binders = c.binders /\ e.means = c.means
      /\ e.ok = c.ok /\ e.valid = v /\ e.odd = o
  BY <1>2 DEF Conditions
<1> HIDE DEF e
<1>4. Sound(e)
  BY <1>1, <1>3 DEF Sound
<1>5. e \in Goods
  BY <1>3, <1>4 DEF Goods
<1>6. QED BY <1>5 DEF e, d

LEMMA KeptOdd ==
  ASSUME NEW t \in Texts, NEW bs \in Texts, NEW m \in [Cells -> Three], NEW v \in BOOLEAN, v
  PROVE  [Condition(t, bs, m) EXCEPT !.valid = v, !.odd = TRUE] \in Goods
BY DEF Condition, Goods, Conditions, Sound

LEMMA JoinedTexts ==
  ASSUME NEW a \in Texts, NEW b \in Texts, NEW w \in {"OR", "AND"}
  PROVE  Joined(a, w, b) \in Texts
<1>1. "(" \in Words /\ ")" \in Words /\ w \in Words
  BY DEF Words
<1>2. <<"(">> \in Texts /\ <<")">> \in Texts
  BY <1>1, Word, Zenon
<1>3. <<w>> \in Texts
  BY <1>1, Word
<1> DEFINE p == <<"(">>
           q == <<")">>
           k == <<w>>
           l == p \o a
           n == l \o k
           o == n \o b
<1>4. p \in Texts /\ q \in Texts /\ k \in Texts
  BY <1>2, <1>3
<1> HIDE DEF p, q, k
<1>5. l \in Texts
  BY <1>4, Glue
<1> HIDE DEF l
<1>6. n \in Texts
  BY <1>4, <1>5, Glue
<1> HIDE DEF n
<1>7. o \in Texts
  BY <1>6, Glue
<1> HIDE DEF o
<1>8. o \o q \in Texts
  BY <1>4, <1>7, Glue
<1>9. QED BY <1>8 DEF Joined, o, n, l, k, p, q

LEMMA SolidJoined ==
  ASSUME NEW a, NEW b, Solid(a), Solid(b), NEW w \in {"OR", "AND"}
  PROVE  Solid(Joined(a, w, b))
<1> DEFINE t == Between3(a, w, b)
<1>1. Balanced(t) /\ Len(t) = Len(a) + 1 + Len(b) /\ Len(a) \in Nat /\ Len(b) \in Nat /\ t[Len(t)] # "BETWEEN"
  BY TopBetween
<1>2. Joined(a, w, b) = Enclosed(t)
  BY DEF Joined, Enclosed, Between3
<1> HIDE DEF t
<1>3. t # <<>>
  BY <1>1 DEF Balanced, Texts
<1>4. QED BY <1>1, <1>2, <1>3, SolidEnclosed

LEMMA JoinedGood ==
  ASSUME NEW a \in Goods, NEW b \in Goods, a.ok, b.ok, a.text # <<>>, b.text # <<>>,
         NEW w \in {"OR", "AND"}, NEW m \in [Cells -> Three],
         \A r \in Cells : m[r] = IF w = "OR" THEN Or3(a.means[r], b.means[r]) ELSE And3(a.means[r], b.means[r]),
         NEW v, NEW o, v = (a.valid /\ b.valid), o = (a.odd \/ b.odd)
  PROVE  [Condition(Joined(a.text, w, b.text), a.binders \o b.binders, m) EXCEPT !.valid = v, !.odd = o] \in Goods
<1> DEFINE t == Joined(a.text, w, b.text)
           bs == a.binders \o b.binders
           c == Condition(t, bs, m)
<1>1. /\ a \in Conditions /\ Sound(a) /\ a.valid /\ a.text \in Texts /\ a.binders \in Texts
      /\ b \in Conditions /\ Sound(b) /\ b.valid /\ b.text \in Texts /\ b.binders \in Texts
  BY DEF Goods, Sound, Conditions
<1>2. v \in BOOLEAN /\ v /\ o \in BOOLEAN
  BY <1>1 DEF Conditions
<1>3. t \in Texts /\ bs \in Texts
  BY <1>1, JoinedTexts, Glue
<1>4. CASE o
  <2>1. [c EXCEPT !.valid = v, !.odd = TRUE] \in Goods
    <3> HIDE DEF t, bs
    <3>1. QED BY <1>2, <1>3, KeptOdd
  <2>2. o = TRUE
    BY <1>2, <1>4
  <2>3. QED BY <2>1, <2>2
<1>5. CASE ~o
  <2> DEFINE f == Fill(a.text, a.binders)
             g == Fill(b.text, b.binders)
  <2>1. /\ Fit(a.text, a.binders) /\ Solid(f) /\ \A r \in Cells : Reading[f][r] = a.means[r]
        /\ Fit(b.text, b.binders) /\ Solid(g) /\ \A r \in Cells : Reading[g][r] = b.means[r]
    BY <1>1, <1>5 DEF Sound
  <2>2. Fit(t, bs) /\ Fill(t, bs) = Joined(f, w, g)
    BY <2>1, FillJoined
  <2> HIDE DEF f, g
  <2>3. \A r \in Cells : /\ Solid(Joined(f, w, g))
                         /\ Reading[Joined(f, w, g)][r] =
                              IF w = "OR" THEN Or3(Reading[f][r], Reading[g][r]) ELSE And3(Reading[f][r], Reading[g][r])
    BY <2>1, ReadJoined
  <2>4. \A r \in Cells : Reading[Joined(f, w, g)][r] = m[r]
    BY <2>1, <2>3
  <2>5. Solid(Joined(f, w, g))
    BY <2>1, SolidJoined
  <2> HIDE DEF t, bs
  <2>6. c \in Goods
    BY <2>2, <2>4, <2>5, ConditionGood
  <2>7. c.ok = TRUE /\ c.odd = FALSE
    BY DEF Condition
  <2> HIDE DEF c
  <2>8. [c EXCEPT !.valid = v, !.odd = o] \in Goods
    BY <1>2, <2>6, <2>7, Kept
  <2>9. QED BY <2>8 DEF c, t, bs
<1>6. QED BY <1>4, <1>5

\* && and || of conditions, each of them with its word and its logic.
LEMMA AndGood ==
  ASSUME NEW a \in Goods, NEW b \in Goods
  PROVE  And(a, b) \in Goods
<1> DEFINE m == [r \in Cells |-> And3(a.means[r], b.means[r])]
           v == a.valid /\ b.valid
           o == a.odd \/ b.odd
<1>1. m \in [Cells -> Three] /\ \A r \in Cells : m[r] = And3(a.means[r], b.means[r])
  BY Logic
<1>2. v \in BOOLEAN /\ o \in BOOLEAN /\ (a.ok => a.valid) /\ (b.ok => b.valid)
  BY DEF Goods, Sound, Conditions
<1>3. ASSUME a.ok, b.ok, a.text # <<>>, b.text # <<>> PROVE And(a, b) \in Goods
  <2>1. And(a, b) = [Condition(Joined(a.text, "AND", b.text), a.binders \o b.binders, m) EXCEPT !.valid = v, !.odd = o]
    BY <1>3 DEF And, Both
  <2>2. "AND" \in {"OR", "AND"} /\ \A r \in Cells :
          m[r] = IF "AND" = "OR" THEN Or3(a.means[r], b.means[r]) ELSE And3(a.means[r], b.means[r])
    BY <1>1
  <2>3. v = (a.valid /\ b.valid) /\ o = (a.odd \/ b.odd)
    OBVIOUS
  <2> HIDE DEF m, v, o
  <2>4. [Condition(Joined(a.text, "AND", b.text), a.binders \o b.binders, m) EXCEPT !.valid = v, !.odd = o] \in Goods
    BY <1>1, <1>3, <2>2, <2>3, JoinedGood
  <2>5. QED BY <2>1, <2>4
<1>4. ASSUME NEW c \in {a, b}, c.ok => a.ok /\ b.ok, And(a, b) = [c EXCEPT !.valid = v, !.odd = o] PROVE And(a, b) \in Goods
  <2>1. (c.ok => v) /\ (c.odd => o)
    BY <1>2, <1>4
  <2> HIDE DEF v, o
  <2>2. [c EXCEPT !.valid = v, !.odd = o] \in Goods
    BY <1>2, <2>1, Kept
  <2>3. QED BY <1>4, <2>2
<1>5. CASE ~a.ok
  <2>1. And(a, b) = [a EXCEPT !.valid = v, !.odd = o]
    BY <1>5 DEF And, Both
  <2>2. QED BY <1>4, <1>5, <2>1
<1>6. CASE a.ok /\ ~b.ok
  <2>1. And(a, b) = [b EXCEPT !.valid = v, !.odd = o]
    BY <1>6 DEF And, Both
  <2>2. QED BY <1>4, <1>6, <2>1
<1>7. CASE a.ok /\ b.ok /\ a.text = <<>>
  <2>1. And(a, b) = [b EXCEPT !.valid = v, !.odd = o]
    BY <1>7 DEF And, Both
  <2>2. QED BY <1>4, <1>7, <2>1
<1>8. CASE a.ok /\ b.ok /\ a.text # <<>> /\ b.text = <<>>
  <2>1. And(a, b) = [a EXCEPT !.valid = v, !.odd = o]
    BY <1>8 DEF And, Both
  <2>2. QED BY <1>4, <1>8, <2>1
<1>9. CASE a.ok /\ b.ok /\ a.text # <<>> /\ b.text # <<>>
  BY <1>3, <1>9
<1> HIDE DEF m, v, o
<1>10. QED BY <1>5, <1>6, <1>7, <1>8, <1>9, Zenon

LEMMA OrGood ==
  ASSUME NEW a \in Goods, NEW b \in Goods
  PROVE  Or(a, b) \in Goods
<1> DEFINE m == [r \in Cells |-> Or3(a.means[r], b.means[r])]
           v == a.valid /\ b.valid
           o == a.odd \/ b.odd
<1>1. m \in [Cells -> Three] /\ \A r \in Cells : m[r] = Or3(a.means[r], b.means[r])
  BY Logic
<1>2. v \in BOOLEAN /\ o \in BOOLEAN /\ (a.ok => a.valid) /\ (b.ok => b.valid)
  BY DEF Goods, Sound, Conditions
<1>3. ASSUME a.ok, b.ok, a.text # <<>>, b.text # <<>> PROVE Or(a, b) \in Goods
  <2>1. Or(a, b) = [Condition(Joined(a.text, "OR", b.text), a.binders \o b.binders, m) EXCEPT !.valid = v, !.odd = o]
    BY <1>3 DEF Or, Both
  <2>2. "OR" \in {"OR", "AND"} /\ \A r \in Cells :
          m[r] = IF "OR" = "OR" THEN Or3(a.means[r], b.means[r]) ELSE And3(a.means[r], b.means[r])
    BY <1>1
  <2>3. v = (a.valid /\ b.valid) /\ o = (a.odd \/ b.odd)
    OBVIOUS
  <2> HIDE DEF m, v, o
  <2>4. [Condition(Joined(a.text, "OR", b.text), a.binders \o b.binders, m) EXCEPT !.valid = v, !.odd = o] \in Goods
    BY <1>1, <1>3, <2>2, <2>3, JoinedGood
  <2>5. QED BY <2>1, <2>4
<1>4. ASSUME NEW c \in {a, b}, c.ok => a.ok /\ b.ok, Or(a, b) = [c EXCEPT !.valid = v, !.odd = o] PROVE Or(a, b) \in Goods
  <2>1. (c.ok => v) /\ (c.odd => o)
    BY <1>2, <1>4
  <2> HIDE DEF v, o
  <2>2. [c EXCEPT !.valid = v, !.odd = o] \in Goods
    BY <1>2, <2>1, Kept
  <2>3. QED BY <1>4, <2>2
<1>5. CASE ~a.ok
  <2>1. Or(a, b) = [a EXCEPT !.valid = v, !.odd = o]
    BY <1>5 DEF Or, Both
  <2>2. QED BY <1>4, <1>5, <2>1
<1>6. CASE a.ok /\ ~b.ok
  <2>1. Or(a, b) = [b EXCEPT !.valid = v, !.odd = o]
    BY <1>6 DEF Or, Both
  <2>2. QED BY <1>4, <1>6, <2>1
<1>7. CASE a.ok /\ b.ok /\ a.text = <<>>
  <2>1. Or(a, b) = [b EXCEPT !.valid = v, !.odd = o]
    BY <1>7 DEF Or, Both
  <2>2. QED BY <1>4, <1>7, <2>1
<1>8. CASE a.ok /\ b.ok /\ a.text # <<>> /\ b.text = <<>>
  <2>1. Or(a, b) = [a EXCEPT !.valid = v, !.odd = o]
    BY <1>8 DEF Or, Both
  <2>2. QED BY <1>4, <1>8, <2>1
<1>9. CASE a.ok /\ b.ok /\ a.text # <<>> /\ b.text # <<>>
  BY <1>3, <1>9
<1> HIDE DEF m, v, o
<1>10. QED BY <1>5, <1>6, <1>7, <1>8, <1>9, Zenon

\* A condition as the operand of a comparison.
LEMMA OperandGood ==
  ASSUME NEW c \in Goods, NEW ref \in {Ref("level"), InvalidRef}
  PROVE  CompareCondition(ref, "=", c) \in Goods
<1>1. CASE ~ref.ok \/ ~c.ok
  <2>1. CompareCondition(ref, "=", c) = [Invalid EXCEPT !.valid = FALSE]
    BY <1>1 DEF CompareCondition
  <2>2. [Invalid EXCEPT !.valid = FALSE] \in Goods
    <3>1. Invalid \in Goods /\ Invalid \in Conditions /\ Invalid.ok = FALSE /\ Sound(Invalid)
      BY PlainGood DEF Goods, Invalid, Condition
    <3> DEFINE d == [Invalid EXCEPT !.valid = FALSE]
    <3>2. /\ d \in Conditions /\ d.text = Invalid.text /\ d.binders = Invalid.binders /\ d.means = Invalid.means
          /\ d.ok = FALSE /\ d.odd = Invalid.odd
      BY <3>1 DEF Conditions
    <3> HIDE DEF d
    <3>3. Sound(d)
      BY <3>1, <3>2 DEF Sound
    <3>4. d \in Goods
      BY <3>2, <3>3 DEF Goods
    <3>5. QED BY <3>4 DEF d
  <2>3. QED BY <2>1, <2>2
<1>2. CASE ~(~ref.ok \/ ~c.ok)
  <2> DEFINE t == <<ref.text, "=">> \o c.text
  <2>1. c \in Conditions /\ c.valid = TRUE /\ c.text \in Texts
    BY <1>2 DEF Goods, Conditions, Sound
  <2>2. ref = Ref("level")
    <3>1. InvalidRef.ok = FALSE
      BY DEF InvalidRef
    <3>2. QED BY <1>2, <3>1
  <2>3. ref.text \in Words /\ "=" \in Words
    BY <2>2, LevelRef DEF Words
  <2>4. t \in Texts
    <3>1. <<ref.text, "=">> \in Texts
      BY <2>3, TwoWords
    <3>2. QED BY <2>1, <3>1, Glue
  <2>5. NoCondition.means \in [Cells -> Three]
    BY PlainGood DEF Goods, Conditions
  <2>6. CompareCondition(ref, "=", c) = [Condition(t, <<>>, NoCondition.means) EXCEPT !.odd = TRUE, !.valid = c.valid]
    BY <1>2 DEF CompareCondition
  <2> HIDE DEF t
  <2>7. [Condition(t, <<>>, NoCondition.means) EXCEPT !.odd = TRUE, !.valid = c.valid] \in Goods
    BY <2>1, <2>4, <2>5, NoWords DEF Condition, Goods, Conditions, Sound
  <2>8. QED BY <2>6, <2>7
<1>3. QED BY <1>1, <1>2

-----------------------------------------------------------------------------
(* Functions defined from the one before.                                  *)

Walk(f, n, V, a, step) == f \in [0..n -> V] /\ f[0] = a /\ \A i \in 1..n : f[i] = step[i][f[i - 1]]

LEMMA StepByStep ==
  ASSUME NEW n \in Nat, NEW V, NEW a \in V, NEW step \in [1..n -> [V -> V]]
  PROVE  \E f : Walk(f, n, V, a, step)
<1> DEFINE Steps(f, m) == f[0] = a /\ \A i \in 1..m : f[i] = step[i][f[i - 1]]
           S == {m \in 0..n : \E f \in [0..n -> V] : Steps(f, m)}
<1>1. 0 \in S
  <2> DEFINE h == [i \in 0..n |-> a]
  <2>1. h \in [0..n -> V] /\ h[0] = a /\ 0 \in 0..n
    OBVIOUS
  <2>2. \A i \in 1..0 : h[i] = step[i][h[i - 1]]
    OBVIOUS
  <2> HIDE DEF h
  <2>3. QED BY <2>1, <2>2
<1>2. ASSUME NEW m \in 1..n, m - 1 \in S PROVE m \in S
  <2>1. PICK f \in [0..n -> V] : Steps(f, m - 1)
    BY <1>2
  <2> DEFINE g == [f EXCEPT ![m] = step[m][f[m - 1]]]
  <2>2. step[m][f[m - 1]] \in V
    OBVIOUS
  <2>3. g \in [0..n -> V] /\ g[m] = step[m][f[m - 1]] /\ \A i \in 0..n : i # m => g[i] = f[i]
    BY <2>2
  <2> HIDE DEF g
  <2>4. g[0] = a
    BY <2>1, <2>3
  <2>5. ASSUME NEW i \in 1..m PROVE g[i] = step[i][g[i - 1]]
    <3>1. g[i - 1] = f[i - 1]
      BY <2>3
    <3>2. i # m => i \in 1..(m - 1) /\ g[i] = f[i]
      BY <2>3
    <3>3. QED BY <2>1, <2>3, <3>1, <3>2
  <2>6. Steps(g, m)
    BY <2>4, <2>5
  <2>7. QED BY <2>3, <2>6
<1> HIDE DEF S
<1>3. \A i \in 0..n : i \in S
  BY <1>1, <1>2, Climb
<1>4. n \in S
  BY <1>3
<1>5. QED BY <1>4 DEF S, Walk

\* The condition of a select.
LEMMA SelectGood ==
  ASSUME NEW w \in Seq(Goods)
  PROVE  SelectWhere(w) \in Goods
<1> DEFINE n == Len(w)
           a == NoCondition
           step == [i \in 1..n |-> [c \in Goods |-> And(c, w[i])]]
           g == CHOOSE f : f = [i \in 0..n |-> IF i = 0 THEN a ELSE And(f[i - 1], w[i])]
<1>1. n \in Nat /\ a \in Goods /\ \A i \in 1..n : w[i] \in Goods
  BY PlainGood
<1>2. step \in [1..n -> [Goods -> Goods]] /\ \A i \in 1..n : \A c \in Goods : step[i][c] = And(c, w[i])
  BY <1>1, AndGood
<1>3. SelectWhere(w) = g[n]
  BY DEF SelectWhere
<1> HIDE DEF n, a, step
<1>4. PICK f : Walk(f, n, Goods, a, step)
  BY <1>1, <1>2, StepByStep
<1>5. ASSUME NEW i \in 0..n PROVE f[i] = (IF i = 0 THEN a ELSE And(f[i - 1], w[i]))
  <2>1. i # 0 => i \in 1..n /\ f[i - 1] \in Goods
    BY <1>1, <1>4 DEF Walk
  <2>2. QED BY <1>2, <1>4, <2>1 DEF Walk
<1>6. f = [i \in 0..n |-> IF i = 0 THEN a ELSE And(f[i - 1], w[i])]
  BY <1>4, <1>5 DEF Walk
<1>7. g = [i \in 0..n |-> IF i = 0 THEN a ELSE And(g[i - 1], w[i])]
  BY <1>6
<1> HIDE DEF g
<1> DEFINE S == {i \in 0..n : g[i] \in Goods}
<1>8. 0 \in S
  BY <1>1, <1>7
<1>9. ASSUME NEW i \in 1..n, i - 1 \in S PROVE i \in S
  <2>1. g[i] = And(g[i - 1], w[i]) /\ g[i - 1] \in Goods /\ i \in 0..n
    BY <1>1, <1>7, <1>9
  <2>2. g[i] \in Goods
    BY <1>1, <2>1, AndGood
  <2>3. QED BY <2>1, <2>2
<1> HIDE DEF S
<1>10. \A i \in 0..n : i \in S
  BY <1>1, <1>8, <1>9, Climb
<1>11. n \in S
  BY <1>1, <1>10
<1>12. QED BY <1>3, <1>11 DEF S

-----------------------------------------------------------------------------
(* The rows found are the rows meant.                                      *)

LEMMA CellOf ==
  ASSUME NEW r \in Rows
  PROVE  Cell(r) \in Cells
BY DEF Rows, Cells, Cell

LEMMA ReplaceGood ==
  ASSUME NEW w \in Seq(Goods)
  PROVE  ReplaceWhere(w) \in Goods
<1>1. CASE w = <<>>
  BY <1>1, PlainGood DEF ReplaceWhere
<1>2. CASE w # <<>>
  <2>1. Last(w) = w[Len(w)] /\ Len(w) \in 1..Len(w)
    BY <1>2 DEF Last
  <2>2. QED BY <1>2, <2>1 DEF ReplaceWhere
<1>3. QED BY <1>1, <1>2

LEMMA GoodHolds ==
  ASSUME NEW c \in Goods, c.ok, ~c.odd, c.text # <<>>, NEW r
  PROVE  Cell(r) \in Cells => Holds(Bound(c), r) = c.means[Cell(r)]
BY BoundIsFill DEF Goods, Sound, Holds

LEMMA FoundIsMeant ==
  ASSUME NEW c \in Goods, c.ok, ~c.odd, rows \subseteq Rows
  PROVE  Found(c) = MeantRows(c)
<1>1. \A r \in rows : Cell(r) \in Cells
  BY CellOf
<1>2. CASE c.text = <<>>
  <2>1. \A r \in Cells : c.means[r] = "T"
    BY <1>2 DEF Goods, Sound
  <2>2. QED BY <1>1, <1>2, <2>1 DEF Found, MeantRows
<1>3. CASE c.text # <<>>
  <2>1. \A r \in rows : Holds(Bound(c), r) = c.means[Cell(r)]
    BY <1>1, <1>3, GoodHolds
  <2>2. QED BY <1>3, <2>1 DEF Found, MeantRows
<1>4. QED BY <1>2, <1>3

-----------------------------------------------------------------------------
(* What assignments and merges leave of a row.                             *)

\* The values of each column.
Held(c) == IF c = "id" THEN Ids ELSE IF c = "tag" THEN Tags \cup {Null} ELSE Levels \cup Tags \cup {Null}

LEMMA RowSet ==
  ASSUME NEW r \in Rows, NEW c \in {"tag", "level"}, NEW v \in Held(c)
  PROVE  [r EXCEPT ![c] = v] \in Rows
<1>1. CASE c = "tag"
  BY <1>1 DEF Rows, Held
<1>2. CASE c = "level"
  BY <1>2 DEF Rows, Held
<1>3. QED BY <1>1, <1>2

LEMMA RowGet ==
  ASSUME NEW r \in Rows, NEW c \in {"tag", "level"}
  PROVE  r[c] \in Held(c) /\ Null \in Held(c)
BY DEF Rows, Held

LEMMA LargerOf ==
  ASSUME NEW v, NEW w
  PROVE  Larger(v, w) \in {v, w, Null} /\ Coalesced(v, w) \in {v, w}
BY DEF Larger, Coalesced

LEMMA ColumnNames ==
  /\ Plain("id") = "id" /\ Plain("tag") = "tag" /\ Plain("level") = "level" /\ Plain("t.level") = "level"
  /\ Ref("id").text = "id" /\ Ref("tag").text = "tag" /\ Ref("level").text = "level" /\ RefOf("level").text = "t.level"
  /\ Ref("id").ok = TRUE /\ Ref("tag").ok = TRUE /\ Ref("level").ok = TRUE /\ RefOf("level").ok = TRUE
  /\ InvalidRef.ok = FALSE
BY DEF Plain, Ref, RefOf, Dotted, InvalidRef

\* What an assignment may be.
Writes(a) ==
  /\ Plain(a.target) \in {"tag", "level"}
  /\ \/ a.form \in {"bound", "coalesced", "greatest"} /\ a.val \in Held(Plain(a.target))
     \/ a.form = "column" /\ Plain(a.target) = "level" /\ Plain(a.val) = "tag"

LEMMA AssignmentsWrite ==
  ASSUME NEW a \in Assignments, a.ok
  PROVE  Writes(a)
<1>1. Levels \cup {Null} \subseteq Held("level") /\ Tags \subseteq Held("tag")
  BY DEF Held
<1>2. CASE \E v \in Levels \cup {Null} : a = Assign(Ref("level"), v) \/ a = AssignCoalesced(Ref("level"), v)
                                         \/ a = AssignGreatest(Ref("level"), v)
  BY <1>1, <1>2, ColumnNames DEF Assign, AssignCoalesced, AssignGreatest, Assignment, Writes
<1>3. CASE \E v \in Levels : a = Assign(RefOf("level"), v)
  BY <1>1, <1>3, ColumnNames DEF Assign, Assignment, Writes
<1>4. CASE \E v \in Tags : a = Assign(Ref("tag"), v)
  BY <1>1, <1>4, ColumnNames DEF Assign, Assignment, Writes
<1>5. CASE a = AssignColumn(Ref("level"), Ref("tag"))
  BY <1>5, ColumnNames DEF AssignColumn, Assignment, Writes
<1>6. AssignColumn(Ref("level"), InvalidRef).ok = FALSE /\ AssignCoalesced(InvalidRef, Null).ok = FALSE
  BY ColumnNames DEF AssignColumn, AssignCoalesced, Assignment
<1>7. QED BY <1>2, <1>3, <1>4, <1>5, <1>6 DEF Assignments

LEMMA SetOnRow ==
  ASSUME NEW r \in Rows, NEW seen \in Rows, NEW a, Writes(a)
  PROVE  SetOn(r, seen, a) \in Rows
<1> DEFINE c == Plain(a.target)
           v == CASE a.form = "bound"     -> a.val
                  [] a.form = "column"    -> seen[Plain(a.val)]
                  [] a.form = "coalesced" -> Coalesced(a.val, seen[c])
                  [] a.form = "greatest"  -> Larger(seen[c], a.val)
<1>1. c \in {"tag", "level"}
  BY DEF Writes
<1>2. seen[c] \in Held(c) /\ Null \in Held(c)
  BY <1>1, RowGet
<1>3. CASE a.form \in {"bound", "coalesced", "greatest"} /\ a.val \in Held(c)
  <2>1. Coalesced(a.val, seen[c]) \in Held(c) /\ Larger(seen[c], a.val) \in Held(c)
    BY <1>2, <1>3, LargerOf
  <2>2. v \in Held(c)
    BY <1>3, <2>1
  <2> HIDE DEF v
  <2>3. [r EXCEPT ![c] = v] \in Rows
    BY <1>1, <2>2, RowSet
  <2>4. QED BY <2>3 DEF SetOn, v
<1>4. CASE a.form = "column" /\ c = "level" /\ Plain(a.val) = "tag"
  <2>1. v = seen["tag"] /\ seen["tag"] \in Held("tag")
    BY <1>4, RowGet
  <2>2. v \in Held(c)
    BY <1>4, <2>1 DEF Held
  <2> HIDE DEF v
  <2>3. [r EXCEPT ![c] = v] \in Rows
    BY <1>1, <2>2, RowSet
  <2>4. QED BY <2>3 DEF SetOn, v
<1>5. QED BY <1>3, <1>4 DEF Writes

LEMMA UpdatedRow ==
  ASSUME NEW r \in Rows, NEW A, \A a \in A : Writes(a), NEW sets \in Seq(A)
  PROVE  Updated(r, sets) \in Rows
<1> DEFINE n == Len(sets)
           Seen(x) == IF dialect = "mysql" THEN x ELSE r
           step == [i \in 1..n |-> [x \in Rows |-> SetOn(x, Seen(x), sets[i])]]
           g == CHOOSE f : f = [i \in 0..n |-> IF i = 0 THEN r ELSE SetOn(f[i - 1], IF dialect = "mysql" THEN f[i - 1] ELSE r, sets[i])]
<1>1. n \in Nat /\ \A i \in 1..n : Writes(sets[i])
  OBVIOUS
<1>2. step \in [1..n -> [Rows -> Rows]] /\ \A i \in 1..n : \A x \in Rows : step[i][x] = SetOn(x, IF dialect = "mysql" THEN x ELSE r, sets[i])
  BY <1>1, SetOnRow
<1>3. Updated(r, sets) = g[n]
  BY DEF Updated
<1> HIDE DEF n, step
<1>4. PICK f : Walk(f, n, Rows, r, step)
  BY <1>1, <1>2, StepByStep
<1>5. ASSUME NEW i \in 0..n
      PROVE  f[i] = (IF i = 0 THEN r ELSE SetOn(f[i - 1], IF dialect = "mysql" THEN f[i - 1] ELSE r, sets[i]))
  <2>1. i # 0 => i \in 1..n /\ f[i - 1] \in Rows
    BY <1>1, <1>4 DEF Walk
  <2>2. QED BY <1>2, <1>4, <2>1 DEF Walk
<1>6. f = [i \in 0..n |-> IF i = 0 THEN r ELSE SetOn(f[i - 1], IF dialect = "mysql" THEN f[i - 1] ELSE r, sets[i])]
  BY <1>4, <1>5 DEF Walk
<1>7. g = [i \in 0..n |-> IF i = 0 THEN r ELSE SetOn(g[i - 1], IF dialect = "mysql" THEN g[i - 1] ELSE r, sets[i])]
  BY <1>6
<1> HIDE DEF g
<1> DEFINE S == {i \in 0..n : g[i] \in Rows}
<1>8. 0 \in S
  BY <1>1, <1>7
<1>9. ASSUME NEW i \in 1..n, i - 1 \in S PROVE i \in S
  <2>1. g[i] = SetOn(g[i - 1], IF dialect = "mysql" THEN g[i - 1] ELSE r, sets[i]) /\ g[i - 1] \in Rows /\ i \in 0..n
    BY <1>1, <1>7, <1>9
  <2>2. (IF dialect = "mysql" THEN g[i - 1] ELSE r) \in Rows
    BY <2>1
  <2>3. g[i] \in Rows
    BY <1>1, <2>1, <2>2, SetOnRow
  <2>4. QED BY <2>1, <2>3
<1> HIDE DEF S
<1>10. \A i \in 0..n : i \in S
  BY <1>1, <1>8, <1>9, Climb
<1>11. n \in S
  BY <1>1, <1>10
<1>12. QED BY <1>3, <1>11 DEF S

\* What a merge may be.
Mixes(m) == Plain(m.text) \in {"tag", "level"} /\ m.mode \in {"replace", "coalesce", "greatest"}

Mixers == {Merge(mode, ref) : mode \in {"replace", "coalesce", "greatest"}, ref \in {Ref("tag"), Ref("level"), RefOf("level")}}

LEMMA MixersMix ==
  ASSUME NEW m \in Mixers
  PROVE  Mixes(m)
BY ColumnNames DEF Mixers, Merge, Mixes

LEMMA MergesMix ==
  ASSUME NEW merges \in Merges, AllOk(merges)
  PROVE  merges \in Seq(Mixers)
<1>1. CASE merges = <<>>
  BY <1>1
<1>2. CASE merges = <<Merge("replace", Ref("tag"))>>
  <2>1. Merge("replace", Ref("tag")) \in Mixers
    BY DEF Mixers
  <2>2. QED BY <1>2, <2>1
<1>3. CASE merges = <<Merge("replace", Ref("level")), Merge("greatest", Ref("level"))>>
  <2>1. Merge("replace", Ref("level")) \in Mixers /\ Merge("greatest", Ref("level")) \in Mixers
    BY DEF Mixers
  <2>2. QED BY <1>3, <2>1
<1>4. CASE \E mode \in {"replace", "coalesce", "greatest"} : \E ref \in LevelRefs : merges = <<Merge(mode, ref)>>
  <2>1. PICK mode \in {"replace", "coalesce", "greatest"}, ref \in LevelRefs : merges = <<Merge(mode, ref)>>
    BY <1>4
  <2>2. Merge(mode, ref).ok
    BY <2>1 DEF AllOk
  <2>3. ref \in {Ref("level"), RefOf("level")}
    BY <2>2, ColumnNames DEF Merge, LevelRefs
  <2>4. Merge(mode, ref) \in Mixers
    BY <2>3 DEF Mixers
  <2>5. QED BY <2>1, <2>4
<1>5. QED BY <1>1, <1>2, <1>3, <1>4 DEF Merges

LEMMA MergedValue ==
  ASSUME NEW mode \in {"replace", "coalesce", "greatest"}, NEW c \in {"tag", "level"}, NEW old \in Held(c), NEW new \in Held(c)
  PROVE  Merged(mode, old, new) \in Held(c)
<1>1. Null \in Held(c)
  BY DEF Held
<1>2. Coalesced(new, old) \in Held(c) /\ Larger(old, new) \in Held(c)
  BY <1>1, LargerOf
<1>3. QED BY <1>2 DEF Merged

LEMMA MergedOnce ==
  ASSUME NEW x \in Rows, NEW old \in Rows, NEW new \in Rows, NEW m, Mixes(m)
  PROVE  [x EXCEPT ![Plain(m.text)] = Merged(m.mode, IF dialect = "mysql" THEN @ ELSE old[Plain(m.text)], new[Plain(m.text)])] \in Rows
<1> DEFINE c == Plain(m.text)
           o == IF dialect = "mysql" THEN x[c] ELSE old[c]
<1>1. c \in {"tag", "level"} /\ m.mode \in {"replace", "coalesce", "greatest"}
  BY DEF Mixes
<1>2. o \in Held(c) /\ new[c] \in Held(c)
  BY <1>1, RowGet
<1> HIDE DEF c, o
<1>3. Merged(m.mode, o, new[c]) \in Held(c)
  BY <1>1, <1>2, MergedValue
<1>4. [x EXCEPT ![c] = Merged(m.mode, o, new[c])] \in Rows
  BY <1>1, <1>3, RowSet
<1>5. QED BY <1>4 DEF c, o

LEMMA MergedRowType ==
  ASSUME NEW old \in Rows, NEW new \in Rows, NEW A, \A m \in A : Mixes(m), NEW merges \in Seq(A)
  PROVE  MergedRow(old, new, merges) \in Rows
<1> DEFINE n == Len(merges)
           One(x, m) == [x EXCEPT ![Plain(m.text)] =
                           Merged(m.mode, IF dialect = "mysql" THEN @ ELSE old[Plain(m.text)], new[Plain(m.text)])]
           step == [i \in 1..n |-> [x \in Rows |-> One(x, merges[i])]]
           g == CHOOSE f : f = [i \in 0..n |-> IF i = 0 THEN old ELSE One(f[i - 1], merges[i])]
<1>1. n \in Nat /\ \A i \in 1..n : Mixes(merges[i])
  OBVIOUS
<1>2. ASSUME NEW i \in 1..n, NEW x \in Rows PROVE One(x, merges[i]) \in Rows
  BY <1>1, MergedOnce
<1>3. MergedRow(old, new, merges) = g[n]
  BY DEF MergedRow
<1> HIDE DEF One
<1>4. step \in [1..n -> [Rows -> Rows]] /\ \A i \in 1..n : \A x \in Rows : step[i][x] = One(x, merges[i])
  BY <1>2
<1> HIDE DEF n, step
<1>5. PICK f : Walk(f, n, Rows, old, step)
  BY <1>1, <1>4, StepByStep
<1>6. ASSUME NEW i \in 0..n PROVE f[i] = (IF i = 0 THEN old ELSE One(f[i - 1], merges[i]))
  <2>1. i # 0 => i \in 1..n /\ f[i - 1] \in Rows
    BY <1>1, <1>5 DEF Walk
  <2>2. QED BY <1>4, <1>5, <2>1 DEF Walk
<1>7. f = [i \in 0..n |-> IF i = 0 THEN old ELSE One(f[i - 1], merges[i])]
  BY <1>5, <1>6 DEF Walk
<1>8. g = [i \in 0..n |-> IF i = 0 THEN old ELSE One(g[i - 1], merges[i])]
  BY <1>7
<1> HIDE DEF g
<1> DEFINE S == {i \in 0..n : g[i] \in Rows}
<1>9. 0 \in S
  BY <1>1, <1>8
<1>10. ASSUME NEW i \in 1..n, i - 1 \in S PROVE i \in S
  <2>1. g[i] = One(g[i - 1], merges[i]) /\ g[i - 1] \in Rows /\ i \in 0..n
    BY <1>1, <1>8, <1>10
  <2>2. QED BY <1>2, <2>1
<1> HIDE DEF S
<1>11. \A i \in 0..n : i \in S
  BY <1>1, <1>9, <1>10, Climb
<1>12. n \in S
  BY <1>1, <1>11
<1>13. QED BY <1>3, <1>12 DEF S

\* One merge of the level.
LEMMA MergedLevel ==
  ASSUME NEW old \in Rows, NEW new \in Rows, NEW l, Len(l) = 1, Plain(l[1].text) = "level"
  PROVE  MergedRow(old, new, l) = [old EXCEPT !.level = Merged(l[1].mode, old.level, new.level)]
<1> DEFINE One(x, m) == [x EXCEPT ![Plain(m.text)] =
                           Merged(m.mode, IF dialect = "mysql" THEN @ ELSE old[Plain(m.text)], new[Plain(m.text)])]
           n == Len(l)
           g == CHOOSE f : f = [i \in 0..n |-> IF i = 0 THEN old ELSE One(f[i - 1], l[i])]
           h == [i \in 0..n |-> IF i = 0 THEN old ELSE One(old, l[i])]
<1>1. MergedRow(old, new, l) = g[n]
  BY DEF MergedRow
<1>2. One(old, l[1]) = [old EXCEPT !.level = Merged(l[1].mode, old.level, new.level)]
  OBVIOUS
<1> HIDE DEF One
<1>3. n = 1 /\ 0 \in 0..n /\ 1 \in 0..n
  OBVIOUS
<1> HIDE DEF n
<1>4. ASSUME NEW i \in 0..n PROVE h[i] = IF i = 0 THEN old ELSE One(h[i - 1], l[i])
  BY <1>3
<1>5. h = [i \in 0..n |-> IF i = 0 THEN old ELSE One(h[i - 1], l[i])]
  BY <1>4
<1> HIDE DEF h
<1>6. g = [i \in 0..n |-> IF i = 0 THEN old ELSE One(g[i - 1], l[i])]
  BY <1>5
<1> HIDE DEF g
<1>7. g[0] = old /\ g[1] = One(g[0], l[1])
  BY <1>3, <1>6
<1>8. QED BY <1>1, <1>2, <1>3, <1>7

-----------------------------------------------------------------------------
(* New rows.                                                               *)

Puts(a) == Plain(a.target) \in Columns /\ a.val \in Held(Plain(a.target))

LEMMA NewHeld ==
  ASSUME NEW sets, \A i \in DOMAIN sets : Puts(sets[i])
  PROVE  /\ New(sets).id \in Ids \cup {Null}
         /\ New(sets).id # Null => New(sets) \in Rows
         /\ (\E i \in DOMAIN sets : Plain(sets[i].target) = "id") => New(sets).id \in Ids
<1> DEFINE new == New(sets)
<1>1. ASSUME NEW c \in Columns
      PROVE  /\ new[c] \in Held(c) \cup {Null}
             /\ (\E i \in DOMAIN sets : Plain(sets[i].target) = c) => new[c] \in Held(c)
  <2>1. CASE \E i \in DOMAIN sets : Plain(sets[i].target) = c
    <3> DEFINE k == CHOOSE i \in DOMAIN sets : Plain(sets[i].target) = c
    <3>1. k \in DOMAIN sets /\ Plain(sets[k].target) = c
      BY <2>1
    <3>2. new[c] = sets[k].val
      BY <2>1 DEF New
    <3>3. QED BY <3>1, <3>2 DEF Puts
  <2>2. CASE ~ \E i \in DOMAIN sets : Plain(sets[i].target) = c
    <3>1. new[c] = Null
      BY <2>2 DEF New
    <3>2. QED BY <2>2, <3>1
  <2>3. QED BY <2>1, <2>2
<1>2. new = [c \in Columns |-> new[c]]
  BY DEF New
<1>3. Columns = {"id", "tag", "level"}
  BY DEF Columns
<1> HIDE DEF new
<1>4. new["id"] \in Ids \cup {Null} /\ ((\E i \in DOMAIN sets : Plain(sets[i].target) = "id") => new["id"] \in Ids)
  BY <1>1, <1>3 DEF Held
<1>5. new["tag"] \in Tags \cup {Null} /\ new["level"] \in Levels \cup Tags \cup {Null}
  BY <1>1, <1>3 DEF Held
<1>6. ASSUME new["id"] # Null PROVE new \in Rows
  <2>1. new = [id |-> new["id"], tag |-> new["tag"], level |-> new["level"]]
    BY <1>2, <1>3
  <2>2. QED BY <1>4, <1>5, <1>6, <2>1 DEF Rows
<1>7. QED BY <1>4, <1>6 DEF new

LEMMA AfterInsertIs ==
  ASSUME NEW sets, \A i \in DOMAIN sets : Puts(sets[i]), rows \subseteq Rows, NEW t \in AfterInsert(sets), t # Refusal
  PROVE  t \subseteq Rows /\ Unique(t)
<1>1. t = rows \cup {New(sets)} /\ New(sets).id # Null /\ Unique(rows \cup {New(sets)})
  BY DEF AfterInsert
<1>2. New(sets) \in Rows
  BY <1>1, NewHeld
<1>3. QED BY <1>1, <1>2

LEMMA IdPuts ==
  ASSUME NEW i \in Ids
  PROVE  Puts(Assign(Ref("id"), i)) /\ Plain(Assign(Ref("id"), i).target) = "id"
BY ColumnNames DEF Assign, Assignment, Puts, Held, Columns

LEMMA TagPuts ==
  ASSUME NEW v \in Tags \cup {Null}
  PROVE  Puts(Assign(Ref("tag"), v))
BY ColumnNames DEF Assign, Assignment, Puts, Held, Columns

LEMMA BoundPuts ==
  ASSUME NEW a \in Assignments, a.ok, a.form = "bound"
  PROVE  Puts(a)
BY AssignmentsWrite DEF Writes, Puts, Columns

LEMMA InsertedPut ==
  ASSUME NEW i \in Ids, NEW a \in Assignments, NEW b \in Assignments,
         NEW sets \in {<<>>, <<a>>, <<Assign(Ref("id"), i), a>>, <<Assign(Ref("id"), i), a, b>>},
         ~InsertRefused(sets)
  PROVE  \A k \in DOMAIN sets : Puts(sets[k])
<1> DEFINE p == Assign(Ref("id"), i)
<1>1. \A k \in DOMAIN sets : sets[k].ok /\ sets[k].form = "bound"
  BY DEF InsertRefused, AllOk
<1>2. Puts(p)
  BY IdPuts
<1> HIDE DEF p
<1>3. ASSUME NEW k \in DOMAIN sets PROVE sets[k] \in {p, a, b}
  <2>1. CASE sets = <<>>
    BY <2>1
  <2>2. CASE sets = <<a>>
    BY <2>2
  <2>3. CASE sets = <<p, a>>
    BY <2>3
  <2>4. CASE sets = <<p, a, b>>
    BY <2>4
  <2>5. QED BY <2>1, <2>2, <2>3, <2>4 DEF p
<1>4. QED BY <1>1, <1>2, <1>3, BoundPuts

LEMMA ValuesPut ==
  ASSUME NEW a \in Values, a.ok, Len(Binders(a)) = 1
  PROVE  Puts(a)
<1>1. Levels \cup {Null} \subseteq Held("level") /\ Null \in Held("tag") /\ {"tag", "level"} \subseteq Columns
  BY DEF Held, Columns
<1>2. CASE \E v \in Levels \cup {Null} : a = Assign(Ref("level"), v)
  BY <1>1, <1>2, ColumnNames DEF Assign, Assignment, Puts
<1>3. CASE a = AssignColumn(Ref("level"), Ref("tag"))
  <2>1. Binders(a) = <<>>
    BY <1>3 DEF AssignColumn, Assignment, Binders
  <2>2. QED BY <2>1
<1>4. CASE a = Assign(RefOf("level"), Null) \/ a = AssignCoalesced(Ref("level"), Null) \/ a = Assign(Ref("tag"), Null)
  BY <1>1, <1>4, ColumnNames DEF Assign, AssignCoalesced, Assignment, Puts
<1>5. Assign(InvalidRef, Null).ok = FALSE
  BY ColumnNames DEF Assign, Assignment
<1>6. QED BY <1>2, <1>3, <1>4, <1>5 DEF Values

LEMMA UpsertedPut ==
  ASSUME NEW i \in Ids, NEW v \in Tags \cup {Null}, NEW a \in Values,
         NEW values \in {<<>>, <<Assign(Ref("id"), i), Assign(Ref("tag"), v), a>>},
         NEW targets, NEW merges, NEW nothing, ~UpsertRefused(values, targets, merges, nothing)
  PROVE  /\ \A k \in DOMAIN values : Puts(values[k])
         /\ New(values) \in Rows
<1> DEFINE p == Assign(Ref("id"), i)
           q == Assign(Ref("tag"), v)
<1>1. Puts(p) /\ Plain(p.target) = "id" /\ Puts(q)
  BY IdPuts, TagPuts
<1>2. values = <<p, q, a>>
  BY DEF UpsertRefused
<1>3. AllOk(values) /\ \A k \in DOMAIN values : Len(Binders(values[k])) = 1
  BY DEF UpsertRefused
<1> HIDE DEF p, q
<1>4. DOMAIN values = 1..3 /\ values[1] = p /\ values[2] = q /\ values[3] = a
  BY <1>2
<1>5. 1 \in DOMAIN values /\ 3 \in DOMAIN values
  BY <1>4
<1>6. a.ok /\ Len(Binders(a)) = 1
  BY <1>3, <1>4, <1>5 DEF AllOk
<1>7. Puts(a)
  BY <1>6, ValuesPut
<1>8. \A k \in 1..3 : k = 1 \/ k = 2 \/ k = 3
  OBVIOUS
<1>9. \A k \in DOMAIN values : Puts(values[k])
  BY <1>1, <1>4, <1>7, <1>8
<1>10. \E k \in DOMAIN values : Plain(values[k].target) = "id"
  BY <1>1, <1>4, <1>5
<1>11. New(values).id \in Ids /\ Null \notin Ids
  BY <1>9, <1>10, NewHeld, ValuesAreDigits DEF Digits, Null
<1>12. New(values) \in Rows
  BY <1>9, <1>11, NewHeld
<1>13. QED BY <1>9, <1>12

-----------------------------------------------------------------------------
(* What a statement may leave of the table.                                *)

LEMMA AfterUpdateIs ==
  ASSUME NEW hit, hit \subseteq rows, rows \subseteq Rows, NEW A, \A a \in A : Writes(a), NEW sets \in Seq(A),
         NEW t \in AfterUpdate(hit, sets), t # Refusal
  PROVE  t \subseteq Rows /\ Unique(t) /\ rows \ t \subseteq hit
<1> DEFINE after == (rows \ hit) \cup {Updated(r, sets) : r \in hit}
<1>1. t = after /\ Unique(after)
  BY DEF AfterUpdate
<1>2. \A r \in hit : Updated(r, sets) \in Rows
  BY UpdatedRow
<1>3. after \subseteq Rows
  BY <1>2
<1>4. rows \ after \subseteq hit
  OBVIOUS
<1> HIDE DEF after
<1>5. QED BY <1>1, <1>3, <1>4

LEMMA ClashesIn ==
  ASSUME NEW new, NEW target
  PROVE  Hit(new, target) \subseteq rows
BY DEF Hit, Clashes

LEMMA AfterUpsertIs ==
  ASSUME NEW values, NEW targets, NEW A, \A m \in A : Mixes(m), NEW merges \in Seq(A), rows \subseteq Rows,
         New(values) \in Rows, \A k \in DOMAIN values : Puts(values[k]),
         NEW t \in AfterUpsert(values, targets, merges), t # Refusal
  PROVE  t \subseteq Rows /\ Unique(t)
<1> DEFINE new   == New(values)
           hit   == Hit(new, targets[1].text)
           after == (rows \ hit) \cup {MergedRow(r, new, merges) : r \in hit}
<1>1. t \in AfterInsert(values) \/ (t = after /\ Unique(after))
  BY DEF AfterUpsert
<1>2. CASE t \in AfterInsert(values)
  BY <1>2, AfterInsertIs
<1>3. CASE t = after /\ Unique(after)
  <2>1. hit \subseteq rows
    BY ClashesIn
  <2>2. \A r \in hit : MergedRow(r, new, merges) \in Rows
    BY <2>1, MergedRowType
  <2>3. after \subseteq Rows
    BY <2>2
  <2> HIDE DEF after
  <2>4. QED BY <1>3, <2>3
<1>4. QED BY <1>1, <1>2, <1>3

\* Tables are finite, for their keys are.
LEMMA FewRows ==
  ASSUME rows \subseteq Rows, Unique(rows)
  PROVE  IsFiniteSet(rows)
<1> DEFINE f == [r \in rows |-> r.id]
<1>1. IsFiniteSet(Ids)
  <2>1. IsFiniteSet(Digits)
    <3>1. IsFiniteSet({}) /\ IsFiniteSet({"0"}) 
      BY FS_EmptySet, FS_Singleton
    <3>2. IsFiniteSet({"0"} \cup {"1"}) /\ IsFiniteSet({"2"})
      BY <3>1, FS_AddElement, FS_Singleton
    <3>3. IsFiniteSet(({"0"} \cup {"1"}) \cup {"2"})
      BY <3>2, FS_AddElement
    <3>4. Digits = ({"0"} \cup {"1"}) \cup {"2"}
      BY DEF Digits
    <3>5. QED BY <3>3, <3>4
  <2>2. Ids \subseteq Digits
    BY ValuesAreDigits
  <2>3. QED BY <2>1, <2>2, FS_Subset
<1>2. f \in [rows -> Ids]
  BY DEF Rows
<1>3. \A r, s \in rows : f[r] = f[s] => r = s
  BY DEF Unique
<1>4. f \in Injection(rows, Ids)
  BY <1>2, <1>3 DEF Injection, IsInjective
<1>5. QED BY <1>1, <1>4, FS_Injection

\* Rows that keep their keys are as many and as different.
LEMMA SameKeys ==
  ASSUME rows \subseteq Rows, Unique(rows), NEW after, NEW f \in [rows -> after],
         \A r \in rows : f[r].id = r.id /\ f[r].tag = r.tag,
         \A x \in after : \E r \in rows : x = f[r]
  PROVE  Unique(after) /\ Cardinality(after) = Cardinality(rows)
<1>1. ASSUME NEW r \in rows, NEW s \in rows, f[r] # f[s]
      PROVE  f[r].id # f[s].id /\ (f[r].tag = f[s].tag => f[r].tag = Null)
  <2>1. r # s
    BY <1>1
  <2>2. r.id # s.id /\ (r.tag = s.tag => r.tag = Null)
    BY <2>1 DEF Unique
  <2>3. QED BY <2>2
<1>2. Unique(after)
  BY <1>1 DEF Unique
<1>3. \A r, s \in rows : f[r] = f[s] => r = s
  BY DEF Unique
<1>5. f \in Surjection(rows, after)
  BY DEF Surjection
<1>6. f \in Injection(rows, after)
  BY <1>3 DEF Injection, IsInjective
<1>7. IsFiniteSet(rows)
  BY FewRows
<1>8. Cardinality(after) = Cardinality(rows)
  BY <1>5, <1>6, <1>7, FS_Surjection
<1>9. QED BY <1>2, <1>8

MergedTable(hit, new, l) == (rows \ hit) \cup {MergedRow(r, new, l) : r \in hit}

\* A merge of the level, of any of the rows.
LEMMA LevelMerged ==
  ASSUME rows \subseteq Rows, Unique(rows), NEW new \in Rows, NEW hit, hit \subseteq rows,
         NEW l, Len(l) = 1, Plain(l[1].text) = "level"
  PROVE  Unique(MergedTable(hit, new, l)) /\ Cardinality(MergedTable(hit, new, l)) = Cardinality(rows)
<1> DEFINE after == MergedTable(hit, new, l)
           f == [r \in rows |-> IF r \in hit THEN MergedRow(r, new, l) ELSE r]
<1>1. ASSUME NEW r \in rows PROVE f[r].id = r.id /\ f[r].tag = r.tag
  <2>1. CASE r \in hit
    <3>1. r \in Rows
      OBVIOUS
    <3>2. f[r] = [r EXCEPT !.level = Merged(l[1].mode, r.level, new.level)]
      BY <2>1, <3>1, MergedLevel
    <3>3. QED BY <3>1, <3>2 DEF Rows
  <2>2. CASE r \notin hit
    BY <2>2
  <2>3. QED BY <2>1, <2>2
<1>2. \A r \in rows : f[r] = IF r \in hit THEN MergedRow(r, new, l) ELSE r
  OBVIOUS
<1>3. f = [r \in rows |-> f[r]]
  OBVIOUS
<1> HIDE DEF f
<1>4. \A x \in after : \E r \in rows : x = f[r]
  BY <1>2 DEF MergedTable
<1>5. \A r \in rows : f[r] \in after
  BY <1>2 DEF MergedTable
<1> HIDE DEF after
<1>6. f \in [rows -> after]
  BY <1>3, <1>5
<1>7. Unique(after) /\ Cardinality(after) = Cardinality(rows)
  BY <1>1, <1>4, <1>6, SameKeys
<1>8. QED BY <1>7 DEF after

\* A merge is the one promised.
LEMMA MergedPromised ==
  ASSUME NEW mode \in {"replace", "coalesce", "greatest"}, NEW old, NEW new,
         ~(dialect = "postgres" /\ mode # "replace"), ~LosesToNull(mode, old, new)
  PROVE  Merged(mode, old, new) = Promised(mode, old, new)
<1>1. CASE mode = "replace"
  BY <1>1 DEF Merged, Promised
<1>2. CASE mode = "coalesce"
  BY <1>2 DEF Merged, Promised, Coalesced
<1>3. CASE mode = "greatest"
  <2>1. old # Null /\ new # Null
    BY <1>3 DEF LosesToNull
  <2>2. Merged(mode, old, new) = IF Less(old, new) THEN new ELSE old
    BY <1>3, <2>1 DEF Merged, Larger
  <2>3. Promised(mode, old, new) = IF Less(old, new) THEN new ELSE old
    BY <1>3, <2>1 DEF Promised
  <2>4. QED BY <2>2, <2>3
<1>4. QED BY <1>1, <1>2, <1>3

LEMMA OneTarget ==
  ASSUME NEW targets \in ConflictTargets, NEW values, NEW merges, NEW nothing, ~UpsertRefused(values, targets, merges, nothing)
  PROVE  Len(targets) = 1
<1>1. AllOk(targets) /\ targets # <<>> /\ ~Repeats([i \in DOMAIN targets |-> targets[i].text])
  BY DEF UpsertRefused
<1>2. targets # <<Ref("id"), Ref("id")>>
  <2>1. SUFFICES ASSUME targets = <<Ref("id"), Ref("id")>> PROVE FALSE
    OBVIOUS
  <2>2. 1 \in DOMAIN targets /\ 2 \in DOMAIN targets /\ targets[1].text = targets[2].text
    BY <2>1
  <2>3. QED BY <1>1, <2>2 DEF Repeats
<1>3. QED BY <1>1, <1>2 DEF ConflictTargets

\* An upsert of written columns with one merge, of the level, and no clash of
\* the other key; olds are the rows with the key named.
Single(values, targets, merges, key, olds) ==
  /\ New(values) \in Rows /\ \A i \in DOMAIN values : values[i].target \in Columns
  /\ Len(targets) = 1 /\ key \in {"id", "tag"} /\ targets[1].text = key
  /\ \A c \in {"id", "tag"} \ {key} : ~ \E r \in rows : r[c] = New(values)[c] /\ New(values)[c] # Null
  /\ Len(merges) = 1 /\ merges[1].text = "level" /\ merges[1].mode \in {"replace", "coalesce", "greatest"}
  /\ DOMAIN merges = 1..1
  /\ ~(dialect = "postgres" /\ merges[1].mode # "replace")
  /\ olds = {r \in rows : r[key] = New(values)[key] /\ New(values)[key] # Null}

Upserted(olds, new, l) == IF olds = {} THEN rows \cup {new} ELSE MergedTable(olds, new, l)

LEMMA UpsertLeaves ==
  ASSUME rows \subseteq Rows, Unique(rows),
         NEW values, NEW targets, NEW merges, NEW key, NEW olds, Single(values, targets, merges, key, olds)
  PROVE  AfterUpsert(values, targets, merges) = {Upserted(olds, New(values), merges)}
<1> DEFINE new == New(values)
           after == MergedTable(olds, new, merges)
<1>0. /\ new \in Rows /\ \A i \in DOMAIN values : values[i].target \in Columns
      /\ Len(targets) = 1 /\ key \in {"id", "tag"} /\ targets[1].text = key
      /\ \A c \in {"id", "tag"} \ {key} : ~ \E r \in rows : r[c] = new[c] /\ new[c] # Null
      /\ Len(merges) = 1 /\ merges[1].text = "level" /\ merges[1].mode \in {"replace", "coalesce", "greatest"}
      /\ DOMAIN merges = 1..1
      /\ ~(dialect = "postgres" /\ merges[1].mode # "replace")
      /\ olds = {r \in rows : r[key] = new[key] /\ new[key] # Null}
  BY DEF Single
<1>1. \A c \in {"id", "tag"} : Clashes(new, c) = {r \in rows : r[c] = new[c] /\ new[c] # Null}
  BY DEF Clashes
<1>2. \A c \in {"id", "tag"} \ {key} : Clashes(new, c) = {}
  BY <1>0, <1>1
<1>3. Clashes(new, key) = olds
  BY <1>0, <1>1
<1>4. Hit(new, key) = olds
  BY <1>0, <1>2, <1>3 DEF Hit
<1>5. ~ \E i \in DOMAIN values : ~Writable(values[i].target)
  BY <1>0 DEF Writable
<1>6. ~MergesRefused(merges)
  <2>1. "level" \in Columns
    BY DEF Columns
  <2>2. \A i \in DOMAIN merges : Writable(merges[i].text) /\ i = 1
    BY <1>0, <2>1 DEF Writable
  <2>3. ~Repeats([i \in DOMAIN merges |-> merges[i].text])
    BY <1>0 DEF Repeats
  <2>4. QED BY <1>0, <2>2, <2>3 DEF MergesRefused
<1>7. ~ \E c \in {"id", "tag"} \ {key} : Clashes(new, c) # {}
  BY <1>2
<1>8. CASE olds = {}
  <2>1. \A c \in {"id", "tag"} : Clashes(new, c) = {}
    BY <1>0, <1>2, <1>3, <1>8
  <2>2. new.id # Null /\ new \in Rows /\ \A r \in rows : r.id # Null
    BY <1>0, ValuesAreDigits DEF Rows, Digits, Null
  <2>3. \A r \in rows : r.id # new.id /\ (r.tag = new.tag => r.tag = Null)
    BY <2>1, <2>2 DEF Clashes
  <2>4. Unique(rows \cup {new}) /\ new \notin rows
    BY <2>3 DEF Unique
  <2>5. AfterInsert(values) = {rows \cup {new}}
    BY <1>5, <2>2, <2>4 DEF AfterInsert
  <2> HIDE DEF new
  <2>6. AfterUpsert(values, targets, merges) = AfterInsert(values)
    BY <1>0, <1>4, <1>5, <1>6, <1>8 DEF AfterUpsert, new
  <2>7. QED BY <1>8, <2>5, <2>6 DEF new, Upserted
<1>9. CASE olds # {}
  <2>1. Plain(merges[1].text) = "level" /\ olds \subseteq rows
    BY <1>0, ColumnNames
  <2>2. Unique(after) /\ Cardinality(after) = Cardinality(rows)
    BY <1>0, <2>1, LevelMerged
  <2>3. AfterUpsert(values, targets, merges) = {after}
    BY <1>0, <1>4, <1>5, <1>6, <1>7, <1>9, <2>2 DEF AfterUpsert, MergedTable
  <2>4. QED BY <1>9, <2>3 DEF Upserted
<1>10. QED BY <1>8, <1>9

OldRows(key, new) == {r \in rows : r[key] = new[key] /\ new[key] # Null}

\* The upserts that MergesAsPromised speaks of.
Usual(values, merges, key) ==
  /\ \A i \in DOMAIN values : values[i].target \in Columns
  /\ key \in {"id", "tag"}
  /\ \A c \in {"id", "tag"} \ {key} : ~ \E r \in rows : r[c] = New(values)[c] /\ New(values)[c] # Null
  /\ Len(merges) = 1 /\ merges[1].text = "level"
  /\ ~(dialect = "postgres" /\ merges[1].mode # "replace")
  /\ ~ \E r \in OldRows(key, New(values)) : LosesToNull(merges[1].mode, r.level, New(values).level)

PromisedTable(olds, new, mode) ==
  IF olds = {} THEN rows \cup {new}
  ELSE (rows \ olds) \cup {[r EXCEPT !.level = Promised(mode, @, new.level)] : r \in olds}

LEMMA UpsertPromise ==
  ASSUME rows \subseteq Rows, Unique(rows), NEW values, NEW targets \in ConflictTargets, NEW merges \in Seq(Mixers), NEW nothing,
         ~UpsertRefused(values, targets, merges, nothing), New(values) \in Rows,
         Usual(values, merges, targets[1].text),
         NEW t \in AfterUpsert(values, targets, merges)
  PROVE  t # Refusal /\ t = PromisedTable(OldRows(targets[1].text, New(values)), New(values), merges[1].mode)
<1> DEFINE new == New(values)
           mode == merges[1].mode
           key == targets[1].text
           olds == OldRows(key, new)
           kept == (rows \ olds) \cup {[r EXCEPT !.level = Promised(mode, @, new.level)] : r \in olds}
<1>0. /\ \A i \in DOMAIN values : values[i].target \in Columns
      /\ key \in {"id", "tag"}
      /\ \A c \in {"id", "tag"} \ {key} : ~ \E r \in rows : r[c] = new[c] /\ new[c] # Null
      /\ Len(merges) = 1 /\ merges[1].text = "level"
      /\ ~(dialect = "postgres" /\ mode # "replace")
      /\ ~ \E r \in olds : LosesToNull(mode, r.level, new.level)
      /\ olds = {r \in rows : r[key] = new[key] /\ new[key] # Null}
  BY DEF Usual, OldRows
<1>1. DOMAIN merges = 1..1 /\ merges[1] \in Mixers
  BY <1>0
<1>2. mode \in {"replace", "coalesce", "greatest"} /\ Plain(merges[1].text) = "level"
  BY <1>0, <1>1, MixersMix, ColumnNames DEF Mixes
<1>3. Len(targets) = 1
  BY OneTarget
<1>4. AfterUpsert(values, targets, merges) = {Upserted(olds, New(values), merges)}
  <2>1. Single(values, targets, merges, key, olds)
    BY <1>0, <1>1, <1>2, <1>3 DEF Single
  <2>2. QED BY <2>1, UpsertLeaves
<1>5. t = IF olds = {} THEN rows \cup {new} ELSE MergedTable(olds, new, merges)
  BY <1>4 DEF Upserted
<1>6. ASSUME NEW r \in olds PROVE MergedRow(r, new, merges) = [r EXCEPT !.level = Promised(mode, @, new.level)]
  <2>1. r \in Rows /\ ~LosesToNull(mode, r.level, new.level)
    BY <1>0
  <2>2. Merged(mode, r.level, new.level) = Promised(mode, r.level, new.level)
    BY <1>0, <1>2, <2>1, MergedPromised
  <2>3. MergedRow(r, new, merges) = [r EXCEPT !.level = Merged(mode, r.level, new.level)]
    BY <1>0, <1>2, <2>1, MergedLevel
  <2>4. QED BY <2>2, <2>3
<1>7. MergedTable(olds, new, merges) = kept
  BY <1>6 DEF MergedTable
<1>8. new \in Rows /\ \A r \in olds : MergedRow(r, new, merges) \in Rows
  BY <1>0, MixersMix, MergedRowType
<1>9. t \subseteq Rows
  BY <1>0, <1>5, <1>8 DEF MergedTable
<1>10. t # Refusal
  BY <1>9, NobodyIsNoTable DEF Refusal
<1> HIDE DEF kept
<1>11. t = IF olds = {} THEN rows \cup {new} ELSE kept
  BY <1>5, <1>7
<1>12. QED BY <1>10, <1>11 DEF kept, PromisedTable

-----------------------------------------------------------------------------
(* The invariant.                                                          *)

\* The table has its keys, and every condition built is a good one.
Fine ==
  dialect \in Dialects /\ rows \subseteq Rows /\ Unique(rows) /\ hand \in Seq(Goods)

Outcome == answer = Nobody \/ answer.outcome \in {"ok", "invalid", "refused"}

OrmInv == Fine /\ Outcome /\ InvalidIsNotSent /\ ChangesOnlyItsRows /\ MergesAsPromised

LEMMA GoodCell ==
  ASSUME NEW r \in Cells
  PROVE  Cell(r) = r
BY DEF Cells, Cell

LEMMA InvGivesTypeOK ==
  ASSUME OrmInv
  PROVE  TypeOK
<1>1. ASSUME NEW i \in DOMAIN hand
      PROVE  hand[i].odd \/ Len(hand[i].binders) = Cardinality({k \in DOMAIN hand[i].text : hand[i].text[k] = "?"})
  <2>1. hand[i] \in Goods
    BY DEF OrmInv, Fine
  <2>2. PICK c \in Goods : c = hand[i]
    BY <2>1
  <2>3. SUFFICES ASSUME ~c.odd PROVE Len(c.binders) = Cardinality({k \in DOMAIN c.text : c.text[k] = "?"})
    BY <2>2
  <2>4. Fit(c.text, c.binders)
    BY <2>3 DEF Goods, Sound
  <2>5. DOMAIN c.text = 1..Len(c.text)
    BY <2>4 DEF Fit, Texts
  <2>6. QED BY <2>4, <2>5 DEF Fit, Marked, Times
<1>2. QED BY <1>1 DEF OrmInv, Fine, Outcome, TypeOK

LEMMA InvGivesWhere ==
  ASSUME OrmInv
  PROVE  WhereSelectsItsRows
<1> SUFFICES ASSUME NEW i \in DOMAIN hand, hand[i].ok /\ ~hand[i].odd /\ hand[i].text # <<>>, NEW r \in Cells
             PROVE  Holds(Bound(hand[i]), r) = hand[i].means[r]
  BY DEF WhereSelectsItsRows
<1>1. hand[i] \in Goods
  BY DEF OrmInv, Fine
<1>2. PICK c \in Goods : c = hand[i]
  BY <1>1
<1>3. Cell(r) = r
  BY GoodCell
<1>4. Holds(Bound(c), r) = c.means[Cell(r)]
  BY <1>2, <1>3, GoodHolds
<1>5. QED BY <1>2, <1>3, <1>4

\* A step of the program's hand alone.
LEMMA HandStep ==
  ASSUME OrmInv, answer = Nobody, UNCHANGED <<dialect, rows, answer>>, hand' \in Seq(Goods)
  PROVE  OrmInv'
BY DEF OrmInv, Fine, Outcome, InvalidIsNotSent, ChangesOnlyItsRows, MergesAsPromised

LEMMA NotSentStep ==
  ASSUME OrmInv, NEW kind, NEW asked, NEW valid, NotSent(kind, asked, valid)
  PROVE  OrmInv'
<1>1. /\ hand' = <<>> /\ dialect' = dialect /\ rows' = rows
      /\ answer' = [kind |-> kind, asked |-> asked, valid |-> valid, outcome |-> "invalid", was |-> rows]
  BY DEF NotSent, Answered
<1>2. answer'.outcome = "invalid" /\ answer'.was = rows
  BY <1>1
<1>3. Fine'
  BY <1>1 DEF OrmInv, Fine
<1>4. Outcome' /\ InvalidIsNotSent'
  BY <1>1, <1>2 DEF Outcome, InvalidIsNotSent
<1>5. ChangesOnlyItsRows' /\ MergesAsPromised'
  BY <1>2 DEF ChangesOnlyItsRows, MergesAsPromised
<1>6. QED BY <1>3, <1>4, <1>5 DEF OrmInv

\* What is sent, but for the promise of a merge.
LEMMA SentStep ==
  ASSUME OrmInv, NEW kind, NEW asked, NEW valid, NEW tables, Sent(kind, asked, valid, tables), valid,
         \A t \in tables : t # Refusal => t \subseteq Rows /\ Unique(t),
         kind \in {"delete", "update"} =>
           \A t \in tables : t # Refusal => rows \ t \subseteq asked /\ (kind = "delete" => t = rows \ asked),
         MergesAsPromised'
  PROVE  OrmInv'
<1>1. PICK t \in tables : IF t = Refusal THEN rows' = rows /\ Answered(kind, asked, valid, "refused")
                                         ELSE rows' = t /\ Answered(kind, asked, valid, "ok")
  BY DEF Sent
<1>2. PICK o \in {"ok", "refused"} : Answered(kind, asked, valid, o) /\ (o = "ok" => t # Refusal /\ rows' = t) /\ (o = "refused" => rows' = rows)
  BY <1>1
<1>3. /\ hand' = <<>> /\ dialect' = dialect
      /\ answer' = [kind |-> kind, asked |-> asked, valid |-> valid, outcome |-> o, was |-> rows]
  BY <1>2 DEF Answered
<1>4. answer'.kind = kind /\ answer'.asked = asked /\ answer'.valid = valid /\ answer'.outcome = o /\ answer'.was = rows
  BY <1>3
<1>5. Fine'
  BY <1>2, <1>3 DEF OrmInv, Fine
<1>6. Outcome' /\ InvalidIsNotSent'
  BY <1>4 DEF Outcome, InvalidIsNotSent
<1>7. ChangesOnlyItsRows'
  BY <1>2, <1>4 DEF ChangesOnlyItsRows
<1>8. QED BY <1>5, <1>6, <1>7 DEF OrmInv

LEMMA NoMergeSent ==
  ASSUME NEW kind, kind # "upsert", NEW asked, NEW valid, NEW tables, Sent(kind, asked, valid, tables)
  PROVE  MergesAsPromised'
<1>1. PICK o \in {"ok", "refused"} : Answered(kind, asked, valid, o)
  BY DEF Sent
<1>2. answer'.kind = kind
  BY <1>1 DEF Answered
<1>3. QED BY <1>2 DEF MergesAsPromised

-----------------------------------------------------------------------------
(* The program's steps keep it.                                            *)

LEMMA PushStep ==
  ASSUME OrmInv, NEW c \in Leaves, Push(c)
  PROVE  OrmInv'
<1>1. c \in Goods /\ hand \in Seq(Goods)
  BY LeavesGood DEF OrmInv, Fine
<1>2. Append(hand, c) \in Seq(Goods)
  BY <1>1
<1>3. QED BY <1>2, HandStep DEF Push

LEMMA CombineStep ==
  ASSUME OrmInv, Combine
  PROVE  OrmInv'
<1> DEFINE n == Len(hand)
<1>1. hand \in Seq(Goods) /\ n > 1 /\ n \in Nat
  BY DEF OrmInv, Fine, Combine
<1>2. hand[n - 1] \in Goods /\ hand[n] \in Goods
  BY <1>1
<1>3. SubSeq(hand, 1, n - 2) \in Seq(Goods)
  <2>1. \A i \in 1..(n - 2) : hand[i] \in Goods
    BY <1>1
  <2>2. QED BY <1>1, <2>1
<1>4. PICK c \in {And(hand[n - 1], hand[n]), Or(hand[n - 1], hand[n])} : hand' = Append(SubSeq(hand, 1, n - 2), c)
  BY DEF Combine
<1>5. c \in Goods
  BY <1>2, <1>4, AndGood, OrGood
<1>6. hand' \in Seq(Goods)
  BY <1>3, <1>4, <1>5
<1>7. QED BY <1>6, HandStep DEF Combine

LEMMA LastChanged ==
  ASSUME NEW w \in Seq(Goods), w # <<>>, NEW c \in Goods
  PROVE  [w EXCEPT ![Len(w)] = c] \in Seq(Goods)
OBVIOUS

LEMMA NegateStep ==
  ASSUME OrmInv, Negate
  PROVE  OrmInv'
<1>1. hand \in Seq(Goods) /\ hand # <<>>
  BY DEF OrmInv, Fine, Negate
<1>2. hand[Len(hand)] \in Goods
  BY <1>1
<1>3. Negated(hand[Len(hand)]) \in Goods
  BY <1>2, NegatedGood
<1>4. hand' = [hand EXCEPT ![Len(hand)] = Negated(hand[Len(hand)])]
  BY DEF Negate
<1>5. hand' \in Seq(Goods)
  BY <1>1, <1>3, <1>4, LastChanged
<1>6. QED BY <1>5, HandStep DEF Negate

LEMMA OperandStep ==
  ASSUME OrmInv, NEW ref \in {Ref("level"), InvalidRef}, CompareWithCondition(ref)
  PROVE  OrmInv'
<1>1. hand \in Seq(Goods) /\ hand # <<>>
  BY DEF OrmInv, Fine, CompareWithCondition
<1>2. hand[Len(hand)] \in Goods
  BY <1>1
<1>3. CompareCondition(ref, "=", hand[Len(hand)]) \in Goods
  BY <1>2, OperandGood
<1>4. hand' = [hand EXCEPT ![Len(hand)] = CompareCondition(ref, "=", hand[Len(hand)])]
  BY DEF CompareWithCondition
<1>5. hand' \in Seq(Goods)
  BY <1>1, <1>3, <1>4, LastChanged
<1>6. QED BY <1>5, HandStep DEF CompareWithCondition

LEMMA SelectStep ==
  ASSUME OrmInv, NEW named, Select(named)
  PROVE  OrmInv'
<1> DEFINE where == SelectWhere(hand)
           valid == where.valid /\ AllOk(named)
<1>1. where \in Goods /\ rows \subseteq Rows /\ Unique(rows)
  BY SelectGood DEF OrmInv, Fine
<1>2. where.ok => where.valid
  BY <1>1 DEF Goods, Sound
<1> HIDE DEF where
<1>3. CASE ~where.ok \/ ~AllOk(named)
  <2>1. NotSent("select", {}, valid)
    BY <1>3 DEF Select, where
  <2>2. QED BY <2>1, NotSentStep
<1>4. CASE ~(~where.ok \/ ~AllOk(named))
  <2>1. Sent("select", {}, valid, {rows}) /\ valid
    BY <1>2, <1>4 DEF Select, where
  <2> HIDE DEF valid
  <2>2. MergesAsPromised'
    BY <2>1, NoMergeSent
  <2>3. QED BY <1>1, <2>1, <2>2, SentStep
<1>5. QED BY <1>3, <1>4

LEMMA JoinStep ==
  ASSUME OrmInv, Join
  PROVE  OrmInv'
<1> DEFINE valid  == hand[1].valid /\ hand[2].valid
           tables == {IF hand[1].text = <<>> /\ dialect = "postgres" THEN Refusal ELSE rows}
<1>1. hand[1] \in Goods /\ hand[2] \in Goods /\ rows \subseteq Rows /\ Unique(rows)
  <2>1. hand \in Seq(Goods) /\ rows \subseteq Rows /\ Unique(rows)
    BY DEF OrmInv, Fine
  <2>2. Len(hand) = 2
    BY DEF Join
  <2>3. QED BY <2>1, <2>2
<1>2. (hand[1].ok => hand[1].valid) /\ (hand[2].ok => hand[2].valid)
  BY <1>1 DEF Goods, Sound
<1>3. \A t \in tables : t # Refusal => t \subseteq Rows /\ Unique(t)
  BY <1>1
<1>4. CASE NotSent("join", {}, valid)
  BY <1>4, NotSentStep
<1>5. CASE NotSent("projected", {}, hand[2].valid)
  BY <1>5, NotSentStep
<1>6. CASE hand[1].ok /\ hand[2].ok /\ Sent("join", {}, valid, tables)
  <2>1. valid
    BY <1>2, <1>6
  <2> HIDE DEF valid, tables
  <2>2. MergesAsPromised'
    BY <1>6, NoMergeSent
  <2>3. QED BY <1>3, <1>6, <2>1, <2>2, SentStep
<1>7. CASE hand[2].ok /\ Sent("projected", {}, hand[2].valid, tables)
  <2>1. hand[2].valid
    BY <1>2, <1>7
  <2> HIDE DEF tables
  <2>2. MergesAsPromised'
    BY <1>7, NoMergeSent
  <2>3. QED BY <1>3, <1>7, <2>1, <2>2, SentStep
<1>8. QED BY <1>4, <1>5, <1>6, <1>7 DEF Join

\* The rows a where() finds, and those it means.
LEMMA MeantIsFound ==
  ASSUME OrmInv, NEW c \in Goods, c.ok
  PROVE  (IF c.odd THEN Found(c) ELSE MeantRows(c)) = Found(c) /\ Found(c) \subseteq rows
<1>1. rows \subseteq Rows
  BY DEF OrmInv, Fine
<1>2. Found(c) \subseteq rows
  BY DEF Found
<1>3. QED BY <1>1, <1>2, FoundIsMeant

LEMMA DeleteStep ==
  ASSUME OrmInv, Delete
  PROVE  OrmInv'
<1> DEFINE where == ReplaceWhere(hand)
           meant == IF where.odd THEN Found(where) ELSE MeantRows(where)
<1>1. where \in Goods /\ rows \subseteq Rows /\ Unique(rows)
  BY ReplaceGood DEF OrmInv, Fine
<1>2. where.ok => where.valid
  BY <1>1 DEF Goods, Sound
<1> HIDE DEF where
<1>3. CASE ~where.ok
  <2>1. NotSent("delete", {}, where.valid)
    BY <1>3 DEF Delete, where
  <2>2. QED BY <2>1, NotSentStep
<1>4. CASE where.ok
  <2>1. Sent("delete", meant, where.valid, {rows \ Found(where)})
    BY <1>4 DEF Delete, where
  <2>2. meant = Found(where) /\ Found(where) \subseteq rows
    BY <1>1, <1>4, MeantIsFound
  <2> HIDE DEF meant
  <2>3. rows \ Found(where) \subseteq Rows /\ Unique(rows \ Found(where))
    BY <1>1 DEF Unique
  <2> DEFINE tables == {rows \ Found(where)}
  <2>4. \A t \in tables : t \subseteq Rows /\ Unique(t) /\ rows \ t \subseteq meant /\ t = rows \ meant
    BY <2>2, <2>3
  <2>5. Sent("delete", meant, where.valid, tables) /\ where.valid
    BY <1>2, <1>4, <2>1
  <2> HIDE DEF tables
  <2>6. MergesAsPromised'
    BY <2>5, NoMergeSent
  <2>7. QED BY <2>4, <2>5, <2>6, SentStep
<1>5. QED BY <1>3, <1>4

LEMMA SetListsWrite ==
  ASSUME NEW sets \in SetLists, AllOk(sets)
  PROVE  sets \in Seq({a \in Assignments : a.ok})
<1> DEFINE A == {a \in Assignments : a.ok}
<1>1. CASE sets = <<>>
  BY <1>1
<1>2. CASE \E a \in Assignments : sets = <<a>>
  <2>1. PICK a \in Assignments : sets = <<a>>
    BY <1>2
  <2>2. a \in A
    BY <2>1 DEF AllOk
  <2> HIDE DEF A
  <2>3. QED BY <2>1, <2>2 DEF A
<1>3. CASE \E a \in Assignments : \E b \in Assignments : sets = <<a, b>>
  <2>1. PICK a \in Assignments, b \in Assignments : sets = <<a, b>>
    BY <1>3
  <2>2. 1 \in DOMAIN sets /\ 2 \in DOMAIN sets /\ sets[1] = a /\ sets[2] = b
    BY <2>1
  <2>3. a \in A /\ b \in A
    BY <2>2 DEF AllOk
  <2> HIDE DEF A
  <2>4. QED BY <2>1, <2>3 DEF A
<1>4. QED BY <1>1, <1>2, <1>3 DEF SetLists

LEMMA UpdateStep ==
  ASSUME OrmInv, NEW sets \in SetLists, Update(sets)
  PROVE  OrmInv'
<1> DEFINE where  == ReplaceWhere(hand)
           meant  == IF where.odd THEN Found(where) ELSE MeantRows(where)
           valid  == where.valid /\ AllOk(sets)
           tables == IF sets = <<>> THEN {rows} ELSE AfterUpdate(Found(where), sets)
<1>1. where \in Goods /\ rows \subseteq Rows /\ Unique(rows)
  BY ReplaceGood DEF OrmInv, Fine
<1>2. where.ok => where.valid
  BY <1>1 DEF Goods, Sound
<1> HIDE DEF where
<1>3. CASE ~where.ok \/ ~AllOk(sets)
  <2>1. NotSent("update", {}, valid)
    BY <1>3 DEF Update, where
  <2>2. QED BY <2>1, NotSentStep
<1>4. CASE where.ok /\ AllOk(sets)
  <2>1. Sent("update", meant, valid, tables) /\ valid
    BY <1>2, <1>4 DEF Update, where
  <2>2. meant = Found(where) /\ Found(where) \subseteq rows
    BY <1>1, <1>4, MeantIsFound
  <2>3. ASSUME NEW t \in tables, t # Refusal PROVE t \subseteq Rows /\ Unique(t) /\ rows \ t \subseteq Found(where)
    <3>1. CASE sets = <<>>
      BY <1>1, <2>3, <3>1
    <3>2. CASE sets # <<>>
      <4>1. sets \in Seq({a \in Assignments : a.ok}) /\ \A a \in {b \in Assignments : b.ok} : Writes(a)
        BY <1>4, SetListsWrite, AssignmentsWrite
      <4>2. t \in AfterUpdate(Found(where), sets)
        BY <2>3, <3>2
      <4>3. QED BY <1>1, <2>2, <2>3, <4>1, <4>2, AfterUpdateIs
    <3>3. QED BY <3>1, <3>2
  <2> HIDE DEF meant, valid, tables
  <2>4. MergesAsPromised'
    BY <2>1, NoMergeSent
  <2>5. QED BY <2>1, <2>2, <2>3, <2>4, SentStep
<1>5. QED BY <1>3, <1>4

LEMMA InsertStep ==
  ASSUME OrmInv, AnInsert
  PROVE  OrmInv'
<1>1. PICK i \in Ids, a \in Assignments, b \in Assignments :
        \E sets \in {<<>>, <<a>>, <<Assign(Ref("id"), i), a>>, <<Assign(Ref("id"), i), a, b>>} : Insert(sets)
  BY DEF AnInsert
<1>2. PICK sets \in {<<>>, <<a>>, <<Assign(Ref("id"), i), a>>, <<Assign(Ref("id"), i), a, b>>} : Insert(sets)
  BY <1>1
<1>3. rows \subseteq Rows
  BY DEF OrmInv, Fine
<1>4. CASE InsertRefused(sets)
  <2>1. NotSent("insert", {}, AllOk(sets))
    BY <1>2, <1>4 DEF Insert
  <2>2. QED BY <2>1, NotSentStep
<1>5. CASE ~InsertRefused(sets)
  <2>1. Sent("insert", {}, AllOk(sets), AfterInsert(sets)) /\ AllOk(sets)
    BY <1>2, <1>5 DEF Insert, InsertRefused
  <2>2. \A k \in DOMAIN sets : Puts(sets[k])
    BY <1>2, <1>5, InsertedPut
  <2>3. \A t \in AfterInsert(sets) : t # Refusal => t \subseteq Rows /\ Unique(t)
    BY <1>3, <2>2, AfterInsertIs
  <2>4. MergesAsPromised'
    BY <2>1, NoMergeSent
  <2>5. QED BY <2>1, <2>3, <2>4, SentStep
<1>6. QED BY <1>4, <1>5

LEMMA UpsertStep ==
  ASSUME OrmInv, AnUpsert
  PROVE  OrmInv'
<1>1. PICK i \in Ids, v \in Tags \cup {Null}, a \in Values :
        \E values \in {<<>>, <<Assign(Ref("id"), i), Assign(Ref("tag"), v), a>>} :
        \E targets \in ConflictTargets, merges \in Merges, nothing \in BOOLEAN :
          Upsert(values, targets, merges, nothing)
  BY DEF AnUpsert
<1>2. PICK values \in {<<>>, <<Assign(Ref("id"), i), Assign(Ref("tag"), v), a>>},
           targets \in ConflictTargets, merges \in Merges, nothing \in BOOLEAN :
        Upsert(values, targets, merges, nothing)
  BY <1>1
<1> DEFINE asked  == [values |-> values, targets |-> targets, merges |-> merges]
           valid  == AllOk(values) /\ AllOk(targets) /\ AllOk(merges)
           tables == AfterUpsert(values, targets, merges)
<1>3. rows \subseteq Rows /\ Unique(rows)
  BY DEF OrmInv, Fine
<1>4. CASE UpsertRefused(values, targets, merges, nothing)
  <2>1. NotSent("upsert", asked, valid)
    BY <1>2, <1>4 DEF Upsert
  <2>2. QED BY <2>1, NotSentStep
<1>5. CASE ~UpsertRefused(values, targets, merges, nothing)
  <2>1. Sent("upsert", asked, valid, tables)
    BY <1>2, <1>5 DEF Upsert
  <2>2. AllOk(values) /\ AllOk(targets) /\ AllOk(merges)
    BY <1>5 DEF UpsertRefused
  <2>3. merges \in Seq(Mixers) /\ \A m \in Mixers : Mixes(m)
    BY <2>2, MergesMix, MixersMix
  <2>4. (\A k \in DOMAIN values : Puts(values[k])) /\ New(values) \in Rows
    BY <1>2, <1>5, UpsertedPut
  <2>5. \A t \in tables : t # Refusal => t \subseteq Rows /\ Unique(t)
    BY <1>3, <2>3, <2>4, AfterUpsertIs
  <2>6. MergesAsPromised'
    <3>1. PICK t \in tables : IF t = Refusal THEN rows' = rows /\ Answered("upsert", asked, valid, "refused")
                                             ELSE rows' = t /\ Answered("upsert", asked, valid, "ok")
      BY <2>1 DEF Sent
    <3>2. /\ dialect' = dialect /\ answer'.kind = "upsert" /\ answer'.asked = asked /\ answer'.was = rows
          /\ t # Refusal => rows' = t
      BY <3>1 DEF Answered
    <3>3. answer'.asked.values = values /\ answer'.asked.targets = targets /\ answer'.asked.merges = merges
      BY <3>2
    <3> DEFINE new  == New(values)
               key  == targets[1].text
               olds == {r \in rows : r[key] = new[key] /\ new[key] # Null}
    <3>4. ASSUME key \in {"id", "tag"},
                 \A c \in {"id", "tag"} \ {key} : ~ \E r \in rows : r[c] = new[c] /\ new[c] # Null,
                 Len(merges) = 1, merges[1].text = "level",
                 \A k \in DOMAIN values : values[k].target \in Columns,
                 ~(dialect = "postgres" /\ merges[1].mode # "replace"),
                 ~ \E r \in olds : LosesToNull(merges[1].mode, r.level, new.level)
          PROVE  rows' = IF olds = {} THEN rows \cup {new}
                         ELSE (rows \ olds) \cup {[r EXCEPT !.level = Promised(merges[1].mode, @, new.level)] : r \in olds}
      <4>1. Usual(values, merges, key) /\ olds = OldRows(key, new)
        BY <3>4 DEF Usual, OldRows
      <4>2. t # Refusal /\ t = PromisedTable(OldRows(key, new), new, merges[1].mode)
        BY <1>3, <1>5, <2>3, <2>4, <4>1, UpsertPromise
      <4>3. QED BY <3>2, <4>1, <4>2 DEF PromisedTable
    <3>5. \A mode, x, y : LosesToNull(mode, x, y)' <=> LosesToNull(mode, x, y)
      BY <3>2 DEF LosesToNull
    <3> HIDE DEF asked, valid, tables
    <3>6. QED BY <3>2, <3>3, <3>4, <3>5 DEF MergesAsPromised
  <2> HIDE DEF asked, tables
  <2>7. QED BY <2>1, <2>2, <2>5, <2>6, SentStep
<1>6. QED BY <1>4, <1>5

\* MergesAsPromised of an answer, a table and a server.
Keeps(a, now, d) ==
  a # Nobody /\ a.kind = "upsert" /\ a.outcome # "invalid" =>
    LET new    == New(a.asked.values)
        merges == a.asked.merges
        key    == a.asked.targets[1].text
        olds   == {r \in a.was : r[key] = new[key] /\ new[key] # Null}
        Plainly == /\ key \in {"id", "tag"} /\ \A c \in {"id", "tag"} \ {key} :
                         ~ \E r \in a.was : r[c] = new[c] /\ new[c] # Null
                   /\ Len(merges) = 1 /\ merges[1].text = "level"
                   /\ \A i \in DOMAIN a.asked.values : a.asked.values[i].target \in Columns
        merged(r) == [r EXCEPT !.level = Promised(merges[1].mode, @, new.level)]
    IN Plainly /\ ~(d = "postgres" /\ merges[1].mode # "replace")
         /\ ~(\E r \in olds : merges[1].mode = "greatest" /\ Null \in {r.level, new.level} /\ d # "postgres") =>
       now = IF olds = {} THEN a.was \cup {new} ELSE (a.was \ olds) \cup {merged(r) : r \in olds}

LEMMA KeepsNow == MergesAsPromised <=> Keeps(answer, rows, dialect)
BY DEF MergesAsPromised, Keeps, LosesToNull

LEMMA KeepsNext == MergesAsPromised' <=> Keeps(answer', rows', dialect')
BY DEF MergesAsPromised, Keeps, LosesToNull

LEMMA StillStep ==
  ASSUME OrmInv, UNCHANGED vars
  PROVE  OrmInv'
<1>1. dialect' = dialect /\ rows' = rows /\ hand' = hand /\ answer' = answer
  BY DEF vars
<1>2. Fine'
  BY <1>1 DEF OrmInv, Fine
<1>3. Outcome' /\ InvalidIsNotSent' /\ ChangesOnlyItsRows'
  BY <1>1 DEF OrmInv, Outcome, InvalidIsNotSent, ChangesOnlyItsRows
<1>4. MergesAsPromised'
  <2>1. Keeps(answer, rows, dialect)
    BY KeepsNow DEF OrmInv
  <2>2. Keeps(answer', rows', dialect')
    BY <1>1, <2>1
  <2>3. QED BY <2>2, KeepsNext
<1>5. QED BY <1>2, <1>3, <1>4 DEF OrmInv

LEMMA ForgetStep ==
  ASSUME OrmInv, Forget
  PROVE  OrmInv'
<1>1. dialect' = dialect /\ rows' = rows /\ hand' = hand /\ answer' = Nobody
  BY DEF Forget
<1>2. QED
  BY <1>1 DEF OrmInv, Fine, Outcome, InvalidIsNotSent, ChangesOnlyItsRows, MergesAsPromised

LEMMA OrmInvStart ==
  ASSUME Init
  PROVE  OrmInv
<1>1. Unique({}) /\ <<>> \in Seq(Goods)
  BY DEF Unique
<1>2. QED
  BY <1>1 DEF Init, OrmInv, Fine, Outcome, InvalidIsNotSent, ChangesOnlyItsRows, MergesAsPromised

LEMMA OrmInvStep ==
  ASSUME OrmInv, [Next]_vars
  PROVE  OrmInv'
<1>1. ASSUME NEW c \in Leaves, Push(c) PROVE OrmInv'
  BY <1>1, PushStep
<1>2. CASE Combine
  BY <1>2, CombineStep
<1>3. CASE Negate
  BY <1>3, NegateStep
<1>4. ASSUME NEW ref \in {Ref("level"), InvalidRef}, CompareWithCondition(ref) PROVE OrmInv'
  BY <1>4, OperandStep
<1>5. CASE ASelect
  BY <1>5, SelectStep DEF ASelect
<1>6. CASE Join
  BY <1>6, JoinStep
<1>7. CASE Delete
  BY <1>7, DeleteStep
<1>8. CASE AnUpdate
  BY <1>8, UpdateStep DEF AnUpdate
<1>9. CASE AnInsert
  BY <1>9, InsertStep
<1>10. CASE AnUpsert
  BY <1>10, UpsertStep
<1>11. CASE Forget
  BY <1>11, ForgetStep
<1>12. CASE UNCHANGED vars
  BY <1>12, StillStep
<1>13. QED
  BY <1>1, <1>2, <1>3, <1>4, <1>5, <1>6, <1>7, <1>8, <1>9, <1>10, <1>11, <1>12 DEF Next

LEMMA OrmInvHolds == Spec => []OrmInv
<1>1. Init => OrmInv
  BY OrmInvStart
<1>2. OrmInv /\ [Next]_vars => OrmInv'
  BY OrmInvStep
<1>3. QED BY <1>1, <1>2, PTL DEF Spec

-----------------------------------------------------------------------------
(* What follows from it.                                                   *)

\* Every condition that is not out of scope has one value for each of its
\* question marks, whatever operators put it together (orm.cpp's binders move
\* with the text), and no statement, merge or clause of a dialect leaves a
\* table with a key twice.
THEOREM OrmTypeCorrect == Spec => []TypeOK
<1>1. OrmInv => TypeOK
  BY InvGivesTypeOK
<1>2. QED BY <1>1, OrmInvHolds, PTL

\* The text of a condition, of any leaves joined by any number of && and ||
\* and negated any number of times, is read by a server as the C++ expression
\* it was built from: the parentheses of operator&&, operator|| and operator!
\* (orm.cpp) keep every part a part, and each value stands at its own mark.
THEOREM ConditionsMeanWhatTheySay == Spec => []WhereSelectsItsRows
<1>1. OrmInv => WhereSelectsItsRows
  BY InvGivesWhere
<1>2. QED BY <1>1, OrmInvHolds, PTL

\* A diagnostic of an unmapped member anywhere in the conditions, assignments,
\* targets, merges or selected columns of a statement keeps it from being sent.
THEOREM InvalidNeverSent == Spec => []InvalidIsNotSent
<1>1. OrmInv => InvalidIsNotSent
  BY DEF OrmInv
<1>2. QED BY <1>1, OrmInvHolds, PTL

\* delete() removes exactly the rows its last where() means, update() touches
\* no other row, on every server and for conditions of any depth.
THEOREM OnlyMeantRowsChange == Spec => []ChangesOnlyItsRows
<1>1. OrmInv => ChangesOnlyItsRows
  BY DEF OrmInv
<1>2. QED BY <1>1, OrmInvHolds, PTL

\* An upsert() with one merge of the level does to the row with the key what
\* README.md:556-559 says of the merge, or inserts the new row, on all three
\* servers, for tables of any size.
THEOREM MergesKeepTheirPromise == Spec => []MergesAsPromised
<1>1. OrmInv => MergesAsPromised
  BY DEF OrmInv
<1>2. QED BY <1>1, OrmInvHolds, PTL

================================================================================
