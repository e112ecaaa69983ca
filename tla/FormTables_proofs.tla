--------------------------- MODULE FormTables_proofs ---------------------------
(***************************************************************************)
(* Proofs about FormTables, for any callers, tables, structs that compile, *)
(* and tables of other programs whose types are written as OthersReported  *)
(* says.  No rule about the use of forms is needed.                        *)
(*                                                                         *)
(* FormTypeCorrect: every state is well typed.  Inv says of a call what it *)
(* is to do and what it may do next (Stepping), and of a call with a claim *)
(* to its table that it made the table just as the server makes it of the  *)
(* struct's schema (HasMade) or has compared it with the struct (HasSeen). *)
(* A table nobody claims is one that some call or another program made.    *)
(*                                                                         *)
(* The other three read the answers off the claims, and need lemmas about  *)
(* the columns that each dialect writes: the type that the server reports  *)
(* of one fits and can be read (Reports), a type that fits can be read     *)
(* (CompatibleIsReadable), and keys, references, generated columns and     *)
(* indexes are those of the tags and the items.                            *)
(***************************************************************************)
EXTENDS FormTables, TLAPS, FiniteSetTheorems, WellFoundedInduction

-----------------------------------------------------------------------------
(* The invariant.                                                          *)

Creators == {"create_or_replace", "create_if_not_exists"}

Steps == {"idle", "drop", "create", "index", "describe", "begin"}

\* A call has the fields of Idle.
Formed(k) ==
  k = [op |-> k.op, tag |-> k.tag, struct |-> k.struct, table |-> k.table, step |-> k.step, at |-> k.at,
       answer |-> k.answer, own |-> k.own, missed |-> k.missed]

\* A call is one that a caller can make, at a step that it has.
Typed(k) ==
  /\ Formed(k)
  /\ k.step \in Steps /\ k.answer \in Answers /\ k.own \in BOOLEAN
  /\ k.step # "idle" \/ k.own =>
       k.op \in Ops /\ k.tag \in Dialects /\ k.struct \in DOMAIN Structs /\ k.table \in Tables

\* What is to be made or was made is right for the server.
Fitting(k) ==
  /\ k.tag = server
  /\ NamesValid(Structs[k.struct], k.table)
  /\ Schema(k) # NoSchema

Stepping(k) ==
  /\ k.step # "idle" => k.answer = "none"
  /\ k.step = "drop" => k.op = "create_or_replace"
  /\ k.step = "describe" => k.op = "attach"
  /\ k.step \in {"create", "index"} => k.op \in Creators /\ Fitting(k)
  /\ k.step = "index" => k.at \in DOMAIN Schema(k).indexes

\* The indexes of a table, and those that a call is done with.
Shapes(table) == {Shape(ix) : ix \in {x \in indexes : x.table = table}}

Done(k) == {p \in DOMAIN Schema(k).indexes : k.step = "idle" \/ p < k.at}

\* A call that has its table has made it, or has looked at it.
HasMade(k) ==
  /\ k.op \in Creators /\ Fitting(k)
  /\ tables[k.table] = Made(Schema(k), k.struct)
  /\ (k.step = "index" /\ k.answer = "none") \/ (k.step = "idle" /\ k.answer \in {"form", "error"})
  /\ k.answer # "error" => \A p \in Done(k) : Shape(Schema(k).indexes[p]) \in k.missed \cup Shapes(k.table)

HasSeen(k) ==
  /\ k.op = "attach" /\ k.tag = server /\ k.step = "idle"
  /\ tables[k.table] # NoTable
  /\ (k.answer = "form" /\ Usable(k)) \/ (k.answer = "SchemaMismatch" /\ ~Usable(k))

CallInv(k) == Typed(k) /\ Stepping(k) /\ (k.own => HasMade(k) \/ HasSeen(k))

\* A table is one that another program or a call has made.
MadeOf(t, s) ==
  /\ NamesValid(Structs[s], t) /\ SchemaOf[server][s][t] # NoSchema
  /\ tables[t] = Made(SchemaOf[server][s][t], s)

TableInv(t) ==
  \/ tables[t] = NoTable
  \/ \E other \in Others[server] : tables[t] = Foreign(other)
  \/ \E s \in DOMAIN Structs : MadeOf(t, s)

IndexInv == \A ix \in indexes : ix.table \in Tables /\ tables[ix.table] # NoTable

Inv ==
  /\ server \in Dialects /\ left \in 0..Calls
  /\ DOMAIN call = Callers /\ DOMAIN tables = Tables
  /\ \A t \in Tables : TableInv(t)
  /\ IndexInv
  /\ \A k \in {call[c] : c \in Callers} : CallInv(k)

-----------------------------------------------------------------------------
(* The records of calls.                                                   *)

\* A call that has nothing but its answer.
Gone(answer) ==
  [op |-> "none", tag |-> "none", struct |-> "none", table |-> <<>>, step |-> "idle", at |-> 0,
   answer |-> answer, own |-> FALSE, missed |-> {}]

\* A call with another step, place, answer, ownership and missed indexes.
Put(k, step, at, answer, own, missed) ==
  [op |-> k.op, tag |-> k.tag, struct |-> k.struct, table |-> k.table, step |-> step, at |-> at,
   answer |-> answer, own |-> own, missed |-> missed]

\* What an EXCEPT makes of a call.
LEMMA PutOne ==
  ASSUME NEW k, Formed(k), NEW x
  PROVE  /\ [k EXCEPT !.step = x] = Put(k, x, k.at, k.answer, k.own, k.missed)
         /\ [k EXCEPT !.at = x] = Put(k, k.step, x, k.answer, k.own, k.missed)
         /\ [k EXCEPT !.answer = x] = Put(k, k.step, k.at, x, k.own, k.missed)
         /\ [k EXCEPT !.own = x] = Put(k, k.step, k.at, k.answer, x, k.missed)
         /\ [k EXCEPT !.missed = x] = Put(k, k.step, k.at, k.answer, k.own, x)
<1>1. [k EXCEPT !.step = x] = Put(k, x, k.at, k.answer, k.own, k.missed)
  BY DEF Formed, Put
<1>2. [k EXCEPT !.at = x] = Put(k, k.step, x, k.answer, k.own, k.missed)
  BY DEF Formed, Put
<1>3. [k EXCEPT !.answer = x] = Put(k, k.step, k.at, x, k.own, k.missed)
  BY DEF Formed, Put
<1>4. [k EXCEPT !.own = x] = Put(k, k.step, k.at, k.answer, x, k.missed)
  BY DEF Formed, Put
<1>5. [k EXCEPT !.missed = x] = Put(k, k.step, k.at, k.answer, k.own, x)
  BY DEF Formed, Put
<1>6. QED BY <1>1, <1>2, <1>3, <1>4, <1>5

\* What is put is formed.
LEMMA PutFormed ==
  ASSUME NEW k, NEW step, NEW at, NEW answer, NEW own, NEW missed
  PROVE  Formed(Put(k, step, at, answer, own, missed))
BY DEF Formed, Put

\* Two fields at once.
LEMMA PutTwo ==
  ASSUME NEW k, Formed(k), NEW step, NEW x
  PROVE  /\ [k EXCEPT !.step = step, !.at = x] = Put(k, step, x, k.answer, k.own, k.missed)
         /\ [k EXCEPT !.step = step, !.answer = x] = Put(k, step, k.at, x, k.own, k.missed)
<1> DEFINE mid == Put(k, step, k.at, k.answer, k.own, k.missed)
<1>1. mid = [k EXCEPT !.step = step] /\ Formed(mid)
  BY PutOne, PutFormed
<1>2. /\ [k EXCEPT !.step = step, !.at = x] = [[k EXCEPT !.step = step] EXCEPT !.at = x]
      /\ [k EXCEPT !.step = step, !.answer = x] = [[k EXCEPT !.step = step] EXCEPT !.answer = x]
  <2>1. [k EXCEPT !.step = step, !.at = x] = [[k EXCEPT !.step = step] EXCEPT !.at = x]
    OBVIOUS
  <2>2. [k EXCEPT !.step = step, !.answer = x] = [[k EXCEPT !.step = step] EXCEPT !.answer = x]
    OBVIOUS
  <2>3. QED BY <2>1, <2>2
<1>3. /\ [mid EXCEPT !.at = x] = Put(mid, mid.step, x, mid.answer, mid.own, mid.missed)
      /\ [mid EXCEPT !.answer = x] = Put(mid, mid.step, mid.at, x, mid.own, mid.missed)
  <2>1. Formed(mid)
    BY <1>1
  <2> HIDE DEF mid
  <2>2. QED BY <2>1, PutOne
<1>4. /\ Put(mid, mid.step, x, mid.answer, mid.own, mid.missed) = Put(k, step, x, k.answer, k.own, k.missed)
      /\ Put(mid, mid.step, mid.at, x, mid.own, mid.missed) = Put(k, step, k.at, x, k.own, k.missed)
  BY DEF Put
<1> HIDE DEF mid
<1>5. QED BY <1>1, <1>2, <1>3, <1>4

LEMMA OverIs ==
  ASSUME NEW k
  PROVE  Over(k) = IF k.own THEN k ELSE Gone(k.answer)
<1>1. ASSUME NEW a PROVE [Idle EXCEPT !.answer = a] = Gone(a)
  <2>1. Formed(Idle)
    BY DEF Formed, Idle, Fresh
  <2>2. [Idle EXCEPT !.answer = a] = Put(Idle, Idle.step, Idle.at, a, Idle.own, Idle.missed)
    BY <2>1, PutOne
  <2>3. QED BY <2>2 DEF Put, Idle, Fresh, Gone
<1>2. QED BY <1>1 DEF Over

LEMMA AnswerIs ==
  ASSUME NEW k, Formed(k), NEW answer
  PROVE  Answer(k, answer) = IF k.own THEN Put(k, "idle", k.at, answer, TRUE, k.missed) ELSE Gone(answer)
<1>1. [k EXCEPT !.step = "idle", !.answer = answer] = Put(k, "idle", k.at, answer, k.own, k.missed)
  BY PutTwo
<1>2. QED BY <1>1, OverIs DEF Answer, Put

LEMMA DisownIs ==
  ASSUME NEW k, Formed(k), NEW table
  PROVE  Disown(k, table) =
           IF k.own /\ k.table # table THEN k
           ELSE IF k.step = "idle" THEN Gone(k.answer)
           ELSE Put(k, k.step, k.at, k.answer, FALSE, k.missed)
<1> DEFINE kept == k.own /\ k.table # table
<1>1. [k EXCEPT !.own = kept] = Put(k, k.step, k.at, k.answer, kept, k.missed)
  <2> HIDE DEF kept
  <2>1. QED BY PutOne
<1>2. QED BY <1>1, OverIs DEF Disown, Put, Formed

-----------------------------------------------------------------------------
(* What a step that leaves the server leaves of the rest.                  *)

\* The server makes of a schema what it made.
LEMMA MadeSame ==
  ASSUME server' = server, NEW schema, NEW s
  PROVE  Made(schema, s)' = Made(schema, s)
<1>1. ASSUME NEW type PROVE Reported(type)' = Reported(type)
  BY DEF Reported
<1>2. ASSUME NEW col PROVE PrimaryOf(col)' <=> PrimaryOf(col)
  BY DEF PrimaryOf
<1>3. Keys(schema)' = Keys(schema)
  <2>1. PrimaryKeys(schema)' = PrimaryKeys(schema)
    BY <1>2 DEF PrimaryKeys
  <2>2. QED BY <2>1 DEF Keys
<1>4. References(schema)' = References(schema)
  BY DEF References
<1>5. Names(schema)' = Names(schema) /\ Generated(schema)' = Generated(schema)
  BY DEF Names, Generated
<1>6. [n \in Names(schema) |-> Reported(ColumnOf(schema, n).type)]'
        = [n \in Names(schema) |-> Reported(ColumnOf(schema, n).type)]
  BY <1>1
<1>7. QED BY <1>3, <1>4, <1>5, <1>6 DEF Made

\* A call that has no table, or whose table and indexes stay, stays sound.
LEMMA CallKept ==
  ASSUME server' = server, NEW k, CallInv(k),
         k.own => tables'[k.table] = tables[k.table] /\ Shapes(k.table) \subseteq Shapes(k.table)'
  PROVE  CallInv(k)'
<1>1. Stepping(k)' <=> Stepping(k)
  BY DEF Stepping, Fitting
<1>2. ASSUME k.own, HasMade(k) PROVE HasMade(k)'
  <2>1. Made(Schema(k), k.struct)' = Made(Schema(k), k.struct)
    BY MadeSame
  <2>2. QED BY <1>2, <2>1 DEF HasMade, Fitting
<1>3. ASSUME k.own, HasSeen(k) PROVE HasSeen(k)'
  <2>1. Usable(k)' <=> Usable(k)
    BY <1>3 DEF Usable
  <2>2. QED BY <1>3, <2>1 DEF HasSeen
<1>4. QED BY <1>1, <1>2, <1>3 DEF CallInv

\* So does a table that no step changes.
LEMMA TableKept ==
  ASSUME server' = server, NEW t, TableInv(t), tables'[t] = tables[t]
  PROVE  TableInv(t)'
<1>1. ASSUME NEW s, MadeOf(t, s) PROVE MadeOf(t, s)'
  <2>1. Made(SchemaOf[server][s][t], s)' = Made(SchemaOf[server][s][t], s)
    <3>1. PICK schema : schema = SchemaOf[server][s][t]
      OBVIOUS
    <3>2. Made(schema, s)' = Made(schema, s)
      BY MadeSame
    <3>3. QED BY <3>1, <3>2
  <2>2. QED BY <1>1, <2>1 DEF MadeOf
<1>2. QED BY <1>1 DEF TableInv

-----------------------------------------------------------------------------
(* The places of indexes.                                                  *)

\* A set of numbers has a least member.
LEMMA LeastNumber ==
  ASSUME NEW T, T \subseteq Nat, T # {}
  PROVE  \E x \in T : \A y \in T : x <= y
<1> DEFINE Below == {0..x : x \in T}
<1>1. Below \subseteq FiniteSubsetsOf(Nat) /\ Below # {}
  <2>1. ASSUME NEW x \in T PROVE 0..x \subseteq Nat /\ IsFiniteSet(0..x)
    BY FS_Interval, x \in Nat, SMT
  <2>2. QED BY <2>1 DEF FiniteSubsetsOf
<1>2. PICK s \in Below : \A t \in Below : ~(<<t, s>> \in StrictSubsetOrdering(Nat))
  <2> HIDE DEF Below
  <2>1. QED BY <1>1, FS_StrictSubsetOrderingWellFounded, WFMin
<1>3. PICK x \in T : s = 0..x
  BY <1>2
<1>4. ASSUME NEW y \in T PROVE x <= y
  <2>1. SUFFICES ASSUME y < x PROVE FALSE
    BY <1>1, SMT
  <2>2. 0..y \in SUBSET (0..x) /\ 0..y # 0..x /\ 0..y \in Below /\ 0..y \subseteq Nat /\ 0..x \subseteq Nat
    BY <2>1, x \in Nat, y \in Nat, SMT
  <2>3. QED BY <2>2, <1>1, <1>2, <1>3 DEF StrictSubsetOrdering, FiniteSubsetsOf
<1>5. QED BY <1>4

\* A call that has a dialect, a struct and a table.
Named(k) == k.tag \in Dialects /\ k.struct \in DOMAIN Structs /\ k.table \in Tables

LEMMA SchemaIs ==
  ASSUME NEW k, Named(k)
  PROVE  Schema(k) = TableSchema(k.tag, Structs[k.struct], k.table)
BY DEF Schema, SchemaOf, Named

\* The columns and the items of a struct are sequences.
LEMMA StructIs ==
  ASSUME NEW s \in DOMAIN Structs
  PROVE  Structs[s].columns \in Seq(Fields) /\ Structs[s].items \in Seq(Items)
BY StructsTyped

\* The indexes of the columns, and behind them those of the items.
LEMMA IndexesAre ==
  ASSUME NEW s, s.columns \in Seq(Fields), s.items \in Seq(Items), NEW table
  PROVE  LET all == Indexes(table, s) IN
         /\ DOMAIN all \subseteq Nat \ {0}
         /\ \A p \in DOMAIN all : all[p].table = table
         /\ \A p \in Indexed(s) : p \in DOMAIN all /\ all[p] = ColumnIndex(table, s.columns[p])
         /\ \A i \in Placed(s, "index") :
              LET it == s.items[i] IN
              Len(s.columns) + i \in DOMAIN all
                /\ all[Len(s.columns) + i] = Index(it.name, table, it.columns, it.unique)
<1> DEFINE all == Indexes(table, s)
           behind == Len(s.columns)
           item(i) == Index(s.items[i].name, table, s.items[i].columns, s.items[i].unique)
<1>1. behind \in Nat /\ Indexed(s) \subseteq 1..behind /\ Placed(s, "index") \subseteq Nat \ {0}
  BY DEF Indexed, Placed
<1>2. DOMAIN all = Indexed(s) \cup {behind + i : i \in Placed(s, "index")}
  BY DEF Indexes
<1>3. ASSUME NEW p \in DOMAIN all
      PROVE  all[p] = IF p <= behind THEN ColumnIndex(table, s.columns[p]) ELSE item(p - behind)
  BY <1>2 DEF Indexes
<1>4. ASSUME NEW i, NEW c PROVE item(i).table = table /\ ColumnIndex(table, c).table = table
  BY DEF Index, ColumnIndex
<1> HIDE DEF all, item
<1>5. ASSUME NEW p \in DOMAIN all PROVE all[p].table = table
  BY <1>3, <1>4
<1>6. ASSUME NEW p \in Indexed(s) PROVE p \in DOMAIN all /\ all[p] = ColumnIndex(table, s.columns[p])
  BY <1>1, <1>2, <1>3
<1>7. ASSUME NEW i \in Placed(s, "index") PROVE behind + i \in DOMAIN all /\ all[behind + i] = item(i)
  <2>1. behind + i \in DOMAIN all /\ ~(behind + i <= behind) /\ (behind + i) - behind = i
    BY <1>1, <1>2
  <2> HIDE DEF behind
  <2>2. QED BY <2>1, <1>3
<1>8. DOMAIN all \subseteq Nat \ {0}
  BY <1>1, <1>2
<1>9. QED BY <1>5, <1>6, <1>7, <1>8 DEF all, item

\* The places of indexes are numbers, and each names its table.
LEMMA PlacesAreNumbers ==
  ASSUME NEW k, Named(k)
  PROVE  /\ DOMAIN Schema(k).indexes \subseteq Nat \ {0}
         /\ \A p \in DOMAIN Schema(k).indexes : Schema(k).indexes[p].table = k.table
<1> DEFINE s == Structs[k.struct]
           d == k.tag
<1>1. s.columns \in Seq(Fields) /\ s.items \in Seq(Items)
  BY StructIs DEF Named
<1>2. /\ DOMAIN Indexes(k.table, s) \subseteq Nat \ {0}
      /\ \A p \in DOMAIN Indexes(k.table, s) : Indexes(k.table, s)[p].table = k.table
  <2> HIDE DEF s
  <2>1. QED BY <1>1, IndexesAre
<1>3. CASE Schema(k) = NoSchema
  BY <1>3 DEF NoSchema
<1>4. CASE Schema(k) # NoSchema
  <2>1. Schema(k).indexes = Indexes(k.table, s)
    BY <1>4, SchemaIs DEF TableSchema
  <2>2. QED BY <2>1, <1>2
<1>5. QED BY <1>3, <1>4

\* Where a call goes on: at its next index, or it has its form.
LEMMA IndexingIs ==
  ASSUME NEW k, Formed(k), Named(k), NEW last \in Nat
  PROVE  \/ /\ \A p \in DOMAIN Schema(k).indexes : p <= last
            /\ k.own /\ Indexing(k, last) = Put(k, "idle", k.at, "form", TRUE, k.missed)
         \/ ~k.own /\ Indexing(k, last) = Gone("form")
         \/ \E at \in DOMAIN Schema(k).indexes :
              /\ Indexing(k, last) = Put(k, "index", at, k.answer, k.own, k.missed)
              /\ \A p \in DOMAIN Schema(k).indexes : p < at => p <= last
<1> DEFINE rest == Behind(k, last)
<1>1. rest \subseteq Nat /\ rest \subseteq DOMAIN Schema(k).indexes /\ DOMAIN Schema(k).indexes \subseteq Nat
  BY PlacesAreNumbers DEF Behind
<1>2. CASE rest = {}
  <2>1. \A p \in DOMAIN Schema(k).indexes : p <= last
    BY <1>1, <1>2 DEF Behind
  <2>2. Indexing(k, last) = Answer(k, "form")
    BY <1>2 DEF Indexing
  <2>3. QED BY <2>1, <2>2, AnswerIs
<1>3. CASE rest # {}
  <2> DEFINE at == CHOOSE p \in rest : \A q \in rest : p <= q
  <2>1. \E p \in rest : \A q \in rest : p <= q
    <3> HIDE DEF rest
    <3>1. QED BY <1>1, <1>3, LeastNumber
  <2>2. at \in rest /\ \A q \in rest : at <= q
    BY <2>1
  <2>3. Indexing(k, last) = [k EXCEPT !.step = "index", !.at = at]
    BY <1>3 DEF Indexing
  <2>4. [k EXCEPT !.step = "index", !.at = at] = Put(k, "index", at, k.answer, k.own, k.missed)
    <3> HIDE DEF at
    <3>1. QED BY PutTwo
  <2>5. ASSUME NEW p \in DOMAIN Schema(k).indexes, p < at PROVE p <= last
    <3> HIDE DEF at
    <3>1. p \notin rest
      BY <2>2, <2>5, <1>1
    <3>2. QED BY <3>1, <1>1 DEF Behind
  <2>6. at \in DOMAIN Schema(k).indexes
    BY <2>2, <1>1
  <2> HIDE DEF at
  <2>7. QED BY <2>3, <2>4, <2>5, <2>6
<1>4. QED BY <1>2, <1>3

-----------------------------------------------------------------------------
(* What the calls make of themselves.                                      *)

\* What a call is about is not put.
LEMMA PutAbout ==
  ASSUME NEW k, NEW step, NEW at, NEW answer, NEW own, NEW missed
  PROVE  LET r == Put(k, step, at, answer, own, missed) IN
         /\ Schema(r) = Schema(k)
         /\ Named(r) <=> Named(k)
         /\ Fitting(r) <=> Fitting(k)
         /\ Fitting(r)' <=> Fitting(k)'
         /\ Usable(r) <=> Usable(k)
         /\ r.op = k.op /\ r.tag = k.tag /\ r.struct = k.struct /\ r.table = k.table
         /\ r.step = step /\ r.at = at /\ r.answer = answer /\ r.own = own /\ r.missed = missed
<1> DEFINE r == Put(k, step, at, answer, own, missed)
<1>1. /\ r.op = k.op /\ r.tag = k.tag /\ r.struct = k.struct /\ r.table = k.table
      /\ r.step = step /\ r.at = at /\ r.answer = answer /\ r.own = own /\ r.missed = missed
  BY DEF Put
<1> HIDE DEF r
<1>2. Schema(r) = Schema(k)
  BY <1>1 DEF Schema
<1>3. /\ Named(r) <=> Named(k)
      /\ Fitting(r) <=> Fitting(k)
      /\ Fitting(r)' <=> Fitting(k)'
  BY <1>1, <1>2 DEF Named, Fitting
<1>4. Usable(r) <=> Usable(k)
  BY <1>1 DEF Usable
<1>5. QED BY <1>1, <1>2, <1>3, <1>4 DEF r

\* A call that has only its answer is sound.
LEMMA GoneSound ==
  ASSUME NEW answer \in Answers
  PROVE  CallInv(Gone(answer)) /\ CallInv(Gone(answer))' /\ ~Gone(answer).own
<1> DEFINE g == Gone(answer)
<1>1. Formed(g) /\ g.step = "idle" /\ g.answer = answer /\ g.own = FALSE
  BY DEF Formed, Gone
<1> HIDE DEF g
<1>2. QED BY <1>1 DEF CallInv, Typed, Stepping, Steps, g

\* A call before its CREATE TABLE.
LEMMA CreatingSound ==
  ASSUME NEW k, Formed(k), Named(k), k.op \in Creators, k.answer = "none", k.own = FALSE
  PROVE  CallInv(Creating(k)) /\ ~Creating(k).own
<1>1. Objection(k) \in Answers
  BY DEF Objection, Answers
<1>2. CASE Objection(k) = "none"
  <2> DEFINE r == Put(k, "create", k.at, k.answer, k.own, k.missed)
  <2>1. Creating(k) = r
    BY <1>2, PutOne DEF Creating
  <2>2. Fitting(k)
    BY <1>2 DEF Objection, Fitting
  <2>3. /\ Formed(r) /\ Named(r) /\ Fitting(r) /\ r.op \in Creators
        /\ r.step = "create" /\ r.answer = "none" /\ r.own = FALSE
    BY <2>2, PutFormed, PutAbout
  <2> HIDE DEF r
  <2>4. QED BY <2>1, <2>3 DEF CallInv, Typed, Stepping, Steps, Named, Answers, Creators, Ops
<1>3. CASE Objection(k) # "none"
  <2>1. Creating(k) = Gone(Objection(k))
    BY <1>3, AnswerIs DEF Creating
  <2>2. QED BY <2>1, <1>1, GoneSound
<1>4. QED BY <1>2, <1>3

\* A call at its start, on each of its ways.
LEMMA StartedSound ==
  ASSUME NEW op \in Ops, NEW tag \in Dialects, NEW s \in DOMAIN Structs, NEW t \in Tables
  PROVE  CallInv(Started(op, tag, s, t)) /\ ~Started(op, tag, s, t).own
<1> DEFINE k == Fresh(op, tag, s, t)
           r == Started(op, tag, s, t)
           named == NamesValid(Structs[s], t)
<1>1. /\ Formed(k) /\ Named(k) /\ k.op = op /\ k.answer = "none" /\ k.step = "idle" /\ k.own = FALSE
  BY DEF Fresh, Formed, Named
<1>2. \/ op = "create_if_not_exists" /\ r = Creating(k)
      \/ op = "bind" /\ tag # server /\ r = Answer(k, "DialectNotSupported")
      \/ r = Answer(k, "InvalidParameter")
      \/ op = "bind" /\ r = Answer(k, "form")
      \/ op = "create_or_replace" /\ r = [k EXCEPT !.step = "drop"]
      \/ op = "attach" /\ r = [k EXCEPT !.step = "describe"]
      \/ op = "transaction" /\ r = [k EXCEPT !.step = "begin"]
  <2> HIDE DEF k
  <2>1. QED BY DEF Started, Ops, k
<1> SUFFICES CallInv(r) /\ ~r.own
  OBVIOUS
<1> HIDE DEF k, r
<1>3. ASSUME NEW a \in {"DialectNotSupported", "InvalidParameter", "form"}, r = Answer(k, a)
      PROVE  CallInv(r) /\ ~r.own
  <2>1. r = Gone(a) /\ a \in Answers
    BY <1>1, <1>3, AnswerIs DEF Answers
  <2>2. QED BY <2>1, GoneSound
<1>4. ASSUME NEW step, r = [k EXCEPT !.step = step],
             (step = "drop" /\ op = "create_or_replace") \/ (step = "describe" /\ op = "attach") \/ step = "begin"
      PROVE  CallInv(r) /\ ~r.own
  <2>1. r = Put(k, step, k.at, k.answer, k.own, k.missed)
    BY <1>1, <1>4, PutOne
  <2>2. /\ Formed(r) /\ Named(r) /\ r.op = op /\ r.step = step /\ r.answer = "none" /\ r.own = FALSE
    BY <1>1, <2>1, PutFormed, PutAbout
  <2>3. QED BY <1>4, <2>2 DEF CallInv, Typed, Stepping, Steps, Named, Answers
<1>5. CASE op = "create_if_not_exists" /\ r = Creating(k)
  BY <1>5, <1>1, CreatingSound DEF Creators
<1>6. CASE r \in {Answer(k, a) : a \in {"DialectNotSupported", "InvalidParameter", "form"}}
  BY <1>6, <1>3
<1>7. CASE r = [k EXCEPT !.step = "drop"] /\ op = "create_or_replace"
  BY <1>7, <1>4
<1>8. CASE r = [k EXCEPT !.step = "describe"] /\ op = "attach"
  BY <1>8, <1>4
<1>9. CASE r = [k EXCEPT !.step = "begin"]
  BY <1>9, <1>4
<1>10. QED BY <1>2, <1>5, <1>6, <1>7, <1>8, <1>9

\* A call that has no table, or whose table is made, goes on with its indexes.
LEMMA IndexingSound ==
  ASSUME server' \in Dialects,
         NEW k, Formed(k), Named(k), k.op \in Creators, k.answer = "none", k.own \in BOOLEAN, Fitting(k)',
         NEW last \in Nat,
         k.own => /\ tables'[k.table] = Made(Schema(k), k.struct)'
                  /\ \A p \in DOMAIN Schema(k).indexes :
                       p <= last => Shape(Schema(k).indexes[p]) \in k.missed \cup Shapes(k.table)'
  PROVE  CallInv(Indexing(k, last))'
<1> DEFINE places == DOMAIN Schema(k).indexes
<1>1. places \subseteq Nat
  BY PlacesAreNumbers
<1>2. CASE ~k.own /\ Indexing(k, last) = Gone("form")
  BY <1>2, GoneSound DEF Answers
<1>3. ASSUME NEW r, Formed(r), r.own = k.own, r.missed = k.missed, r.table = k.table, r.struct = k.struct,
             r.op = k.op, r.tag = k.tag,
             \/ r.step = "idle" /\ r.answer = "form" /\ \A p \in places : p <= last
             \/ r.step = "index" /\ r.answer = "none" /\ r.at \in places /\ \A p \in places : p < r.at => p <= last,
             r.own \/ r.step = "index"
      PROVE  CallInv(r)'
  <2>1. Schema(r) = Schema(k) /\ (Fitting(r)' <=> Fitting(k)')
    BY <1>3 DEF Schema, Fitting
  <2>2. Typed(r)
    BY <1>3 DEF Typed, Steps, Answers, Named, Creators, Ops
  <2>3. Stepping(r)'
    BY <1>3, <2>1 DEF Stepping
  <2>4. ASSUME r.own PROVE HasMade(r)'
    <3>1. ASSUME NEW p \in Done(r)
          PROVE  Shape(Schema(r).indexes[p]) \in r.missed \cup Shapes(r.table)'
      <4>1. p \in places /\ p <= last
        BY <1>1, <1>3, <2>1 DEF Done
      <4>2. QED BY <4>1, <1>3, <2>1, <2>4
    <3>2. tables'[r.table] = Made(Schema(r), r.struct)'
      BY <1>3, <2>1, <2>4
    <3>3. QED BY <3>1, <3>2, <1>3, <2>1 DEF HasMade
  <2>5. QED BY <2>2, <2>3, <2>4 DEF CallInv, Typed
<1>4. CASE /\ \A p \in places : p <= last
           /\ k.own /\ Indexing(k, last) = Put(k, "idle", k.at, "form", TRUE, k.missed)
  <2>1. PICK r : r = Put(k, "idle", k.at, "form", TRUE, k.missed)
    OBVIOUS
  <2>2. Formed(r)
    BY <2>1, PutFormed
  <2>3. /\ r.own = TRUE /\ r.missed = k.missed /\ r.table = k.table /\ r.struct = k.struct
        /\ r.op = k.op /\ r.tag = k.tag /\ r.step = "idle" /\ r.answer = "form"
    BY <2>1 DEF Put
  <2>4. CallInv(r)'
    BY <1>3, <1>4, <2>2, <2>3
  <2>5. QED BY <1>4, <2>1, <2>4
<1>5. ASSUME NEW at \in places, Indexing(k, last) = Put(k, "index", at, k.answer, k.own, k.missed),
             \A p \in places : p < at => p <= last
      PROVE  CallInv(Indexing(k, last))'
  <2>1. PICK r : r = Put(k, "index", at, k.answer, k.own, k.missed)
    OBVIOUS
  <2>2. /\ Formed(r) /\ r.own = k.own /\ r.missed = k.missed /\ r.table = k.table /\ r.struct = k.struct
        /\ r.op = k.op /\ r.tag = k.tag /\ r.step = "index" /\ r.answer = "none" /\ r.at = at
    BY <2>1, PutFormed, PutAbout
  <2>3. CallInv(r)'
    BY <1>3, <1>5, <2>2
  <2>4. QED BY <1>5, <2>1, <2>3
<1>6. QED BY <1>2, <1>4, <1>5, IndexingIs

-----------------------------------------------------------------------------
(* The steps.                                                              *)

CallsInv == \A k \in {call[c] : c \in Callers} : CallInv(k)

\* A caller's step that changes no table leaves the other calls sound.
LEMMA OwnStep ==
  ASSUME Inv, server' = server, tables' = tables, indexes \subseteq indexes',
         NEW c \in Callers, NEW x, CallInv(x)', call' = [call EXCEPT ![c] = x]
  PROVE  DOMAIN call' = Callers /\ CallsInv'
<1>1. DOMAIN call' = Callers
  BY DEF Inv
<1>2. ASSUME NEW d \in Callers, NEW k, k = call'[d] PROVE CallInv(k)'
  <2>1. CASE d = c
    BY <1>2, <2>1 DEF Inv
  <2>2. CASE d # c
    <3>1. k = call[d]
      BY <1>2, <2>2 DEF Inv
    <3>2. CallInv(k)
      BY <3>1 DEF Inv
    <3>3. Shapes(k.table) \subseteq Shapes(k.table)'
      BY DEF Shapes
    <3>4. QED BY <3>2, <3>3, CallKept
  <2>3. QED BY <2>1, <2>2
<1>3. QED BY <1>1, <1>2 DEF CallsInv

\* A caller's step that changes a table takes it from the other calls.
LEMMA TableStep ==
  ASSUME Inv, server' = server, NEW t,
         \A u : u # t => tables'[u] = tables[u] /\ Shapes(u) \subseteq Shapes(u)',
         NEW c \in Callers, NEW x, CallInv(x)', call' = [Disowned(t) EXCEPT ![c] = x]
  PROVE  DOMAIN call' = Callers /\ CallsInv'
<1>1. DOMAIN call' = Callers
  BY DEF Disowned
<1>2. ASSUME NEW d \in Callers, NEW k, k = call'[d] PROVE CallInv(k)'
  <2>1. CASE d = c
    BY <1>2, <2>1 DEF Disowned
  <2>2. CASE d # c
    <3>1. PICK j : j = call[d]
      OBVIOUS
    <3>2. k = Disown(j, t) /\ CallInv(j)
      BY <1>2, <2>2, <3>1 DEF Disowned, Inv
    <3>3. CASE j.own /\ j.table # t
      <4>1. k = j
        BY <3>2, <3>3, DisownIs DEF CallInv, Typed
      <4>2. QED BY <4>1, <3>2, <3>3, CallKept
    <3>4. CASE ~(j.own /\ j.table # t) /\ j.step = "idle"
      <4>1. k = Gone(j.answer) /\ j.answer \in Answers
        BY <3>2, <3>4, DisownIs DEF CallInv, Typed
      <4>2. QED BY <4>1, GoneSound
    <3>5. CASE ~(j.own /\ j.table # t) /\ j.step # "idle"
      <4>1. k = Put(j, j.step, j.at, j.answer, FALSE, j.missed)
        BY <3>2, <3>5, DisownIs DEF CallInv, Typed
      <4>2. Formed(k)
        BY <4>1, PutFormed
      <4>3. /\ k.own = FALSE /\ k.step = j.step /\ k.answer = j.answer /\ k.at = j.at /\ k.op = j.op
            /\ k.tag = j.tag /\ k.struct = j.struct /\ k.table = j.table
        BY <4>1 DEF Put
      <4>4. CallInv(k)
        <5>1. Schema(k) = Schema(j) /\ (Fitting(k) <=> Fitting(j))
          BY <4>3 DEF Schema, Fitting
        <5>2. QED BY <5>1, <4>2, <4>3, <3>2, <3>5 DEF CallInv, Typed, Stepping
      <4>5. QED BY <4>3, <4>4, CallKept
    <3>6. QED BY <3>3, <3>4, <3>5
  <2>3. QED BY <2>1, <2>2
<1>3. QED BY <1>1, <1>2 DEF CallsInv

\* What is made is a table.
LEMMA MadeIsThere ==
  ASSUME NEW schema, NEW s \in DOMAIN Structs
  PROVE  Made(schema, s) # NoTable
<1>1. Made(schema, s).by = s /\ NoTable.by = "nobody"
  BY DEF Made, NoTable
<1>2. s # "nobody"
  BY StructsNamed DEF Strangers
<1>3. QED BY <1>1, <1>2

\* Tables and indexes that no step changes.
LEMMA CatalogueKept ==
  ASSUME Inv, server' = server, tables' = tables, indexes' = indexes
  PROVE  DOMAIN tables' = Tables /\ (\A t \in Tables : TableInv(t)') /\ IndexInv'
<1>1. ASSUME NEW t \in Tables PROVE TableInv(t)'
  BY TableKept DEF Inv
<1>2. QED BY <1>1 DEF Inv, IndexInv

LEMMA StartKeeps ==
  ASSUME Inv, NEW c \in Callers, NEW op \in Ops, NEW tag \in Dialects, NEW s \in DOMAIN Structs, NEW t \in Tables,
         Start(c, op, tag, s, t)
  PROVE  Inv'
<1>1. PICK x : x = Started(op, tag, s, t)
  OBVIOUS
<1>2. CallInv(x) /\ ~x.own
  BY <1>1, StartedSound
<1>3. server' = server /\ tables' = tables /\ indexes' = indexes /\ left' \in 0..Calls
  BY CallsBounded DEF Start, Inv
<1>4. CallInv(x)'
  BY <1>2, <1>3, CallKept
<1>5. call' = [call EXCEPT ![c] = x]
  BY <1>1 DEF Start
<1>6. DOMAIN call' = Callers /\ CallsInv'
  BY <1>3, <1>4, <1>5, OwnStep
<1>7. QED BY <1>3, <1>6, CatalogueKept DEF Inv, CallsInv

\* The call of a caller at a step.
LEMMA AtStep ==
  ASSUME Inv, NEW c \in Callers, NEW k, k = call[c], k.step # "idle"
  PROVE  CallInv(k) /\ Formed(k) /\ Named(k) /\ k.op \in Ops /\ k.answer = "none" /\ k.own \in BOOLEAN
BY DEF Inv, CallInv, Typed, Stepping, Named

\* A call that has only got an answer, of a step at which it has no table.
LEMMA AnsweredKeeps ==
  ASSUME Inv, NEW c \in Callers, call[c].step \in Steps \ {"idle", "index"}, NEW answer \in Answers,
         call' = [call EXCEPT ![c] = Answer(@, answer)], UNCHANGED <<server, tables, indexes, left>>
  PROVE  Inv'
<1>1. PICK k : k = call[c]
  OBVIOUS
<1>2. CallInv(k) /\ Formed(k)
  BY <1>1, AtStep
<1>3. ~k.own
  BY <1>1, <1>2 DEF CallInv, HasMade, HasSeen
<1>4. call' = [call EXCEPT ![c] = Gone(answer)]
  BY <1>1, <1>2, <1>3, AnswerIs
<1>5. DOMAIN call' = Callers /\ CallsInv'
  BY <1>4, GoneSound, OwnStep
<1>6. QED BY <1>5, CatalogueKept DEF Inv, CallsInv

LEMMA RefusedKeeps ==
  ASSUME Inv, NEW c \in Callers, Refused(c)
  PROVE  Inv'
BY AnsweredKeeps DEF Refused, Steps, Answers

LEMMA BeginKeeps ==
  ASSUME Inv, NEW c \in Callers, Begin(c)
  PROVE  Inv'
BY AnsweredKeeps DEF Begin, Steps, Answers

LEMMA DescribeKeeps ==
  ASSUME Inv, NEW c \in Callers, Describe(c)
  PROVE  Inv'
<1>1. PICK k : k = call[c]
  OBVIOUS
<1>2. k.step = "describe" /\ k.tag = server /\ UNCHANGED <<server, tables, indexes, left>>
  BY <1>1 DEF Describe
<1>3. CallInv(k) /\ Formed(k) /\ Named(k) /\ k.op = "attach"
  BY <1>1, <1>2, AtStep DEF CallInv, Stepping
<1>4. CASE tables[k.table] = NoTable
  <2>1. call' = [call EXCEPT ![c] = Answer(@, "TableNotFound")]
    BY <1>1, <1>4 DEF Describe
  <2>2. QED BY <2>1, <1>1, <1>2, AnsweredKeeps DEF Steps, Answers
<1>5. ASSUME tables[k.table] # NoTable, NEW answer \in Answers,
             (answer = "form" /\ Usable(k)) \/ (answer = "SchemaMismatch" /\ ~Usable(k)),
             call' = [call EXCEPT ![c] = Answer([k EXCEPT !.own = TRUE], answer)]
      PROVE  Inv'
  <2>1. PICK x : x = Answer([k EXCEPT !.own = TRUE], answer)
    OBVIOUS
  <2>2. x = Put(k, "idle", k.at, answer, TRUE, k.missed)
    <3>1. PICK j : j = Put(k, k.step, k.at, k.answer, TRUE, k.missed)
      OBVIOUS
    <3>2. [k EXCEPT !.own = TRUE] = j /\ Formed(j)
      BY <1>3, <3>1, PutOne, PutFormed
    <3>3. Answer(j, answer) = Put(j, "idle", j.at, answer, TRUE, j.missed)
      <4>1. j.own
        BY <3>1 DEF Put
      <4>2. QED BY <4>1, <3>2, AnswerIs
    <3>4. QED BY <2>1, <3>1, <3>2, <3>3 DEF Put
  <2>3. Formed(x)
    BY <2>2, PutFormed
  <2>4. /\ x.own = TRUE /\ x.step = "idle" /\ x.answer = answer /\ x.op = k.op
        /\ x.tag = k.tag /\ x.struct = k.struct /\ x.table = k.table
    BY <2>2 DEF Put
  <2>5. Usable(x) <=> Usable(k)
    BY <2>4 DEF Usable
  <2>6. CallInv(x)
    <3>1. Typed(x) /\ Stepping(x)
      BY <1>3, <2>3, <2>4 DEF Typed, Stepping, Steps, Named, Ops
    <3>2. HasSeen(x)
      BY <1>2, <1>3, <1>5, <2>4, <2>5 DEF HasSeen
    <3>3. QED BY <3>1, <3>2 DEF CallInv
  <2>7. CallInv(x)'
    <3>1. Shapes(x.table)' = Shapes(x.table)
      BY <1>2 DEF Shapes
    <3>2. QED BY <2>6, <3>1, <1>2, CallKept
  <2>8. DOMAIN call' = Callers /\ CallsInv'
    BY <1>2, <1>5, <2>1, <2>7, OwnStep
  <2>9. QED BY <1>2, <2>8, CatalogueKept DEF Inv, CallsInv
<1>6. CASE tables[k.table] # NoTable /\ Usable(k)
  <2>1. call' = [call EXCEPT ![c] = Answer([k EXCEPT !.own = TRUE], "form")]
    BY <1>1, <1>6 DEF Describe
  <2>2. QED BY <1>5, <1>6, <2>1 DEF Answers
<1>7. CASE tables[k.table] # NoTable /\ ~Usable(k)
  <2>1. call' = [call EXCEPT ![c] = Answer([k EXCEPT !.own = TRUE], "SchemaMismatch")]
    BY <1>1, <1>7 DEF Describe
  <2>2. QED BY <1>5, <1>7, <2>1 DEF Answers
<1>8. QED BY <1>4, <1>6, <1>7

LEMMA DropKeeps ==
  ASSUME Inv, NEW c \in Callers, Drop(c)
  PROVE  Inv'
<1>1. PICK k : k = call[c]
  OBVIOUS
<1>2. PICK t : t = k.table
  OBVIOUS
<1>3. /\ k.step = "drop" /\ server' = server /\ left' = left
      /\ tables' = [tables EXCEPT ![t] = NoTable]
      /\ indexes' = {ix \in indexes : ix.table # t}
      /\ \E x \in {Creating(k), Answer(k, "error")} : call' = [Disowned(t) EXCEPT ![c] = x]
  BY <1>1, <1>2 DEF Drop
<1>4. CallInv(k) /\ Formed(k) /\ Named(k) /\ k.op = "create_or_replace" /\ k.answer = "none"
  BY <1>1, <1>3, AtStep DEF CallInv, Stepping
<1>5. k.own = FALSE
  BY <1>3, <1>4 DEF CallInv, Typed, HasMade, HasSeen
<1>6. PICK x \in {Creating(k), Answer(k, "error")} : call' = [Disowned(t) EXCEPT ![c] = x]
  BY <1>3
<1>7. CallInv(x) /\ ~x.own
  <2>1. CASE x = Creating(k)
    BY <1>4, <1>5, <2>1, CreatingSound DEF Creators
  <2>2. CASE x = Answer(k, "error")
    <3>1. x = Gone("error")
      BY <1>4, <1>5, <2>2, AnswerIs
    <3>2. QED BY <3>1, GoneSound DEF Answers
  <2>3. QED BY <1>6, <2>1, <2>2
<1>8. CallInv(x)'
  BY <1>3, <1>7, CallKept
<1>9. ASSUME NEW u, u # t PROVE tables'[u] = tables[u] /\ Shapes(u) \subseteq Shapes(u)'
  <2>1. tables'[u] = tables[u]
    BY <1>3, <1>9
  <2>2. {ix \in indexes : ix.table = u} \subseteq {ix \in indexes' : ix.table = u}
    BY <1>3, <1>9
  <2>3. QED BY <2>1, <2>2 DEF Shapes
<1>10. DOMAIN call' = Callers /\ CallsInv'
  BY <1>3, <1>6, <1>8, <1>9, TableStep
<1>11. DOMAIN tables' = Tables
  BY <1>3 DEF Inv
<1>12. ASSUME NEW u \in Tables PROVE TableInv(u)'
  <2>1. CASE u = t
    BY <1>3, <2>1 DEF TableInv, Inv
  <2>2. CASE u # t
    BY <1>3, <1>9, <2>2, TableKept DEF Inv
  <2>3. QED BY <2>1, <2>2
<1>13. IndexInv'
  BY <1>3, <1>9 DEF Inv, IndexInv
<1>14. QED BY <1>3, <1>10, <1>11, <1>12, <1>13 DEF Inv, CallsInv

\* CREATE TABLE for a table that is not there.
LEMMA CreateMakes ==
  ASSUME Inv, NEW c \in Callers, call[c].step = "create", NEW k, k = call[c], server' = server, indexes' = indexes,
         left' = left, tables[k.table] = NoTable,
         tables' = [tables EXCEPT ![k.table] = Made(Schema(k), k.struct)],
         NEW x, call' = [Disowned(k.table) EXCEPT ![c] = x],
         x = Indexing([k EXCEPT !.own = TRUE], 0) \/ x = Answer([k EXCEPT !.own = TRUE], "error")
  PROVE  Inv'
<1>1. CallInv(k) /\ Formed(k) /\ Named(k) /\ k.op \in Creators /\ Fitting(k) /\ k.answer = "none"
  BY AtStep DEF CallInv, Stepping
<1>2. PICK j : j = Put(k, k.step, k.at, k.answer, TRUE, k.missed)
  OBVIOUS
<1>3. [k EXCEPT !.own = TRUE] = j /\ Formed(j)
  BY <1>1, <1>2, PutOne, PutFormed
<1>4. /\ j.own = TRUE /\ j.answer = "none" /\ j.op = k.op /\ j.tag = k.tag /\ j.struct = k.struct /\ j.table = k.table
  BY <1>1, <1>2 DEF Put
<1>5. Named(j) /\ Fitting(j) /\ Fitting(j)' /\ Schema(j) = Schema(k)
  BY <1>1, <1>4 DEF Named, Fitting, Schema
<1>6. tables'[k.table] = Made(Schema(k), k.struct)'
  <2>1. Made(Schema(k), k.struct)' = Made(Schema(k), k.struct)
    BY MadeSame
  <2>2. QED BY <2>1, <1>1 DEF Inv, Named
<1>7. ASSUME x = Indexing(j, 0) PROVE CallInv(x)'
  <2>1. \A p \in DOMAIN Schema(j).indexes : ~(p <= 0)
    BY <1>5, PlacesAreNumbers
  <2>2. tables'[j.table] = Made(Schema(j), j.struct)'
    BY <1>4, <1>5, <1>6
  <2>3. server' \in Dialects
    BY DEF Inv
  <2>4. CallInv(Indexing(j, 0))'
    BY <1>1, <1>3, <1>4, <1>5, <2>1, <2>2, <2>3, IndexingSound
  <2>5. QED BY <2>4, <1>7
<1>8. ASSUME x = Answer(j, "error") PROVE CallInv(x)'
  <2>1. x = Put(j, "idle", j.at, "error", TRUE, j.missed)
    BY <1>3, <1>4, <1>8, AnswerIs
  <2>2. Formed(x)
    BY <2>1, PutFormed
  <2>3. /\ x.own = TRUE /\ x.step = "idle" /\ x.answer = "error" /\ x.op = j.op /\ x.tag = j.tag
        /\ x.struct = j.struct /\ x.table = j.table
    BY <2>1 DEF Put
  <2>4. Fitting(x)' /\ Schema(x) = Schema(k) /\ x.struct = k.struct /\ x.table = k.table
    BY <1>4, <1>5, <2>3 DEF Fitting, Schema
  <2>5. HasMade(x)'
    BY <1>1, <1>4, <1>6, <2>3, <2>4 DEF HasMade
  <2>6. (Typed(x) /\ Stepping(x))'
    BY <1>1, <1>4, <1>5, <2>2, <2>3 DEF Typed, Stepping, Steps, Answers, Named, Creators, Ops
  <2>7. QED BY <2>5, <2>6 DEF CallInv
<1>9. ASSUME NEW u, u # k.table PROVE tables'[u] = tables[u] /\ Shapes(u) \subseteq Shapes(u)'
  BY <1>9 DEF Shapes
<1>10. DOMAIN call' = Callers /\ CallsInv'
  <2>1. CallInv(x)'
    BY <1>3, <1>7, <1>8
  <2>2. QED BY <2>1, <1>9, TableStep
<1>11. DOMAIN tables' = Tables
  BY DEF Inv
<1>12. ASSUME NEW u \in Tables PROVE TableInv(u)'
  <2>1. CASE u = k.table
    <3>1. MadeOf(u, k.struct)'
      BY <1>1, <1>6, <2>1 DEF MadeOf, Fitting, Schema
    <3>2. QED BY <3>1, <1>1 DEF TableInv, Named
  <2>2. CASE u # k.table
    BY <1>9, <2>2, TableKept DEF Inv
  <2>3. QED BY <2>1, <2>2
<1>13. IndexInv'
  <2>1. Made(Schema(k), k.struct) # NoTable
    BY <1>1, MadeIsThere DEF Named
  <2>2. QED BY <2>1 DEF Inv, IndexInv
<1>14. QED BY <1>10, <1>11, <1>12, <1>13 DEF Inv, CallsInv

LEMMA CreateKeeps ==
  ASSUME Inv, NEW c \in Callers, Create(c)
  PROVE  Inv'
<1>1. PICK k : k = call[c]
  OBVIOUS
<1>2. k.step = "create" /\ server' = server /\ indexes' = indexes /\ left' = left
  BY <1>1 DEF Create
<1>3. CallInv(k) /\ Formed(k) /\ Named(k) /\ k.op \in Creators /\ Fitting(k) /\ k.answer = "none"
  BY <1>1, <1>2, AtStep DEF CallInv, Stepping
<1>4. ASSUME tables[k.table] = NoTable,
             tables' = [tables EXCEPT ![k.table] = Made(Schema(k), k.struct)],
             NEW x \in {Indexing([k EXCEPT !.own = TRUE], 0), Answer([k EXCEPT !.own = TRUE], "error")},
             call' = [Disowned(k.table) EXCEPT ![c] = x]
      PROVE  Inv'
  BY <1>1, <1>2, <1>4, CreateMakes
<1>5. CASE tables' = tables /\ call' = [call EXCEPT ![c] = Indexing(k, 0)]
  <2>1. PICK x : x = Indexing(k, 0)
    OBVIOUS
  <2>2. k.own = FALSE
    BY <1>2, <1>3 DEF CallInv, Typed, HasMade, HasSeen
  <2>3. Fitting(k)' /\ server' \in Dialects
    BY <1>2, <1>3 DEF Fitting, Inv
  <2>4. CallInv(Indexing(k, 0))'
    BY <1>3, <2>2, <2>3, IndexingSound
  <2>5. DOMAIN call' = Callers /\ CallsInv'
    BY <1>2, <1>5, <2>1, <2>4, OwnStep
  <2>6. QED BY <1>2, <1>5, <2>5, CatalogueKept DEF Inv, CallsInv
<1>6. QED BY <1>1, <1>4, <1>5 DEF Create

LEMMA CreateIndexKeeps ==
  ASSUME Inv, NEW c \in Callers, CreateIndex(c)
  PROVE  Inv'
<1>1. PICK k : k = call[c]
  OBVIOUS
<1>2. PICK ix : ix = Schema(k).indexes[k.at]
  OBVIOUS
<1>3. k.step = "index" /\ server' = server /\ tables' = tables /\ left' = left
  BY <1>1 DEF CreateIndex
<1>4. /\ CallInv(k) /\ Formed(k) /\ Named(k) /\ k.op \in Creators /\ Fitting(k) /\ k.answer = "none" /\ k.own \in BOOLEAN
      /\ k.at \in DOMAIN Schema(k).indexes
  BY <1>1, <1>3, AtStep DEF CallInv, Stepping
<1>5. k.at \in Nat /\ ix.table = k.table /\ DOMAIN Schema(k).indexes \subseteq Nat
  BY <1>2, <1>4, PlacesAreNumbers
<1>6. Fitting(k)' /\ server' \in Dialects
  BY <1>3, <1>4 DEF Fitting, Inv
<1>7. ASSUME k.own
      PROVE  /\ tables'[k.table] = Made(Schema(k), k.struct)'
             /\ \A p \in DOMAIN Schema(k).indexes :
                  p < k.at => Shape(Schema(k).indexes[p]) \in k.missed \cup Shapes(k.table)
  <2>1. HasMade(k)
    BY <1>3, <1>4, <1>7 DEF CallInv, HasSeen
  <2>2. Made(Schema(k), k.struct)' = Made(Schema(k), k.struct)
    BY <1>3, MadeSame
  <2>3. QED BY <1>3, <2>1, <2>2 DEF HasMade, Done
<1>8. CASE /\ IndexAccepted(ix) /\ indexes' = indexes \cup {ix}
           /\ call' = [call EXCEPT ![c] = Indexing(k, k.at)]
  <2>1. PICK x : x = Indexing(k, k.at)
    OBVIOUS
  <2>2. Shapes(k.table) \subseteq Shapes(k.table)' /\ Shape(ix) \in Shapes(k.table)'
    BY <1>5, <1>8 DEF Shapes
  <2>3. ASSUME k.own, NEW p \in DOMAIN Schema(k).indexes, p <= k.at
        PROVE  Shape(Schema(k).indexes[p]) \in k.missed \cup Shapes(k.table)'
    <3>1. p < k.at \/ p = k.at
      BY <1>5, <2>3
    <3>2. QED BY <1>2, <1>7, <2>2, <2>3, <3>1
  <2>4. CallInv(Indexing(k, k.at))'
    BY <1>4, <1>5, <1>6, <1>7, <2>3, IndexingSound
  <2>5. DOMAIN call' = Callers /\ CallsInv'
    BY <1>3, <1>8, <2>1, <2>4, OwnStep
  <2>6. IndexInv'
    BY <1>3, <1>4, <1>5, <1>8 DEF Inv, IndexInv, IndexAccepted, Named
  <2>7. DOMAIN tables' = Tables /\ (\A t \in Tables : TableInv(t)')
    BY <1>3, TableKept DEF Inv
  <2>8. QED BY <1>3, <2>5, <2>6, <2>7 DEF Inv, CallsInv
<1>9. CASE /\ indexes' = indexes \/ (IndexAccepted(ix) /\ indexes' = indexes \cup {ix})
           /\ call' = [call EXCEPT ![c] = Indexing([k EXCEPT !.missed = @ \cup {Shape(ix)}], k.at)]
  <2>1. PICK missed : missed = k.missed \cup {Shape(ix)}
    OBVIOUS
  <2>2. PICK j : j = Put(k, k.step, k.at, k.answer, k.own, missed)
    OBVIOUS
  <2>3. [k EXCEPT !.missed = missed] = j /\ Formed(j)
    BY <1>4, <2>2, PutOne, PutFormed
  <2>4. /\ j.own = k.own /\ j.answer = "none" /\ j.op = k.op /\ j.tag = k.tag /\ j.struct = k.struct
        /\ j.table = k.table /\ j.missed = missed
    BY <1>4, <2>2 DEF Put
  <2>5. Named(j) /\ Fitting(j)' /\ Schema(j) = Schema(k)
    BY <1>4, <1>6, <2>4 DEF Named, Fitting, Schema
  <2>6. indexes \subseteq indexes' /\ Shapes(k.table) \subseteq Shapes(k.table)'
    BY <1>9 DEF Shapes
  <2>7. ASSUME j.own, NEW p \in DOMAIN Schema(j).indexes, p <= k.at
        PROVE  Shape(Schema(j).indexes[p]) \in j.missed \cup Shapes(j.table)'
    <3>1. p < k.at \/ p = k.at
      BY <1>5, <2>5, <2>7
    <3>2. QED BY <1>2, <1>7, <2>1, <2>4, <2>5, <2>6, <2>7, <3>1
  <2>8. CallInv(Indexing(j, k.at))'
    <3>1. j.own => tables'[j.table] = Made(Schema(j), j.struct)'
      BY <1>7, <2>4, <2>5
    <3>2. QED BY <1>4, <1>5, <1>6, <2>3, <2>4, <2>5, <2>7, <3>1, IndexingSound
  <2>9. PICK x : x = Indexing(j, k.at)
    OBVIOUS
  <2>10. call' = [call EXCEPT ![c] = x]
    BY <1>9, <2>1, <2>3, <2>9
  <2>11. DOMAIN call' = Callers /\ CallsInv'
    BY <1>3, <2>6, <2>8, <2>9, <2>10, OwnStep
  <2>12. IndexInv'
    BY <1>3, <1>4, <1>5, <1>9 DEF Inv, IndexInv, IndexAccepted, Named
  <2>13. DOMAIN tables' = Tables /\ (\A t \in Tables : TableInv(t)')
    BY <1>3, TableKept DEF Inv
  <2>14. QED BY <1>3, <2>11, <2>12, <2>13 DEF Inv, CallsInv
<1>10. QED BY <1>1, <1>2, <1>8, <1>9 DEF CreateIndex

\* Every step keeps the invariant.
LEMMA NextKeeps ==
  ASSUME Inv, [Next]_vars
  PROVE  Inv'
<1>1. CASE UNCHANGED vars
  <2>1. UNCHANGED <<server, tables, indexes, call, left>>
    BY <1>1 DEF vars
  <2>2. ASSUME NEW k \in {call'[c] : c \in Callers} PROVE CallInv(k)'
    <3>1. CallInv(k) /\ Shapes(k.table)' = Shapes(k.table)
      BY <2>1 DEF Inv, Shapes
    <3>2. QED BY <2>1, <3>1, CallKept
  <2>3. QED BY <2>1, <2>2, CatalogueKept DEF Inv
<1>2. ASSUME NEW c \in Callers, NEW op \in Ops, NEW tag \in Dialects, NEW s \in DOMAIN Structs, NEW t \in Tables,
             Start(c, op, tag, s, t)
      PROVE  Inv'
  BY <1>2, StartKeeps
<1>3. ASSUME NEW c \in Callers, Refused(c) \/ Drop(c) \/ Create(c) \/ CreateIndex(c) \/ Describe(c) \/ Begin(c)
      PROVE  Inv'
  BY <1>3, RefusedKeeps, DropKeeps, CreateKeeps, CreateIndexKeeps, DescribeKeeps, BeginKeeps
<1>4. QED BY <1>1, <1>2, <1>3 DEF Next

\* It holds before the first call.
LEMMA InitInv ==
  ASSUME Init
  PROVE  Inv
<1>1. DOMAIN call = Callers /\ CallsInv
  <2>1. Idle = Gone("none")
    BY DEF Idle, Fresh, Gone
  <2>2. CallInv(Idle)
    BY <2>1, GoneSound DEF Answers
  <2>3. QED BY <2>2 DEF Init, CallsInv
<1>2. DOMAIN tables = Tables /\ \A t \in Tables : tables[t] = NoTable \/ \E other \in Others[server] : tables[t] = Foreign(other)
  <2>1. CASE tables = [t \in Tables |-> NoTable]
    BY <2>1
  <2>2. ASSUME NEW t \in Tables, NEW other \in Others[server],
               tables = [[x \in Tables |-> NoTable] EXCEPT ![t] = Foreign(other)]
        PROVE  DOMAIN tables = Tables /\ \A u \in Tables : tables[u] = NoTable \/ tables[u] = Foreign(other)
    BY <2>2
  <2>3. QED BY <2>1, <2>2 DEF Init
<1>3. server \in Dialects /\ left \in 0..Calls /\ IndexInv
  BY CallsBounded DEF Init, IndexInv
<1>4. QED BY <1>1, <1>2, <1>3 DEF Inv, CallsInv, TableInv

LEMMA AlwaysInv == Spec => []Inv
<1>1. Init => Inv
  BY InitInv
<1>2. Inv /\ [Next]_vars => Inv'
  BY NextKeeps
<1>3. QED BY <1>1, <1>2, PTL DEF Spec

\* Every state is well typed: the catalogue has the structs' tables and those
\* of other programs, an index has a table, a call is at an index that its
\* schema has, and what it has a claim to is there.
THEOREM FormTypeCorrect == Spec => []TypeOK
<1>1. Inv => TypeOK
  <2> SUFFICES ASSUME Inv PROVE TypeOK
    OBVIOUS
  <2>1. server \in Dialects /\ left \in 0..Calls
    BY DEF Inv
  <2>2. ASSUME NEW t \in Tables, tables[t] # NoTable PROVE tables[t].by \in DOMAIN Structs \cup {"another program"}
    <3>1. ASSUME NEW schema, NEW s PROVE Made(schema, s).by = s
      BY DEF Made
    <3>2. ASSUME NEW other PROVE Foreign(other).by = "another program"
      BY DEF Foreign
    <3>3. CASE \E other \in Others[server] : tables[t] = Foreign(other)
      BY <3>2, <3>3
    <3>4. ASSUME NEW s \in DOMAIN Structs, MadeOf(t, s) PROVE tables[t].by = s
      BY <3>1, <3>4 DEF MadeOf
    <3>5. TableInv(t)
      BY DEF Inv
    <3>6. QED BY <2>2, <3>3, <3>4, <3>5 DEF TableInv
  <2>3. \A ix \in indexes : ix.table \in Tables /\ tables[ix.table] # NoTable
    BY DEF Inv, IndexInv
  <2>4. ASSUME NEW c \in Callers
        PROVE  /\ call[c].answer \in Answers /\ call[c].step \in {"idle", "drop", "create", "index", "describe", "begin"}
               /\ call[c].step = "index" => call[c].at \in DOMAIN Schema(call[c]).indexes
               /\ call[c].own => tables[call[c].table] # NoTable
    <3>1. PICK k : k = call[c]
      OBVIOUS
    <3>2. CallInv(k)
      BY <3>1 DEF Inv
    <3>3. ASSUME k.own, HasMade(k) PROVE tables[k.table] # NoTable
      BY <3>2, <3>3, MadeIsThere DEF HasMade, CallInv, Typed
    <3>4. QED BY <3>1, <3>2, <3>3 DEF CallInv, Typed, Stepping, Steps, HasSeen
  <2>5. QED BY <2>1, <2>2, <2>3, <2>4 DEF TypeOK
<1>2. QED BY <1>1, AlwaysInv, PTL

-----------------------------------------------------------------------------
(* The columns of a table that a call made.                                *)

\* A schema that is made is all of it made of the struct.
LEMMA SchemaOfStruct ==
  ASSUME NEW d, NEW s, NEW t, TableSchema(d, s, t) # NoSchema
  PROVE  LET schema == TableSchema(d, s, t) IN
         /\ schema.columns = [i \in DOMAIN s.columns |-> ColumnDefinition(d, s.columns[i])]
         /\ schema.constraints = Constraints(s)
         /\ schema.indexes = Indexes(t, s)
         /\ ColumnsValid(s)
BY DEF TableSchema

\* A column definition has the name of its field.
LEMMA DefinitionNamed ==
  ASSUME NEW d \in {"sqlite", "mysql", "postgres"}, NEW c
  PROVE  ColumnDefinition(d, c).name = c.name
BY DEF ColumnDefinition, SqliteColumn, MysqlColumn, PgColumn, Definition

\* What a schema has for a struct, on the server it is for.
Matches(schema, s) ==
  /\ s.columns \in Seq(Fields) /\ s.items \in Seq(Items)
  /\ \A i \in DOMAIN s.columns : Compiles(s.columns[i]) /\ ColumnValid(s.columns[i])
  /\ \A i, j \in DOMAIN s.columns : s.columns[i].name = s.columns[j].name => i = j
  /\ \A i \in DOMAIN s.columns : ValidName(s.columns[i].name)
  /\ server \in {"sqlite", "mysql", "postgres"}
  /\ schema.columns = [i \in DOMAIN s.columns |-> ColumnDefinition(server, s.columns[i])]
  /\ schema.constraints = Constraints(s)

LEMMA SchemaMatches ==
  ASSUME server \in Dialects, NEW s \in DOMAIN Structs, NEW t \in Tables,
         NamesValid(Structs[s], t), SchemaOf[server][s][t] # NoSchema
  PROVE  /\ Matches(SchemaOf[server][s][t], Structs[s])
         /\ SchemaOf[server][s][t].indexes = Indexes(t, Structs[s])
<1> DEFINE S == Structs[s]
           schema == TableSchema(server, S, t)
<1>1. SchemaOf[server][s][t] = schema /\ schema # NoSchema
  BY DEF SchemaOf
<1>2. /\ schema.columns = [i \in DOMAIN S.columns |-> ColumnDefinition(server, S.columns[i])]
      /\ schema.constraints = Constraints(S)
      /\ schema.indexes = Indexes(t, S)
      /\ ColumnsValid(S)
  BY <1>1, SchemaOfStruct
<1>3. S.columns \in Seq(Fields) /\ S.items \in Seq(Items)
  BY StructIs
<1>4. \A i \in DOMAIN S.columns : Compiles(S.columns[i])
  BY StructsCompile
<1>5. \A i \in DOMAIN S.columns : ColumnValid(S.columns[i])
  BY <1>2 DEF ColumnsValid, Words
<1>6. /\ \A i, j \in DOMAIN S.columns : S.columns[i].name = S.columns[j].name => i = j
      /\ \A i \in DOMAIN S.columns : ValidName(S.columns[i].name)
  BY DEF NamesValid
<1>7. server \in {"sqlite", "mysql", "postgres"}
  BY DialectsKnown
<1> HIDE DEF S, schema
<1>8. Matches(schema, S)
  BY <1>2, <1>3, <1>4, <1>5, <1>6, <1>7 DEF Matches
<1>9. QED BY <1>1, <1>2, <1>8 DEF S

\* The column that a name stands for.
LEMMA ColumnIs ==
  ASSUME NEW schema, NEW s, Matches(schema, s), NEW i \in DOMAIN s.columns
  PROVE  /\ s.columns[i].name \in Names(schema)
         /\ ColumnOf(schema, s.columns[i].name) = ColumnDefinition(server, s.columns[i])
<1> DEFINE C == schema.columns
           n == s.columns[i].name
<1>1. DOMAIN C = DOMAIN s.columns /\ \A j \in DOMAIN C : C[j] = ColumnDefinition(server, s.columns[j])
  BY DEF Matches
<1>2. \A j \in DOMAIN C : C[j].name = s.columns[j].name
  BY <1>1, DefinitionNamed DEF Matches
<1>3. n \in Names(schema)
  BY <1>1, <1>2 DEF Names
<1>4. \A col \in Words(C) : col.name = n <=> col = C[i]
  BY <1>1, <1>2 DEF Words, Matches
<1>5. C[i] \in Words(C)
  BY <1>1 DEF Words
<1>6. (CHOOSE col \in Words(C) : col.name = n) = C[i]
  <2> HIDE DEF C, n
  <2>1. QED BY <1>4, <1>5
<1>7. QED BY <1>1, <1>3, <1>6 DEF ColumnOf

LEMMA NamesAre ==
  ASSUME NEW schema, NEW s, Matches(schema, s)
  PROVE  Names(schema) = Names(s)
<1>1. DOMAIN schema.columns = DOMAIN s.columns
  BY DEF Matches
<1>2. \A j \in DOMAIN schema.columns : schema.columns[j].name = s.columns[j].name
  BY DefinitionNamed DEF Matches
<1>3. QED BY <1>1, <1>2 DEF Names

\* The type that the server reports of a field.
LEMMA MadeColumn ==
  ASSUME NEW schema, NEW s, Matches(schema, s), NEW struct, NEW i \in DOMAIN s.columns
  PROVE  LET made == Made(schema, struct).columns IN
         /\ s.columns[i].name \in DOMAIN made
         /\ made[s.columns[i].name] = Reported(ColumnDefinition(server, s.columns[i]).type)
BY ColumnIs DEF Made

-----------------------------------------------------------------------------
(* The types of columns.                                                   *)

\* What a server can report as the name of a type.
Proper(name) ==
  /\ server = "sqlite" => name \in {"INTEGER", "BIGINT", "REAL", "FLOAT", "DOUBLE", "TEXT", "VARCHAR", "BLOB"}
  /\ server = "mysql" => name \notin DOMAIN MysqlName
  /\ server = "postgres" => name # "timestamp"

LEMMA TypeFields ==
  ASSUME NEW n, NEW a
  PROVE  Type(n, a).name = n /\ Type(n, a).arg = a /\ Type(n, a).unsigned = FALSE
BY DEF Type

LEMMA SizeIs ==
  Size["bool"] = 1 /\ Size["int8"] = 1 /\ Size["int16"] = 2 /\ Size["int32"] = 4 /\ Size["int64"] = 8
BY DEF Size

LEMMA FieldTypesAre ==
  ASSUME NEW c \in Fields
  PROVE  c.type \in {"bool", "int8", "int16", "int32", "int64", "double", "text", "date", "blob", "enum"}
BY DEF Fields, FieldTypes, Numeric, Integral

\* What a field can be read from.
LEMMA ReadableIs ==
  ASSUME NEW c
  PROVE  /\ c.type \in Integral =>
              {"INTEGER", "tinyint", "smallint", "int", "bigint", "integer", "boolean"} \subseteq Readable(c)
         /\ c.type = "double" => {"REAL", "FLOAT", "DOUBLE", "double", "double precision"} \subseteq Readable(c)
         /\ c.type = "text"   => {"TEXT", "VARCHAR", "text", "varchar", "character varying"} \subseteq Readable(c)
         /\ c.type = "date"   => {"TEXT", "datetime", "timestamp without time zone"} \subseteq Readable(c)
         /\ c.type = "blob"   => {"BLOB", "blob", "bytea"} \subseteq Readable(c)
         /\ c.type = "enum"   => {"INTEGER", "BIGINT", "text"} \subseteq Readable(c)
         /\ c.type \in Integral => "BIGINT" \in Readable(c)
BY DEF Readable, Integral, WholeNumbers

LEMMA SqliteReports ==
  ASSUME server = "sqlite", NEW c \in Fields
  PROVE  LET type == Reported(ColumnDefinition(server, c).type) IN
         type.name \in Readable(c) /\ Proper(type.name) /\ Compatible(server, c, type)
<1>1. Reported(ColumnDefinition(server, c).type) = SqliteType(c)
  BY DEF Reported, ColumnDefinition, SqliteColumn, Definition
<1> DEFINE name == SqliteType(c).name
<1>2. name = (CASE c.type \in Integral \cup {"enum"} -> "INTEGER"
                [] c.type = "double" -> "REAL"
                [] c.type = "blob"   -> "BLOB"
                [] OTHER             -> "TEXT")
  BY DEF SqliteType, Type
<1> HIDE DEF name
<1>3. \/ name = "INTEGER" /\ c.type \in Integral \cup {"enum"}
      \/ name = "REAL" /\ c.type = "double"
      \/ name = "BLOB" /\ c.type = "blob"
      \/ name = "TEXT" /\ c.type \in {"text", "date"}
  BY <1>2, FieldTypesAre DEF Integral
<1>4. name \in Readable(c)
  BY <1>3, ReadableIs
<1>5. Proper(name)
  BY <1>3 DEF Proper
<1>6. Compatible(server, c, SqliteType(c))
  BY <1>3 DEF Compatible, SqliteCompatible, Inside, name
<1>7. QED BY <1>1, <1>4, <1>5, <1>6 DEF name

LEMMA MysqlReports ==
  ASSUME server = "mysql", NEW c \in Fields
  PROVE  LET type == Reported(ColumnDefinition(server, c).type) IN
         type.name \in Readable(c) /\ Proper(type.name)
<1> DEFINE name == MysqlType(c).name
           type == Reported(ColumnDefinition(server, c).type)
<1>1. type = [MysqlType(c) EXCEPT !.name = MysqlName[@]]
  BY DEF Reported, ColumnDefinition, MysqlColumn, Definition
<1>2. \E a, u : MysqlType(c) = [name |-> MysqlType(c).name, arg |-> a, unsigned |-> u]
  <2>1. CASE c.type \in Integral
    BY <2>1 DEF MysqlType, Type, Integral
  <2>2. CASE c.type = "text"
    <3>1. MysqlType(c) = Text(c)
      BY <2>2 DEF MysqlType, Integral
    <3>2. QED BY <3>1 DEF Text, Type
  <2>3. CASE c.type \in {"double", "date", "blob", "enum"}
    BY <2>3 DEF MysqlType, Type, Integral
  <2>4. QED BY <2>1, <2>2, <2>3, FieldTypesAre DEF Integral
<1>3. type.name = MysqlName[name]
  BY <1>1, <1>2
<1>4. /\ MysqlName["TINYINT"] = "tinyint" /\ MysqlName["SMALLINT"] = "smallint" /\ MysqlName["INT"] = "int"
      /\ MysqlName["BIGINT"] = "bigint" /\ MysqlName["DOUBLE"] = "double" /\ MysqlName["DATETIME"] = "datetime"
      /\ MysqlName["BLOB"] = "blob" /\ MysqlName["VARCHAR"] = "varchar" /\ MysqlName["TEXT"] = "text"
      /\ DOMAIN MysqlName = {"TINYINT", "SMALLINT", "INT", "BIGINT", "DOUBLE", "DATETIME", "BLOB", "VARCHAR", "TEXT"}
  BY DEF MysqlName
<1>5. \/ name \in {"TINYINT", "SMALLINT", "INT", "BIGINT"} /\ c.type \in Integral
      \/ name \in {"VARCHAR", "TEXT"} /\ c.type = "text"
      \/ name = "DOUBLE" /\ c.type = "double"
      \/ name = "DATETIME" /\ c.type = "date"
      \/ name = "BLOB" /\ c.type = "blob"
      \/ name = "TEXT" /\ c.type = "enum"
  <2>1. CASE c.type \in Integral
    BY <2>1 DEF MysqlType, Type, Integral
  <2>2. CASE c.type = "text"
    <3>1. MysqlType(c) = Text(c)
      BY <2>2 DEF MysqlType, Integral
    <3>2. Text(c).name \in {"VARCHAR", "TEXT"}
      BY DEF Text, Type
    <3>3. QED BY <2>2, <3>1, <3>2
  <2>3. CASE c.type \in {"double", "date", "blob", "enum"}
    BY <2>3 DEF MysqlType, Type, Integral
  <2>4. QED BY <2>1, <2>2, <2>3, FieldTypesAre DEF Integral
<1> HIDE DEF name, type
<1>6. type.name \in Readable(c)
  BY <1>3, <1>4, <1>5, ReadableIs
<1>7. Proper(type.name)
  BY <1>3, <1>4, <1>5 DEF Proper
<1>8. QED BY <1>6, <1>7 DEF type

\* PostgreSQL's names of the types that its dialect writes.
LEMMA PgNames ==
  /\ PgName("BOOLEAN") = "boolean" /\ PgName("SMALLINT") = "smallint" /\ PgName("INTEGER") = "integer"
  /\ PgName("BIGINT") = "bigint" /\ PgName("BYTEA") = "bytea" /\ PgName("TEXT") = "text"
  /\ PgName("DOUBLE PRECISION") = "double precision" /\ PgName("SERIAL") = "integer" /\ PgName("BIGSERIAL") = "bigint"
  /\ PgName("TIMESTAMP") = "timestamp without time zone" /\ PgName("VARCHAR") = "character varying"
  /\ Lower("BOOLEAN") = "boolean" /\ Lower("SMALLINT") = "smallint" /\ Lower("INTEGER") = "integer"
  /\ Lower("BIGINT") = "bigint" /\ Lower("BYTEA") = "bytea" /\ Lower("TEXT") = "text"
  /\ Lower("DOUBLE PRECISION") = "double precision" /\ Lower("TIMESTAMP") = "timestamp"
BY DEF PgName, Lower

\* What the dialect writes of a field.
LEMMA PgTypeIs ==
  ASSUME NEW c \in Fields
  PROVE  \E name, arg :
           /\ PgType(c) = Type(name, arg)
           /\ \/ name = "BOOLEAN" /\ arg = 0 /\ c.type = "bool"
              \/ name = "SMALLINT" /\ arg = 0 /\ c.type = "int16"
              \/ name = "INTEGER" /\ arg = 0 /\ c.type \in {"int8", "int32"}
              \/ name = "BIGINT" /\ arg = 0 /\ c.type = "int64"
              \/ name = "DOUBLE PRECISION" /\ arg = 0 /\ c.type = "double"
              \/ name = "TIMESTAMP" /\ arg = 0 /\ c.type = "date"
              \/ name = "BYTEA" /\ arg = 0 /\ c.type = "blob"
              \/ name = "VARCHAR" /\ c.type = "text"
              \/ name = "TEXT" /\ arg = 0 /\ c.type \in {"text", "enum"}
<1>1. CASE c.type \in {"bool", "double", "date", "blob", "enum"}
  BY <1>1 DEF PgType, Integral
<1>2. CASE c.type \in {"int8", "int16", "int32", "int64"}
  <2>1. PgType(c) = Type(CASE Size[c.type] = 2 -> "SMALLINT" [] Size[c.type] = 8 -> "BIGINT" [] OTHER -> "INTEGER", 0)
    BY <1>2 DEF PgType, Integral
  <2>2. CASE c.type = "int16"
    BY <2>1, <2>2, SizeIs
  <2>3. CASE c.type = "int64"
    BY <2>1, <2>3, SizeIs
  <2>4. CASE c.type \in {"int8", "int32"}
    <3>1. Size[c.type] # 2 /\ Size[c.type] # 8
      BY <2>4, SizeIs
    <3>2. QED BY <2>1, <2>4, <3>1
  <2>5. QED BY <1>2, <2>2, <2>3, <2>4
<1>3. CASE c.type = "text"
  <2>1. PgType(c) = Text(c)
    BY <1>3 DEF PgType, Integral
  <2>2. \/ Text(c) = Type("VARCHAR", c.length) \/ Text(c) = Type("VARCHAR", 255) \/ Text(c) = Type("TEXT", 0)
    BY DEF Text
  <2>3. QED BY <1>3, <2>1, <2>2
<1>4. QED BY <1>1, <1>2, <1>3, FieldTypesAre

\* A type with the name that the server reports.
LEMMA PgReported ==
  ASSUME server = "postgres", NEW name, NEW arg
  PROVE  Reported(Type(name, arg)) = Type(PgName(name), arg)
<1>1. Reported(Type(name, arg)) = [Type(name, arg) EXCEPT !.name = PgName(@)]
  BY DEF Reported
<1>2. QED BY <1>1 DEF Type

LEMMA PgReports ==
  ASSUME server = "postgres", NEW c \in Fields, ColumnValid(c)
  PROVE  LET type == Reported(ColumnDefinition(server, c).type) IN
         /\ type.name \in Readable(c) /\ Proper(type.name)
         /\ ~(c.type = "date" \/ ("auto_increment" \in c.tags /\ c.type = "int16")) => Compatible(server, c, type)
<1> DEFINE type == Reported(ColumnDefinition(server, c).type)
<1>1. ColumnDefinition(server, c).type =
        IF "auto_increment" \notin c.tags THEN PgType(c)
        ELSE Type(IF Size[c.type] <= 4 THEN "SERIAL" ELSE "BIGSERIAL", 0)
  BY DEF ColumnDefinition, PgColumn, Definition
<1>2. PICK name, arg :
        /\ PgType(c) = Type(name, arg)
        /\ \/ name = "BOOLEAN" /\ arg = 0 /\ c.type = "bool"
           \/ name = "SMALLINT" /\ arg = 0 /\ c.type = "int16"
           \/ name = "INTEGER" /\ arg = 0 /\ c.type \in {"int8", "int32"}
           \/ name = "BIGINT" /\ arg = 0 /\ c.type = "int64"
           \/ name = "DOUBLE PRECISION" /\ arg = 0 /\ c.type = "double"
           \/ name = "TIMESTAMP" /\ arg = 0 /\ c.type = "date"
           \/ name = "BYTEA" /\ arg = 0 /\ c.type = "blob"
           \/ name = "VARCHAR" /\ c.type = "text"
           \/ name = "TEXT" /\ arg = 0 /\ c.type \in {"text", "enum"}
  BY PgTypeIs
<1>3. PgType(c).name = name /\ PgType(c).arg = arg
  <2>1. PgType(c) = Type(name, arg)
    BY <1>2
  <2>2. QED BY <2>1 DEF Type
<1>4. ASSUME NEW other PROVE Compatible(server, c, other) <=>
        IF name = "VARCHAR" THEN other = Type("character varying", arg) ELSE other = Type(Lower(name), 0)
  BY <1>3 DEF Compatible, PgCompatible
<1> HIDE DEF type
<1>5. CASE "auto_increment" \notin c.tags
  <2>1. type = Type(PgName(name), arg)
    BY <1>1, <1>2, <1>5, PgReported DEF type
  <2>2. type.name = PgName(name)
    BY <2>1, TypeFields
  <2>3. type.name \in Readable(c)
    <3>1. \/ type.name \in {"boolean", "smallint", "integer", "bigint"} /\ c.type \in Integral
          \/ type.name = "double precision" /\ c.type = "double"
          \/ type.name = "timestamp without time zone" /\ c.type = "date"
          \/ type.name = "bytea" /\ c.type = "blob"
          \/ type.name = "character varying" /\ c.type = "text"
          \/ type.name = "text" /\ c.type \in {"text", "enum"}
      BY <1>2, <2>2, PgNames DEF Integral
    <3>2. QED BY <3>1, ReadableIs
  <2>4. Proper(type.name)
    BY <1>2, <2>2, PgNames DEF Proper
  <2>5. ASSUME c.type # "date" PROVE Compatible(server, c, type)
    BY <1>2, <1>4, <2>1, <2>5, PgNames
  <2>6. QED BY <2>3, <2>4, <2>5 DEF type
<1>6. CASE "auto_increment" \in c.tags
  <2>1. c.type \in {"int8", "int16", "int32", "int64"}
    BY <1>6 DEF ColumnValid, TagsValid, Fits, Integral
  <2>2. \/ c.type # "int64" /\ type = Type("integer", 0)
        \/ c.type = "int64" /\ type = Type("bigint", 0)
    <3>1. CASE c.type = "int64"
      <4>1. ~(Size[c.type] <= 4)
        BY <3>1, SizeIs
      <4>2. ColumnDefinition(server, c).type = Type("BIGSERIAL", 0)
        BY <1>1, <1>6, <4>1
      <4>3. QED BY <3>1, <4>1, <4>2, PgReported, PgNames DEF type
    <3>2. CASE c.type # "int64"
      <4>1. Size[c.type] <= 4
        BY <2>1, <3>2, SizeIs
      <4>2. ColumnDefinition(server, c).type = Type("SERIAL", 0)
        BY <1>1, <1>6, <4>1
      <4>3. QED BY <3>2, <4>1, <4>2, PgReported, PgNames DEF type
    <3>3. QED BY <3>1, <3>2
  <2>3. type.name \in {"integer", "bigint"}
    BY <2>2 DEF Type
  <2>4. type.name \in Readable(c) /\ Proper(type.name)
    BY <2>1, <2>3, ReadableIs DEF Integral, Proper
  <2>5. ASSUME c.type # "int16" PROVE Compatible(server, c, type)
    BY <1>2, <1>4, <2>1, <2>2, <2>5, PgNames
  <2>6. QED BY <1>6, <2>4, <2>5 DEF type
<1>7. QED BY <1>5, <1>6

\* What a server reports of a field, on each of them.
LEMMA Reports ==
  ASSUME server \in {"sqlite", "mysql", "postgres"}, NEW c \in Fields, ColumnValid(c)
  PROVE  LET type == Reported(ColumnDefinition(server, c).type) IN
         /\ type.name \in Readable(c) /\ Proper(type.name)
         /\ \/ Compatible(server, c, type)
            \/ server = "mysql"
            \/ server = "postgres" /\ (c.type = "date" \/ ("auto_increment" \in c.tags /\ c.type = "int16"))
<1>1. CASE server = "sqlite"
  BY <1>1, SqliteReports
<1>2. CASE server = "mysql"
  BY <1>2, MysqlReports
<1>3. CASE server = "postgres"
  BY <1>3, PgReports
<1>4. QED BY <1>1, <1>2, <1>3

\* A field can be read from a column that attach takes for usable.
LEMMA CompatibleIsReadable ==
  ASSUME server \in {"sqlite", "mysql", "postgres"}, NEW c \in Fields, NEW type, Proper(type.name),
         Compatible(server, c, type)
  PROVE  type.name \in Readable(c)
<1>1. CASE server = "sqlite"
  <2>1. type.name \in {"INTEGER", "BIGINT", "REAL", "FLOAT", "DOUBLE", "TEXT", "VARCHAR", "BLOB"}
    BY <1>1 DEF Proper
  <2>2. Inside(type.name) = IF type.name \in {"INTEGER", "BIGINT"} THEN {"INT"} ELSE {type.name}
    BY DEF Inside
  <2> DEFINE name == SqliteType(c).name
  <2>3. \/ name = "INTEGER" /\ c.type \in Integral \cup {"enum"}
        \/ name = "REAL" /\ c.type = "double"
        \/ name = "BLOB" /\ c.type = "blob"
        \/ name = "TEXT" /\ c.type \in {"text", "date"}
    BY FieldTypesAre DEF SqliteType, Type, Integral
  <2>4. CASE name = "INTEGER" /\ c.type \in Integral \cup {"enum"}
    <3>1. "INT" \in Inside(type.name)
      BY <1>1, <2>4 DEF Compatible, SqliteCompatible
    <3>2. type.name \in {"INTEGER", "BIGINT"}
      BY <2>1, <2>2, <3>1
    <3>3. QED BY <2>4, <3>2, ReadableIs
  <2>5. CASE name = "REAL" /\ c.type = "double"
    <3>1. Inside(type.name) \cap {"REAL", "FLOAT", "DOUBLE"} # {}
      BY <1>1, <2>5 DEF Compatible, SqliteCompatible
    <3>2. type.name \in {"REAL", "FLOAT", "DOUBLE"}
      BY <2>2, <3>1
    <3>3. QED BY <2>5, <3>2, ReadableIs
  <2>6. CASE name \in {"BLOB", "TEXT"} /\ c.type \in {"blob", "text", "date"}
    <3>1. name \in Inside(type.name)
      BY <1>1, <2>6 DEF Compatible, SqliteCompatible
    <3>2. type.name = name
      BY <2>2, <2>6, <3>1
    <3>3. QED BY <2>3, <2>6, <3>2, ReadableIs
  <2> HIDE DEF name
  <2>7. QED BY <2>3, <2>4, <2>5, <2>6
<1>2. CASE server = "mysql"
  <2>1. type.name = MysqlType(c).name
    BY <1>2 DEF Compatible, MysqlCompatible
  <2>2. MysqlType(c).name \in DOMAIN MysqlName
    <3>1. DOMAIN MysqlName = {"TINYINT", "SMALLINT", "INT", "BIGINT", "DOUBLE", "DATETIME", "BLOB", "VARCHAR", "TEXT"}
      BY DEF MysqlName
    <3>2. MysqlType(c).name \in {"TINYINT", "SMALLINT", "INT", "BIGINT", "DOUBLE", "DATETIME", "BLOB", "VARCHAR", "TEXT"}
      <4>1. CASE c.type \in Integral
        BY <4>1 DEF MysqlType, Type, Integral
      <4>2. CASE c.type \notin Integral
        BY <4>2, FieldTypesAre DEF MysqlType, Type, Text, Integral
      <4>3. QED BY <4>1, <4>2
    <3>3. QED BY <3>1, <3>2
  <2>3. QED BY <1>2, <2>1, <2>2 DEF Proper
<1>3. CASE server = "postgres"
  <2>1. PICK name, arg :
          /\ PgType(c) = Type(name, arg)
          /\ \/ name = "BOOLEAN" /\ c.type = "bool"
             \/ name = "SMALLINT" /\ c.type = "int16"
             \/ name = "INTEGER" /\ c.type \in {"int8", "int32"}
             \/ name = "BIGINT" /\ c.type = "int64"
             \/ name = "DOUBLE PRECISION" /\ c.type = "double"
             \/ name = "TIMESTAMP" /\ c.type = "date"
             \/ name = "BYTEA" /\ c.type = "blob"
             \/ name = "VARCHAR" /\ c.type = "text"
             \/ name = "TEXT" /\ c.type \in {"text", "enum"}
    BY PgTypeIs
  <2>2. PgType(c) = Type(name, arg)
    BY <2>1
  <2>3. PgType(c).name = name
    BY <2>2 DEF Type
  <2>4. CASE name = "VARCHAR"
    <3>1. type = Type("character varying", PgType(c).arg)
      BY <1>3, <2>3, <2>4 DEF Compatible, PgCompatible
    <3>2. type.name = "character varying"
      BY <3>1 DEF Type
    <3>3. QED BY <2>1, <2>4, <3>2, ReadableIs
  <2>5. CASE name # "VARCHAR"
    <3>1. type = Type(Lower(name), 0)
      BY <1>3, <2>3, <2>5 DEF Compatible, PgCompatible
    <3>2. type.name = Lower(name)
      BY <3>1 DEF Type
    <3>3. type.name # "timestamp"
      BY <1>3 DEF Proper
    <3>4. \/ type.name \in {"boolean", "smallint", "integer", "bigint"} /\ c.type \in Integral
          \/ type.name = "double precision" /\ c.type = "double"
          \/ type.name = "bytea" /\ c.type = "blob"
          \/ type.name = "text" /\ c.type \in {"text", "enum"}
      BY <2>1, <2>5, <3>2, <3>3, PgNames DEF Integral
    <3>5. QED BY <3>4, ReadableIs
  <2>6. QED BY <2>4, <2>5
<1>4. QED BY <1>1, <1>2, <1>3

-----------------------------------------------------------------------------
(* What the answers say.                                                   *)

\* A table that a call made serves its struct.
LEMMA MadeServes ==
  ASSUME server \in Dialects, NEW s \in DOMAIN Structs, NEW t \in Tables, MadeOf(t, s)
  PROVE  /\ Serves(tables[t], Structs[s])
         /\ \A n \in DOMAIN tables[t].columns : Proper(tables[t].columns[n].name)
         /\ \A c \in Words(Structs[s].columns) :
              /\ c.name \in DOMAIN tables[t].columns
              /\ \/ Compatible(server, c, tables[t].columns[c.name])
                 \/ NotTakenBack(Structs[s])
<1> DEFINE S == Structs[s]
           schema == SchemaOf[server][s][t]
           made == tables[t].columns
<1>1. Matches(schema, S)
  BY SchemaMatches DEF MadeOf
<1>2. made = Made(schema, s).columns
  BY DEF MadeOf
<1> HIDE DEF S, schema, made
<1>3. ASSUME NEW i \in DOMAIN S.columns
      PROVE  LET c == S.columns[i] IN
             /\ c.name \in DOMAIN made
             /\ made[c.name].name \in Readable(c) /\ Proper(made[c.name].name)
             /\ Compatible(server, c, made[c.name]) \/ NotTakenBack(S)
  <2> DEFINE c == S.columns[i]
             type == Reported(ColumnDefinition(server, c).type)
  <2>1. c.name \in DOMAIN made /\ made[c.name] = type
    BY <1>1, <1>2, MadeColumn
  <2>2. c \in Fields /\ ColumnValid(c) /\ server \in {"sqlite", "mysql", "postgres"} /\ c \in Words(S.columns)
    BY <1>1 DEF Matches, Words
  <2> HIDE DEF c
  <2>3. /\ type.name \in Readable(c) /\ Proper(type.name)
        /\ \/ Compatible(server, c, type)
           \/ server = "mysql"
           \/ server = "postgres" /\ (c.type = "date" \/ ("auto_increment" \in c.tags /\ c.type = "int16"))
    BY <2>2, Reports
  <2> HIDE DEF type
  <2>4. Compatible(server, c, type) \/ NotTakenBack(S)
    BY <2>2, <2>3 DEF NotTakenBack
  <2>5. QED BY <2>1, <2>3, <2>4 DEF c
<1>4. Serves(tables[t], S)
  BY <1>3 DEF Serves, Words, made
<1>5. ASSUME NEW n \in DOMAIN made PROVE Proper(made[n].name)
  <2>1. DOMAIN made = Names(S)
    BY <1>1, <1>2, NamesAre DEF Made
  <2>2. PICK i \in DOMAIN S.columns : n = S.columns[i].name
    BY <2>1 DEF Names
  <2>3. QED BY <2>2, <1>3
<1>6. ASSUME NEW c \in Words(S.columns)
      PROVE  c.name \in DOMAIN made /\ (Compatible(server, c, made[c.name]) \/ NotTakenBack(S))
  BY <1>3 DEF Words
<1>7. QED BY <1>4, <1>5, <1>6 DEF S, made

\* The table of another program.
LEMMA ForeignIs ==
  ASSUME NEW other
  PROVE  Foreign(other).columns = other /\ Foreign(other).by = "another program"
BY DEF Foreign

\* What is there is reported with names that the server has.
LEMMA TablesAreProper ==
  ASSUME server \in Dialects, NEW t \in Tables, TableInv(t), tables[t] # NoTable,
         NEW n \in DOMAIN tables[t].columns
  PROVE  Proper(tables[t].columns[n].name)
<1>1. CASE \E other \in Others[server] : tables[t] = Foreign(other)
  <2>1. PICK other \in Others[server] : tables[t] = Foreign(other)
    BY <1>1
  <2>2. tables[t].columns = other
    BY <2>1, ForeignIs
  <2>3. QED BY <2>2, OthersReported DEF Proper
<1>2. ASSUME NEW s \in DOMAIN Structs, MadeOf(t, s) PROVE Proper(tables[t].columns[n].name)
  BY <1>2, MadeServes
<1>3. QED BY <1>1, <1>2 DEF TableInv

\* The answer of a call is true: a table whose form a call has given can be
\* read into its struct, and a call that makes tables has its table only if it
\* gives the form.
THEOREM AnswersAreTrue == Spec => []AnswerIsTrue
<1>1. Inv => AnswerIsTrue
  <2> SUFFICES ASSUME Inv, NEW c \in Callers, NEW k, k = call[c], k.own
               PROVE  /\ k.answer = "form" \/ k.op \in {"create_or_replace", "create_if_not_exists"} =>
                           Serves(tables[k.table], Structs[k.struct])
                      /\ k.op \in {"create_or_replace", "create_if_not_exists"} => k.answer \in {"none", "form", "error"}
    BY DEF AnswerIsTrue
  <2>1. CallInv(k) /\ Named(k) /\ TableInv(k.table) /\ server \in Dialects
    BY DEF Inv, CallInv, Typed, Named
  <2>2. CASE HasMade(k)
    <3>1. MadeOf(k.table, k.struct)
      BY <2>2 DEF HasMade, Fitting, MadeOf, Schema
    <3>2. Serves(tables[k.table], Structs[k.struct])
      BY <2>1, <3>1, MadeServes DEF Named
    <3>3. QED BY <2>2, <3>2 DEF HasMade
  <2>3. CASE HasSeen(k)
    <3>1. ASSUME Usable(k), NEW f \in Words(Structs[k.struct].columns)
          PROVE  /\ f.name \in DOMAIN tables[k.table].columns
                 /\ tables[k.table].columns[f.name].name \in Readable(f)
      <4>1. f.name \in DOMAIN tables[k.table].columns /\ Compatible(server, f, tables[k.table].columns[f.name])
        BY <2>3, <3>1 DEF Usable, HasSeen
      <4>2. f \in Fields
        BY <2>1, <3>1, StructIs DEF Named, Words
      <4>3. Proper(tables[k.table].columns[f.name].name)
        BY <2>1, <2>3, <4>1, TablesAreProper DEF Named, HasSeen
      <4>4. server \in {"sqlite", "mysql", "postgres"}
        BY <2>1, DialectsKnown
      <4>5. QED BY <4>1, <4>2, <4>3, <4>4, CompatibleIsReadable
    <3>2. k.answer = "form" => Usable(k)
      BY <2>3 DEF HasSeen
    <3>3. k.op \notin {"create_or_replace", "create_if_not_exists"}
      BY <2>3 DEF HasSeen
    <3>4. QED BY <3>1, <3>2, <3>3 DEF Serves
  <2>4. QED BY <2>1, <2>2, <2>3 DEF CallInv
<1>2. QED BY <1>1, AlwaysInv, PTL

\* attach refuses no table that the same struct has made, apart from the ones
\* of MySQL, and of PostgreSQL those with a time or a short generated number.
THEOREM OwnIsTaken == Spec => []AttachTakesOwn
<1>1. Inv => AttachTakesOwn
  <2> SUFFICES ASSUME Inv, NEW c \in Callers, NEW k, k = call[c],
                      k.answer = "SchemaMismatch", k.own, tables[k.table].by = k.struct
               PROVE  NotTakenBack(Structs[k.struct])
    BY DEF AttachTakesOwn
  <2>1. CallInv(k) /\ Named(k) /\ TableInv(k.table) /\ server \in Dialects
    BY DEF Inv, CallInv, Typed, Named
  <2>2. HasSeen(k)
    BY <2>1 DEF CallInv, HasMade
  <2>3. k.struct \notin Strangers
    BY <2>1, StructsNamed DEF Named
  <2>4. MadeOf(k.table, k.struct)
    <3>1. CASE \E other \in Others[server] : tables[k.table] = Foreign(other)
      <4>1. PICK other \in Others[server] : tables[k.table] = Foreign(other)
        BY <3>1
      <4>2. tables[k.table].by = "another program"
        <5>1. Foreign(other).by = "another program"
          BY ForeignIs
        <5>2. QED BY <4>1, <5>1
      <4>3. QED BY <4>2, <2>3 DEF Strangers
    <3>2. CASE tables[k.table] = NoTable
      BY <2>2, <3>2 DEF HasSeen
    <3>3. ASSUME NEW s \in DOMAIN Structs, MadeOf(k.table, s) PROVE MadeOf(k.table, k.struct)
      <4>1. tables[k.table].by = s
        BY <3>3 DEF MadeOf, Made
      <4>2. QED BY <3>3, <4>1
    <3>4. QED BY <2>1, <3>1, <3>2, <3>3 DEF TableInv
  <2>5. PICK f \in Words(Structs[k.struct].columns) :
          ~(f.name \in DOMAIN tables[k.table].columns /\ Compatible(server, f, tables[k.table].columns[f.name]))
    BY <2>2 DEF HasSeen, Usable
  <2>6. QED BY <2>1, <2>4, <2>5, MadeServes DEF Named
<1>2. QED BY <1>1, AlwaysInv, PTL

-----------------------------------------------------------------------------
(* A table is as its struct declares it.                                   *)

\* The attributes that a dialect writes of a field's tags.
LEMMA AttributesAre ==
  ASSUME NEW d \in {"sqlite", "mysql", "postgres"}, NEW c \in Fields
  PROVE  LET a == ColumnDefinition(d, c).attributes IN
         /\ "primary_key" \in a <=> "primary_key" \in c.tags
         /\ "unique" \in a <=> "unique" \in c.tags /\ "primary_key" \notin c.tags
         /\ "index" \in a <=> d = "mysql" /\ "index" \in c.tags /\ c.tags \cap {"primary_key", "unique"} = {}
         /\ "auto_increment" \in a <=>
              /\ "auto_increment" \in c.tags
              /\ d = "mysql" \/ (d = "sqlite" /\ "primary_key" \in c.tags)
<1>1. CASE d = "sqlite"
  <2>1. ColumnDefinition(d, c).attributes =
          Shared(c) \cup (IF "primary_key" \in c.tags THEN c.tags \cap {"auto_increment"} ELSE {})
    BY <1>1 DEF ColumnDefinition, SqliteColumn, Definition
  <2>2. QED BY <1>1, <2>1 DEF Shared
<1>2. CASE d = "mysql"
  <2>1. ColumnDefinition(d, c).attributes =
          Shared(c) \cup (c.tags \cap {"auto_increment", "updated_at"})
            \cup (IF c.tags \cap {"primary_key", "unique"} = {} THEN c.tags \cap {"index"} ELSE {})
    BY <1>2 DEF ColumnDefinition, MysqlColumn, Definition
  <2>2. QED BY <1>2, <2>1 DEF Shared
<1>3. CASE d = "postgres"
  <2>1. ColumnDefinition(d, c).attributes = Shared(c)
    BY <1>3 DEF ColumnDefinition, PgColumn, Definition
  <2>2. QED BY <1>3, <2>1 DEF Shared
<1>4. QED BY <1>1, <1>2, <1>3

\* Serial types are PostgreSQL's, of generated columns.
LEMMA SerialIs ==
  ASSUME NEW d \in {"sqlite", "mysql", "postgres"}, NEW c \in Fields
  PROVE  ColumnDefinition(d, c).type.name \in {"SERIAL", "BIGSERIAL"}
           <=> d = "postgres" /\ "auto_increment" \in c.tags
<1>1. CASE d = "sqlite"
  <2>1. ColumnDefinition(d, c).type = SqliteType(c)
    BY <1>1 DEF ColumnDefinition, SqliteColumn, Definition
  <2>2. SqliteType(c).name \in {"INTEGER", "REAL", "BLOB", "TEXT"}
    BY DEF SqliteType, Type
  <2>3. QED BY <1>1, <2>1, <2>2
<1>2. CASE d = "mysql"
  <2>1. ColumnDefinition(d, c).type = MysqlType(c)
    BY <1>2 DEF ColumnDefinition, MysqlColumn, Definition
  <2>2. MysqlType(c).name \in {"TINYINT", "SMALLINT", "INT", "BIGINT", "DOUBLE", "DATETIME", "BLOB", "VARCHAR", "TEXT"}
    <3>1. CASE c.type \in Integral
      BY <3>1 DEF MysqlType, Type, Integral
    <3>2. CASE c.type \notin Integral
      BY <3>2, FieldTypesAre DEF MysqlType, Type, Text, Integral
    <3>3. QED BY <3>1, <3>2
  <2>3. QED BY <1>2, <2>1, <2>2
<1>3. CASE d = "postgres" /\ "auto_increment" \in c.tags
  <2>1. \/ ColumnDefinition(d, c).type = Type("SERIAL", 0)
        \/ ColumnDefinition(d, c).type = Type("BIGSERIAL", 0)
    BY <1>3 DEF ColumnDefinition, PgColumn, Definition
  <2>2. QED BY <1>3, <2>1 DEF Type
<1>4. CASE d = "postgres" /\ "auto_increment" \notin c.tags
  <2>1. ColumnDefinition(d, c).type = PgType(c)
    BY <1>4 DEF ColumnDefinition, PgColumn, Definition
  <2>2. PICK name, arg : PgType(c) = Type(name, arg) /\ name \notin {"SERIAL", "BIGSERIAL"}
    BY PgTypeIs
  <2>3. PgType(c) = Type(name, arg)
    BY <2>2
  <2>4. PgType(c).name = name
    BY <2>3 DEF Type
  <2>5. QED BY <1>4, <2>1, <2>2, <2>4
<1>5. QED BY <1>1, <1>2, <1>3, <1>4

\* The columns of a schema, one for each field.
LEMMA SchemaWords ==
  ASSUME NEW schema, NEW s, Matches(schema, s)
  PROVE  /\ Words(schema.columns) = {ColumnDefinition(server, c) : c \in Words(s.columns)}
         /\ Words(s.columns) \subseteq Fields
         /\ \A c, e \in Words(s.columns) : c.name = e.name => c = e
         /\ \A c \in Words(s.columns) : Compiles(c) /\ ValidName(c.name)
<1>1. /\ DOMAIN schema.columns = DOMAIN s.columns
      /\ \A i \in DOMAIN s.columns : schema.columns[i] = ColumnDefinition(server, s.columns[i])
  BY DEF Matches
<1>2. Words(schema.columns) = {ColumnDefinition(server, c) : c \in Words(s.columns)}
  BY <1>1 DEF Words
<1>3. QED BY <1>2 DEF Matches, Words

\* The constraints of a schema, one for each reference and each item.
LEMMA ConstraintsAre ==
  ASSUME NEW s, s.items \in Seq(Items)
  PROVE  /\ {Words(k.columns) : k \in {x \in Constraints(s) : x.kind = "primary key"}}
              = {Words(it.columns) : it \in {x \in Words(s.items) : x.kind = "primary key"}}
         /\ {Words(k.columns) : k \in {x \in Constraints(s) : x.kind = "unique"}}
              = {Words(it.columns) : it \in {x \in Words(s.items) : x.kind = "unique"}}
         /\ {k.ref.table : k \in {x \in Constraints(s) : x.kind = "foreign key"}}
              = {c.ref.table : c \in Words(s.columns)} \ {<<>>}
<1>1. ASSUME NEW it \in Words(s.items) PROVE it.kind \in {"primary key", "unique", "check", "index"}
  <2>1. PICK i \in DOMAIN s.items : it = s.items[i]
    BY DEF Words
  <2>2. it \in Items
    BY <2>1
  <2>3. QED BY <2>2 DEF Items
<1>2. ASSUME NEW k
      PROVE  k \in Constraints(s) <=>
               \/ \E c \in Words(s.columns) : c.ref.table # <<>> /\ k = Constraint("foreign key", <<c.name>>, c.ref)
               \/ \E it \in Words(s.items) : it.kind # "index" /\ k = Constraint(it.kind, it.columns, NoReference)
  BY DEF Constraints
<1>3. ASSUME NEW kind \in {"primary key", "unique"}
      PROVE  {Words(k.columns) : k \in {x \in Constraints(s) : x.kind = kind}}
               = {Words(it.columns) : it \in {x \in Words(s.items) : x.kind = kind}}
  <2>1. ASSUME NEW k \in Constraints(s), k.kind = kind
        PROVE  \E it \in Words(s.items) : it.kind = kind /\ k.columns = it.columns
    <3>1. ASSUME NEW c \in Words(s.columns), k = Constraint("foreign key", <<c.name>>, c.ref)
          PROVE  FALSE
      <4>1. k.kind = "foreign key"
        BY <3>1 DEF Constraint
      <4>2. QED BY <2>1, <4>1
    <3>2. ASSUME NEW it \in Words(s.items), k = Constraint(it.kind, it.columns, NoReference)
          PROVE  it.kind = kind /\ k.columns = it.columns
      BY <2>1, <3>2 DEF Constraint
    <3>3. QED BY <1>2, <3>1, <3>2
  <2>2. ASSUME NEW it \in Words(s.items), it.kind = kind
        PROVE  \E k \in Constraints(s) : k.kind = kind /\ k.columns = it.columns
    <3>1. PICK k : k = Constraint(it.kind, it.columns, NoReference)
      OBVIOUS
    <3>2. k \in Constraints(s)
      BY <1>2, <2>2, <3>1
    <3>3. k.kind = kind /\ k.columns = it.columns
      BY <2>2, <3>1 DEF Constraint
    <3>4. QED BY <3>2, <3>3
  <2>3. QED BY <2>1, <2>2
<1>4. {k.ref.table : k \in {x \in Constraints(s) : x.kind = "foreign key"}}
        = {c.ref.table : c \in Words(s.columns)} \ {<<>>}
  <2>1. ASSUME NEW k \in Constraints(s), k.kind = "foreign key"
        PROVE  \E c \in Words(s.columns) : c.ref.table # <<>> /\ k.ref = c.ref
    <3>1. ASSUME NEW c \in Words(s.columns), k = Constraint("foreign key", <<c.name>>, c.ref)
          PROVE  k.ref = c.ref
      BY <3>1 DEF Constraint
    <3>2. ASSUME NEW it \in Words(s.items), k = Constraint(it.kind, it.columns, NoReference)
          PROVE  FALSE
      BY <1>1, <2>1, <3>2 DEF Constraint
    <3>3. QED BY <1>2, <3>1, <3>2
  <2>2. ASSUME NEW c \in Words(s.columns), c.ref.table # <<>>
        PROVE  \E k \in Constraints(s) : k.kind = "foreign key" /\ k.ref = c.ref
    <3>1. PICK k : k = Constraint("foreign key", <<c.name>>, c.ref)
      OBVIOUS
    <3>2. k \in Constraints(s)
      BY <1>2, <2>2, <3>1
    <3>3. k.kind = "foreign key" /\ k.ref = c.ref
      BY <3>1 DEF Constraint
    <3>4. QED BY <3>2, <3>3
  <2>3. ASSUME NEW t, t \in {k.ref.table : k \in {x \in Constraints(s) : x.kind = "foreign key"}}
        PROVE  t \in {c.ref.table : c \in Words(s.columns)} \ {<<>>}
    BY <2>1, <2>3
  <2>4. ASSUME NEW t, t \in {c.ref.table : c \in Words(s.columns)} \ {<<>>}
        PROVE  t \in {k.ref.table : k \in {x \in Constraints(s) : x.kind = "foreign key"}}
    <3>1. PICK c \in Words(s.columns) : t = c.ref.table /\ t # <<>>
      BY <2>4
    <3>2. PICK k \in Constraints(s) : k.kind = "foreign key" /\ k.ref = c.ref
      BY <2>2, <3>1
    <3>3. QED BY <3>1, <3>2
  <2>5. QED BY <2>3, <2>4
<1>5. QED BY <1>3, <1>4

\* The names of the fields with a tag, and one field for each.
LEMMA TaggedIs ==
  ASSUME NEW s, NEW tag, NEW n
  PROVE  n \in Tagged(s, tag) <=> \E c \in Words(s.columns) : tag \in c.tags /\ c.name = n
BY DEF Tagged

\* The keys of a schema are those that its struct declares.
LEMMA KeysDeclared ==
  ASSUME NEW schema, NEW s, Matches(schema, s), server # "mysql" \/ Tagged(s, "index") = {}
  PROVE  Keys(schema) = DeclaredKeys(s)
<1> DEFINE keyed == {{n} : n \in Tagged(s, "primary_key")}
           unique == {{n} : n \in Tagged(s, "unique")}
           items(kind) == {Words(it.columns) : it \in {x \in Words(s.items) : x.kind = kind}}
<1>1. /\ Words(schema.columns) = {ColumnDefinition(server, c) : c \in Words(s.columns)}
      /\ Words(s.columns) \subseteq Fields
      /\ server \in {"sqlite", "mysql", "postgres"}
  BY SchemaWords DEF Matches
<1>2. ASSUME NEW c \in Words(s.columns)
      PROVE  LET col == ColumnDefinition(server, c) IN
             /\ col.name = c.name /\ col \in Words(schema.columns)
             /\ PrimaryOf(col) <=> "primary_key" \in c.tags
             /\ "unique" \in col.attributes <=> "unique" \in c.tags /\ "primary_key" \notin c.tags
  <2> DEFINE col == ColumnDefinition(server, c)
  <2>1. /\ "primary_key" \in col.attributes <=> "primary_key" \in c.tags
        /\ "unique" \in col.attributes <=> "unique" \in c.tags /\ "primary_key" \notin c.tags
        /\ "index" \in col.attributes => server = "mysql" /\ "index" \in c.tags
    BY <1>1, AttributesAre
  <2>2. col.name = c.name
    BY <1>1, DefinitionNamed
  <2>3. ~(server = "mysql" /\ "index" \in c.tags)
    BY TaggedIs
  <2>4. col \in Words(schema.columns)
    BY <1>1
  <2> HIDE DEF col
  <2>5. QED BY <2>1, <2>2, <2>3, <2>4 DEF PrimaryOf, col
<1>3. ASSUME NEW col \in Words(schema.columns)
      PROVE  \E c \in Words(s.columns) : col = ColumnDefinition(server, c)
  BY <1>1
<1>4. {{col.name} : col \in {x \in Words(schema.columns) : PrimaryOf(x)}} = keyed
  <2>1. ASSUME NEW col \in Words(schema.columns), PrimaryOf(col) PROVE {col.name} \in keyed
    <3>1. PICK c \in Words(s.columns) : col = ColumnDefinition(server, c)
      BY <1>3
    <3>2. "primary_key" \in c.tags /\ col.name = c.name
      BY <1>2, <2>1, <3>1
    <3>3. QED BY <3>2, TaggedIs
  <2>2. ASSUME NEW n \in Tagged(s, "primary_key")
        PROVE  \E col \in Words(schema.columns) : PrimaryOf(col) /\ col.name = n
    <3>1. PICK c \in Words(s.columns) : "primary_key" \in c.tags /\ c.name = n
      BY TaggedIs
    <3>2. QED BY <1>2, <3>1
  <2>3. QED BY <2>1, <2>2
<1>5. ASSUME NEW col \in Words(schema.columns), "unique" \in col.attributes PROVE {col.name} \in unique
  <2>1. PICK c \in Words(s.columns) : col = ColumnDefinition(server, c)
    BY <1>3
  <2>2. "unique" \in c.tags /\ col.name = c.name
    BY <1>2, <1>5, <2>1
  <2>3. QED BY <2>2, TaggedIs
<1>6. ASSUME NEW n \in Tagged(s, "unique")
      PROVE  \/ {n} \in keyed
             \/ \E col \in Words(schema.columns) : "unique" \in col.attributes /\ col.name = n
  <2>1. PICK c \in Words(s.columns) : "unique" \in c.tags /\ c.name = n
    BY TaggedIs
  <2>2. CASE "primary_key" \in c.tags
    BY <2>1, <2>2, TaggedIs
  <2>3. CASE "primary_key" \notin c.tags
    BY <1>2, <2>1, <2>3
  <2>4. QED BY <2>2, <2>3
<1>7. /\ {Words(k.columns) : k \in {x \in schema.constraints : x.kind = "primary key"}} = items("primary key")
      /\ {Words(k.columns) : k \in {x \in schema.constraints : x.kind = "unique"}} = items("unique")
  BY ConstraintsAre DEF Matches
<1>8. DeclaredKeys(s) = keyed \cup unique \cup items("primary key") \cup items("unique")
  BY DEF DeclaredKeys
<1> DEFINE others == {{col.name} : col \in {x \in Words(schema.columns) : "unique" \in x.attributes}}
<1>9. Keys(schema) = keyed \cup items("primary key") \cup others \cup items("unique")
  BY <1>4, <1>7 DEF Keys, PrimaryKeys
<1>10. others \subseteq unique /\ unique \subseteq keyed \cup others
  BY <1>5, <1>6
<1> HIDE DEF keyed, unique, items, others
<1>11. QED BY <1>8, <1>9, <1>10

\* So are the generated columns.
LEMMA GeneratedDeclared ==
  ASSUME NEW schema, NEW s, Matches(schema, s)
  PROVE  Generated(schema) = Tagged(s, "auto_increment") \cap
                               (IF server = "sqlite" THEN Tagged(s, "primary_key") ELSE Names(s))
<1>1. /\ Words(schema.columns) = {ColumnDefinition(server, c) : c \in Words(s.columns)}
      /\ Words(s.columns) \subseteq Fields
      /\ \A c, e \in Words(s.columns) : c.name = e.name => c = e
      /\ server \in {"sqlite", "mysql", "postgres"}
  BY SchemaWords DEF Matches
<1> DEFINE serial(col) == "auto_increment" \in col.attributes \/ col.type.name \in {"SERIAL", "BIGSERIAL"}
<1>2. ASSUME NEW c \in Words(s.columns)
      PROVE  LET col == ColumnDefinition(server, c) IN
             /\ col.name = c.name /\ col \in Words(schema.columns)
             /\ serial(col) <=> "auto_increment" \in c.tags /\ (server = "sqlite" => "primary_key" \in c.tags)
  <2> DEFINE col == ColumnDefinition(server, c)
  <2>1. "auto_increment" \in col.attributes <=>
          "auto_increment" \in c.tags /\ (server = "mysql" \/ (server = "sqlite" /\ "primary_key" \in c.tags))
    BY <1>1, AttributesAre
  <2>2. col.type.name \in {"SERIAL", "BIGSERIAL"} <=> server = "postgres" /\ "auto_increment" \in c.tags
    BY <1>1, SerialIs
  <2>3. col.name = c.name /\ col \in Words(schema.columns)
    BY <1>1, DefinitionNamed
  <2> HIDE DEF col
  <2>4. QED BY <1>1, <2>1, <2>2, <2>3 DEF col
<1>3. ASSUME NEW n
      PROVE  n \in Generated(schema) <=> \E c \in Words(s.columns) :
               /\ c.name = n
               /\ "auto_increment" \in c.tags /\ (server = "sqlite" => "primary_key" \in c.tags)
  <2>1. n \in Generated(schema) <=> \E col \in Words(schema.columns) : serial(col) /\ col.name = n
    BY DEF Generated
  <2> HIDE DEF serial
  <2>2. QED BY <1>1, <1>2, <2>1
<1>4. ASSUME NEW n
      PROVE  n \in Names(s) <=> \E c \in Words(s.columns) : c.name = n
  BY DEF Names, Words
<1>5. ASSUME NEW n
      PROVE  n \in Generated(schema) <=>
               n \in Tagged(s, "auto_increment") \cap (IF server = "sqlite" THEN Tagged(s, "primary_key") ELSE Names(s))
  <2>1. CASE server = "sqlite"
    BY <1>1, <1>3, <2>1, TaggedIs
  <2>2. CASE server # "sqlite"
    BY <1>3, <1>4, <2>2, TaggedIs
  <2>3. QED BY <2>1, <2>2
<1>6. QED BY <1>5

\* The indexes of a schema are all that its struct declares.
LEMMA IndexesDeclared ==
  ASSUME NEW schema, NEW s, Matches(schema, s), NEW t
  PROVE  \A shape \in DeclaredIndexes(s) : \E p \in DOMAIN Indexes(t, s) : Shape(Indexes(t, s)[p]) = shape
<1> DEFINE all == Indexes(t, s)
<1>1. s.columns \in Seq(Fields) /\ s.items \in Seq(Items)
  BY DEF Matches
<1>2. /\ \A p \in Indexed(s) : p \in DOMAIN all /\ all[p] = ColumnIndex(t, s.columns[p])
      /\ \A i \in Placed(s, "index") :
           /\ Len(s.columns) + i \in DOMAIN all
           /\ all[Len(s.columns) + i] = Index(s.items[i].name, t, s.items[i].columns, s.items[i].unique)
  BY <1>1, IndexesAre
<1> HIDE DEF all
<1>3. ASSUME NEW n \in Tagged(s, "index") \ Tagged(s, "unique")
      PROVE  \E p \in DOMAIN all : Shape(all[p]) = <<{n}, FALSE>>
  <2>1. PICK i \in DOMAIN s.columns : "index" \in s.columns[i].tags /\ s.columns[i].name = n
    BY DEF Tagged, Words
  <2>2. "unique" \notin s.columns[i].tags
    BY <2>1 DEF Tagged, Words
  <2>3. "primary_key" \notin s.columns[i].tags
    BY <2>2 DEF Matches, Compiles
  <2>4. i \in Indexed(s)
    BY <2>1, <2>2, <2>3 DEF Indexed
  <2>5. Shape(ColumnIndex(t, s.columns[i])) = <<{n}, FALSE>>
    <3>1. ColumnIndex(t, s.columns[i]).columns = <<n>> /\ ColumnIndex(t, s.columns[i]).unique = FALSE
      BY <2>1 DEF ColumnIndex, Index
    <3>2. Words(<<n>>) = {n}
      BY DEF Words
    <3>3. QED BY <3>1, <3>2 DEF Shape
  <2>6. QED BY <1>2, <2>4, <2>5
<1>4. ASSUME NEW it \in Words(s.items), it.kind = "index"
      PROVE  \E p \in DOMAIN all : Shape(all[p]) = <<Words(it.columns), it.unique>>
  <2>1. PICK i \in DOMAIN s.items : s.items[i] = it
    BY DEF Words
  <2>2. i \in Placed(s, "index")
    BY <1>4, <2>1 DEF Placed
  <2>3. Shape(Index(it.name, t, it.columns, it.unique)) = <<Words(it.columns), it.unique>>
    BY DEF Shape, Index
  <2>4. QED BY <1>2, <2>1, <2>2, <2>3
<1>5. QED BY <1>3, <1>4 DEF DeclaredIndexes, all

\* A table that a call made and still has is as its struct declares it: its
\* keys, its references, its generated columns, and an index for each that
\* the struct asks for, or the failure of its own statement.
THEOREM TablesAsDeclared == Spec => []TableAsDeclared
<1>1. Inv => TableAsDeclared
  <2> SUFFICES ASSUME Inv, NEW c \in Callers, NEW k, k = call[c],
                      k.answer = "form", k.own, k.op \in {"create_or_replace", "create_if_not_exists"}
               PROVE  LET s == Structs[k.struct]
                          t == tables[k.table] IN
                      /\ t.keys = DeclaredKeys(s) \/ (server = "mysql" /\ Tagged(s, "index") # {})
                      /\ t.refs = {x.ref.table : x \in Words(s.columns)} \ {<<>>}
                      /\ t.generated = Tagged(s, "auto_increment") \cap
                                          (IF server = "sqlite" THEN Tagged(s, "primary_key") ELSE Names(s))
                      /\ DeclaredIndexes(s) \subseteq
                           k.missed \cup {Shape(ix) : ix \in {x \in indexes : x.table = k.table}}
    BY DEF TableAsDeclared
  <2> DEFINE s == Structs[k.struct]
             t == tables[k.table]
             schema == SchemaOf[server][k.struct][k.table]
  <2>1. CallInv(k) /\ Named(k) /\ server \in Dialects
    BY DEF Inv, CallInv, Typed, Named
  <2>2. HasMade(k) /\ k.step = "idle"
    BY <2>1 DEF CallInv, HasMade, HasSeen
  <2>3. Schema(k) = schema /\ NamesValid(s, k.table) /\ schema # NoSchema
    BY <2>2 DEF HasMade, Fitting, Schema
  <2>4. Matches(schema, s) /\ schema.indexes = Indexes(k.table, s)
    BY <2>1, <2>3, SchemaMatches DEF Named
  <2>5. t = Made(schema, k.struct)
    BY <2>2, <2>3 DEF HasMade
  <2> HIDE DEF s, t, schema
  <2>6. t.keys = Keys(schema) /\ t.refs = References(schema) /\ t.generated = Generated(schema)
    BY <2>5 DEF Made
  <2>7. t.keys = DeclaredKeys(s) \/ (server = "mysql" /\ Tagged(s, "index") # {})
    BY <2>4, <2>6, KeysDeclared
  <2>8. t.refs = {x.ref.table : x \in Words(s.columns)} \ {<<>>}
    BY <2>4, <2>6, ConstraintsAre DEF References, Matches
  <2>9. t.generated = Tagged(s, "auto_increment") \cap
                        (IF server = "sqlite" THEN Tagged(s, "primary_key") ELSE Names(s))
    BY <2>4, <2>6, GeneratedDeclared
  <2>10. ASSUME NEW shape \in DeclaredIndexes(s) PROVE shape \in k.missed \cup Shapes(k.table)
    <3>1. PICK p \in DOMAIN schema.indexes : Shape(schema.indexes[p]) = shape
      BY <2>4, IndexesDeclared
    <3>2. p \in Done(k)
      BY <2>2, <2>3, <3>1 DEF Done
    <3>3. QED BY <2>2, <2>3, <3>1, <3>2 DEF HasMade
  <2>11. QED BY <2>7, <2>8, <2>9, <2>10 DEF Shapes, s, t
<1>2. QED BY <1>1, AlwaysInv, PTL

================================================================================
