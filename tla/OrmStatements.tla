---------------------------- MODULE OrmStatements ----------------------------
(***************************************************************************)
(* What the ORM's expressions and builders say to a database: conditions   *)
(* and assignments (include/ilias/sql_orm/detail/orm_condition.hpp,        *)
(* src/sql_orm/orm.cpp), the builders that check and send them             *)
(* (orm_builder.hpp), the merges of update() and upsert()                  *)
(* (orm_table_ops.hpp) and what the dialects make of them (dialect.hpp).   *)
(*                                                                         *)
(* A condition is the words of its text with the values bound to its       *)
(* question marks; beside it is what the C++ expression means.             *)
(* A statement is one step: the builder folds its arguments, refuses what  *)
(* has a diagnostic, and the server runs the text on one table, with a     *)
(* primary key "id", a unique column "tag" and a column "level".           *)
(***************************************************************************)
EXTENDS Integers, SequencesExt

CONSTANTS
  Dialects,     \* the servers to look at
  Ids,          \* values of the primary key
  Tags, Levels, \* values of the other columns, beside NULL
  Lists,        \* arguments of in() and between()
  Bounded,      \* bound: only the conditions and calls that TLC is to look at
  Nobody        \* no statement has been answered

Null   == "NULL"
Digits == {"0", "1", "2"}

ASSUME KnownDialects == Dialects \subseteq {"sqlite", "mysql", "postgres"}
ASSUME ValuesAreDigits == Ids \cup Tags \cup Levels \subseteq Digits
ASSUME ListsOfValues == \A l \in Lists : l \in Seq(Digits \cup {Null})
ASSUME BoundedOrNot == Bounded \in BOOLEAN

VARIABLES
  dialect,  \* the server
  rows,     \* the table
  hand,     \* the conditions the program has built, the last one on top
  answer    \* what came of the statement just sent

vars == <<dialect, rows, hand, answer>>

Columns == {"id", "tag", "level"}
Dotted(c) == CASE c = "id" -> "t.id" [] c = "tag" -> "t.tag" [] c = "level" -> "t.level"
Plain(w)  == CASE w = "t.id" -> "id" [] w = "t.tag" -> "tag" [] w = "t.level" -> "level" [] OTHER -> w
Rows    == [id : Ids, tag : Tags \cup {Null}, level : Levels \cup Tags \cup {Null}]

ASSUME NobodyIsNoTable == \A S \in SUBSET Rows : S # Nobody

\* The part of a row that conditions speak of.
Cells   == [tag : Tags \cup {Null}, level : Levels \cup Tags \cup {Null}]
Cell(r) == [tag |-> r.tag, level |-> r.level]

\* A column as sql(), as col(), and of a member that is not mapped.
Ref(c)      == [text |-> c, ok |-> TRUE]
RefOf(c)    == [text |-> Dotted(c), ok |-> TRUE]
InvalidRef  == [text |-> "", ok |-> FALSE]
LevelRefs   == {Ref("level"), RefOf("level"), InvalidRef}

\* COUNT, SUM ... of a column keep its diagnostic.
Aggregate(ref) == [text |-> "COUNT", ok |-> ref.ok]

-----------------------------------------------------------------------------
(* Logic with three values, T, F and U, of rows.                           *)

Less(v, w) == v # w /\ (v = "0" \/ w = "2")

Compared(op, v, w) ==
  IF v = Null \/ w = Null THEN "U"
  ELSE IF CASE op = "=" -> v = w [] op = "!=" -> v # w [] op = "<" -> Less(v, w)
            [] op = "<=" -> ~Less(w, v) [] op = ">=" -> ~Less(v, w)
       THEN "T" ELSE "F"

Not3(p)    == CASE p = "T" -> "F" [] p = "F" -> "T" [] OTHER -> "U"
And3(p, q) == IF "F" \in {p, q} THEN "F" ELSE IF "U" \in {p, q} THEN "U" ELSE "T"
Or3(p, q)  == Not3(And3(Not3(p), Not3(q)))
Any3(S)    == IF "T" \in S THEN "T" ELSE IF "U" \in S THEN "U" ELSE "F"
Fact(p)    == IF p THEN "T" ELSE "F"

\* The meaning of v == w, v != w ... in C++, where nothing equals nothing.
Meant(op, v, w) ==
  CASE w = Null /\ op = "=" -> Fact(v = Null) [] w = Null /\ op = "!=" -> Fact(v # Null) [] OTHER -> Compared(op, v, w)

-----------------------------------------------------------------------------
(* SqlVariable and SqlCondition.  Of a condition: the words of its text,   *)
(* its binders, whether it has no diagnostic; and, not of the code, what   *)
(* the expression means, whether all its columns are mapped, and whether   *)
(* it uses what the properties list.                                       *)

Condition(text, binders, means) ==
  [text |-> text, binders |-> binders, ok |-> TRUE, means |-> means, valid |-> TRUE, odd |-> FALSE]
Invalid  == [Condition(<<>>, <<>>, [r \in Cells |-> "U"]) EXCEPT !.ok = FALSE, !.valid = FALSE]
NoCondition == Condition(<<>>, <<>>, [r \in Cells |-> "T"])

Of(ref, r) == r[Plain(ref.text)]

\* compare() with a value.
Compare(ref, op, v) ==
  IF ~ref.ok THEN Invalid
  ELSE LET means == [r \in Cells |-> Meant(op, Of(ref, r), v)]
       IN CASE v = Null /\ op = "="  -> Condition(<<ref.text, "IS", "NULL">>, <<>>, means)
            [] v = Null /\ op = "!=" -> Condition(<<ref.text, "IS", "NOT", "NULL">>, <<>>, means)
            [] OTHER                 -> Condition(<<ref.text, op, "?">>, <<v>>, means)

\* compare() with a function that gives the value when it is bound.
CompareCalled(ref, op, v) ==
  IF ~ref.ok THEN Invalid
  ELSE [Condition(<<ref.text, op, "?">>, <<v>>, [r \in Cells |-> Meant(op, Of(ref, r), v)])
          EXCEPT !.odd = v = Null /\ op \in {"=", "!="}]

\* compare() with a node that has a text: a column, or a condition, whose
\* binders stay behind.
CompareColumn(ref, op, other) ==
  IF ~ref.ok \/ ~other.ok THEN Invalid
  ELSE Condition(<<ref.text, op, other.text>>, <<>>, [r \in Cells |-> Compared(op, Of(ref, r), Of(other, r))])

CompareCondition(ref, op, cond) ==
  IF ~ref.ok \/ ~cond.ok THEN [Invalid EXCEPT !.valid = FALSE]
  ELSE [Condition(<<ref.text, op>> \o cond.text, <<>>, NoCondition.means) EXCEPT !.odd = TRUE, !.valid = cond.valid]

\* Fault: a question mark for the end of the list too.
MarksOneMore(list) == [i \in 1..(2 * Len(list) + 1) |-> IF i % 2 = 1 THEN "?" ELSE ","]

Marks(list) == [i \in 1..(2 * Len(list) - 1) |-> IF i % 2 = 1 THEN "?" ELSE ","]

AnyOf(list, ref, r) == Any3({Meant("=", Of(ref, r), list[i]) : i \in DOMAIN list})

\* operator!.
Negated(a) ==
  IF ~a.ok \/ a.text = <<>> THEN a
  ELSE [a EXCEPT !.text = <<"NOT", "(">> \o @ \o <<")">>, !.means = [r \in Cells |-> Not3(a.means[r])]]

\* in() and not_in(): a list without values is false, or true.
In(ref, list) ==
  LET means == [r \in Cells |-> AnyOf(list, ref, r)]
  IN CASE ~ref.ok -> Invalid
       [] ref.ok /\ list = <<>> -> Condition(<<"1", "=", "0">>, <<>>, means)
       [] OTHER -> [Condition(<<ref.text, "IN", "(">> \o Marks(list) \o <<")">>, list, means)
                      EXCEPT !.odd = \E i \in DOMAIN list : list[i] = Null]

\* Fault: no value is in an empty list, and none is outside.
NotInEmpty(ref, list) ==
  IF list = <<>> THEN [In(ref, list) EXCEPT !.means = [r \in Cells |-> "T"]] ELSE Negated(In(ref, list))

NotIn(ref, list) ==
  LET means == [r \in Cells |-> Not3(AnyOf(list, ref, r))]
  IN CASE ~ref.ok -> Invalid
       [] ref.ok /\ list = <<>> -> Condition(<<"1", "=", "1">>, <<>>, means)
       [] OTHER -> [Condition(<<ref.text, "NOT", "IN", "(">> \o Marks(list) \o <<")">>, list, means)
                      EXCEPT !.odd = \E i \in DOMAIN list : list[i] = Null]

Inside(ref, list, r) == And3(Compared(">=", Of(ref, r), list[1]), Compared("<=", Of(ref, r), list[2]))

Between(ref, list) ==
  IF ~ref.ok THEN Invalid
  ELSE Condition(<<ref.text, "BETWEEN", "?", "AND", "?">>, list, [r \in Cells |-> Inside(ref, list, r)])

NotBetween(ref, list) ==
  IF ~ref.ok THEN Invalid
  ELSE Condition(<<ref.text, "NOT", "BETWEEN", "?", "AND", "?">>, list, [r \in Cells |-> Not3(Inside(ref, list, r))])

IsNull(ref) ==
  IF ~ref.ok THEN Invalid
  ELSE Condition(<<ref.text, "IS", "NULL">>, <<>>, [r \in Cells |-> Fact(Of(ref, r) = Null)])

HasValue(ref) ==
  IF ~ref.ok THEN Invalid
  ELSE Condition(<<ref.text, "IS", "NOT", "NULL">>, <<>>, [r \in Cells |-> Fact(Of(ref, r) # Null)])

\* Fault: the words of both sides in a row.
JoinedBare(a, word, b) == a \o <<word>> \o b

Joined(a, word, b) == <<"(">> \o a \o <<word>> \o b \o <<")">>

\* operator&& and operator||: the first diagnostic stays; a condition without
\* text leaves the other one as it is.
Both(a, b, word, Meaning(_, _)) ==
  LET kept == CASE ~a.ok -> a [] a.ok /\ ~b.ok -> b [] a.ok /\ b.ok /\ a.text = <<>> -> b
                [] a.ok /\ b.ok /\ a.text # <<>> /\ b.text = <<>> -> a
                [] OTHER -> Condition(Joined(a.text, word, b.text), a.binders \o b.binders,
                                      [r \in Cells |-> Meaning(a.means[r], b.means[r])])
  IN [kept EXCEPT !.valid = a.valid /\ b.valid, !.odd = a.odd \/ b.odd]

\* Fault: an invalid right side is left out.
AndLenient(a, b) == IF ~b.ok THEN [a EXCEPT !.valid = FALSE] ELSE Both(a, b, "AND", And3)

And(a, b) == Both(a, b, "AND", And3)
Or(a, b)  == Both(a, b, "OR", Or3)

-----------------------------------------------------------------------------
(* The server's reading of a condition.                                    *)

Words ==
  {"(", ")", ",", "?", "=", "!=", "<", ">=", "NOT", "AND", "OR", "IN", "BETWEEN", "IS"}
    \cup Columns \cup {Dotted(c) : c \in Columns} \cup Digits \cup {Null}

Depth(t, i) == Cardinality({k \in 1..i : t[k] = "("}) - Cardinality({k \in 1..i : t[k] = ")"})

\* The places of a word outside parentheses that is no part of BETWEEN.
Tops(t, word) == {i \in DOMAIN t : t[i] = word /\ Depth(t, i) = 0 /\ (i > 2 => t[i - 2] # "BETWEEN")}

Operand(w, r) == IF Plain(w) \in {"tag", "level"} THEN r[Plain(w)] ELSE w

\* The test of a single column, t without its first word.
Test(v, t) ==
  LET n == Len(t)
  IN CASE n = 2 /\ t[1] = "IS" -> Fact(v = Null)
       [] n = 3 /\ t[1] = "IS" -> Fact(v # Null)
       [] n = 2 /\ t[1] # "IS" -> Compared(t[1], v, t[2])
       [] t[1] = "BETWEEN" -> And3(Compared(">=", v, t[2]), Compared("<=", v, t[4]))
       [] t[1] = "IN" -> Any3({Compared("=", v, t[i]) : i \in {k \in 3..(n - 1) : k % 2 = 1}})
       [] OTHER -> "U"

\* What a text says of each row, by what its parts say: OR is read first, then
\* AND, NOT and parentheses.
Parsed(parts, t) ==
  LET n    == Len(t)
      ors  == Tops(t, "OR")
      ands == Tops(t, "AND")
      or   == CHOOSE i \in ors : TRUE
      and  == CHOOSE i \in ands : TRUE
      Part(i, j, r) == parts[SubSeq(t, i, j)][r]
  IN [r \in Cells |->
        IF n = 0 THEN "U"
        ELSE IF ors # {} THEN Or3(Part(1, or - 1, r), Part(or + 1, n, r))
        ELSE IF ands # {} THEN And3(Part(1, and - 1, r), Part(and + 1, n, r))
        ELSE IF t[1] = "NOT" THEN Not3(Part(2, n, r))
        ELSE IF t[1] = "(" THEN Part(2, n - 1, r)
        ELSE IF n > 1 /\ t[2] = "NOT" THEN Not3(Test(Operand(t[1], r), SubSeq(t, 3, n)))
        ELSE Test(Operand(t[1], r), [i \in 1..(n - 1) |-> Operand(t[i + 1], r)])]

Reading[t \in Seq(Words)] == Parsed(Reading, t)

Holds(t, r) == Reading[t][Cell(r)]

-----------------------------------------------------------------------------
(* SqlAssignment: where it writes, what it writes there, the values bound. *)

Assignment(ref, form, val) == [target |-> ref.text, ok |-> ref.ok, form |-> form, val |-> val]

Assign(ref, v)          == Assignment(ref, "bound", v)
AssignColumn(ref, o)    == [Assignment(ref, "column", o.text) EXCEPT !.ok = ref.ok /\ o.ok]
AssignCoalesced(ref, v) == Assignment(ref, "coalesced", v)
AssignGreatest(ref, v)  == Assignment(ref, "greatest", v)

Binders(a) == IF a.form = "column" THEN <<>> ELSE <<a.val>>

\* Of a list of names, in order, whether one comes again.
Repeats(names) == \E i, j \in DOMAIN names : i < j /\ names[i] = names[j]
Targets(as)    == [i \in DOMAIN as |-> as[i].target]
AllOk(list)    == \A i \in DOMAIN list : list[i].ok

\* The where() of a select adds to the one before; that of an update or of a
\* delete takes its place.
SelectWhere(wheres) ==
  LET upto[i \in 0..Len(wheres)] == IF i = 0 THEN NoCondition ELSE And(upto[i - 1], wheres[i])
  IN upto[Len(wheres)]
ReplaceWhere(wheres) == IF wheres = <<>> THEN NoCondition ELSE Last(wheres)

\* InsertBuilder::addAssignment and diagnostic().
InsertRefused(sets) ==
  \/ ~AllOk(sets) \/ sets = <<>> \/ Repeats(Targets(sets))
  \/ \E i \in DOMAIN sets : sets[i].form # "bound"

\* UpsertBuilder: addValue, addConflictColumn and diagnostic().
UpsertRefused(values, targets, merges, nothing) ==
  \/ ~AllOk(values) \/ Repeats(Targets(values))
  \/ \E i \in DOMAIN values : Len(Binders(values[i])) # 1
  \/ ~AllOk(targets) \/ Repeats([i \in DOMAIN targets |-> targets[i].text])
  \/ ~AllOk(merges)
  \/ values = <<>> \/ targets = <<>> \/ nothing = (merges # <<>>)

-----------------------------------------------------------------------------
(* The server's table.                                                     *)

Unique(S) == \A r, s \in S : r # s => r.id # s.id /\ (r.tag = s.tag => r.tag = Null)

Bound(c) ==
  LET Nth(i) == Cardinality({k \in 1..i : c.text[k] = "?"})
  IN [i \in DOMAIN c.text |-> IF c.text[i] = "?" THEN c.binders[Nth(i)] ELSE c.text[i]]

Found(c) == IF c.text = <<>> THEN rows ELSE {r \in rows : Holds(Bound(c), r) = "T"}

\* A name with a dot where a column is written to: only MySQL takes it.
Writable(name) == name \in Columns \/ dialect = "mysql"

Coalesced(v, w) == IF v # Null THEN v ELSE w

\* MAX(v, w), and the GREATEST(v, w) of PostgreSQL, which passes over NULL.
Larger(v, w) ==
  IF v # Null /\ w # Null THEN IF Less(v, w) THEN w ELSE v
  ELSE IF dialect = "postgres" THEN Coalesced(v, w) ELSE Null

\* The row after SET of one assignment, its right side read from the row seen.
SetOn(r, seen, a) ==
  LET col == Plain(a.target)
  IN [r EXCEPT ![col] = CASE a.form = "bound"     -> a.val
                          [] a.form = "column"    -> seen[Plain(a.val)]
                          [] a.form = "coalesced" -> Coalesced(a.val, seen[col])
                          [] a.form = "greatest"  -> Larger(seen[col], a.val)]

\* MySQL reads what the assignments before have written, the others the old row.
Updated(r, sets) ==
  LET row[i \in 0..Len(sets)] ==
        IF i = 0 THEN r ELSE SetOn(row[i - 1], IF dialect = "mysql" THEN row[i - 1] ELSE r, sets[i])
  IN row[Len(sets)]

SetsRefused(sets) ==
  \/ \E i \in DOMAIN sets : ~Writable(sets[i].target)
  \/ dialect = "postgres" /\ Repeats([i \in DOMAIN sets |-> Plain(sets[i].target)])

\* What the server may leave: tables, or Refusal.
Refusal == Nobody

AfterUpdate(hit, sets) ==
  LET after == (rows \ hit) \cup {Updated(r, sets) : r \in hit}
  IN IF SetsRefused(sets) \/ ~Unique(after) \/ Cardinality(after) # Cardinality(rows) THEN {Refusal} ELSE {after}

\* The row an insert of these assignments makes, columns left out being NULL.
New(sets) ==
  [c \in Columns |-> IF \E i \in DOMAIN sets : Plain(sets[i].target) = c
                     THEN sets[CHOOSE i \in DOMAIN sets : Plain(sets[i].target) = c].val ELSE Null]

AfterInsert(sets) ==
  IF (\E i \in DOMAIN sets : ~Writable(sets[i].target)) \/ New(sets).id = Null
       \/ ~Unique(rows \cup {New(sets)}) \/ New(sets) \in rows
  THEN {Refusal} ELSE {rows \cup {New(sets)}}

-----------------------------------------------------------------------------
(* upsert(): the clause of the dialect and what the server makes of it.    *)

\* addExcludedAssignment: the new value, the new one unless it is NULL, the larger.
\* Fault: COALESCE(old, new).
MergedKeepsOld(mode, old, new) ==
  CASE mode = "replace" -> new [] mode = "coalesce" -> Coalesced(old, new) [] mode = "greatest" -> Larger(old, new)

Merged(mode, old, new) ==
  CASE mode = "replace" -> new [] mode = "coalesce" -> Coalesced(new, old) [] mode = "greatest" -> Larger(old, new)

Merge(mode, ref) == [mode |-> mode, text |-> ref.text, ok |-> ref.ok]

\* A merge of the old row writes the bare name of the column beside excluded:
\* PostgreSQL has two such columns in sight.
MergesRefused(merges) ==
  \/ \E i \in DOMAIN merges : ~Writable(merges[i].text)
  \/ dialect = "postgres" /\ \/ \E i \in DOMAIN merges : merges[i].mode # "replace"
                             \/ Repeats([i \in DOMAIN merges |-> merges[i].text])

MergedRow(old, new, merges) ==
  LET row[i \in 0..Len(merges)] ==
        IF i = 0 THEN old
        ELSE LET c == Plain(merges[i].text)
             IN [row[i - 1] EXCEPT ![c] =
                   Merged(merges[i].mode, IF dialect = "mysql" THEN @ ELSE old[c], new[c])]
  IN row[Len(merges)]

Clashes(new, col) == {r \in rows : r[col] = new[col] /\ r[col] # Null}

\* The rows a statement may update instead: MySQL looks at every unique column,
\* the others at the one named; SQLite may meet another one first, and fail.
Hit(new, target) ==
  IF dialect = "mysql"
  THEN IF Clashes(new, "id") # {} THEN Clashes(new, "id") ELSE Clashes(new, "tag")
  ELSE Clashes(new, target)

AfterUpsert(values, targets, merges) ==
  LET new    == New(values)
      target == targets[1].text
      hit    == Hit(new, target)
      after  == (rows \ hit) \cup {MergedRow(r, new, merges) : r \in hit}
      clash  == \E c \in {"id", "tag"} \ {target} : Clashes(new, c) # {}
  IN IF \/ \E i \in DOMAIN values : ~Writable(values[i].target)
        \/ MergesRefused(merges)
        \/ dialect # "mysql" /\ (Len(targets) > 1 \/ target \notin {"id", "tag"})
     THEN {Refusal}
     ELSE IF hit = {} THEN AfterInsert(values)
     ELSE {IF Unique(after) /\ Cardinality(after) = Cardinality(rows) THEN after ELSE Refusal}
            \cup (IF clash /\ dialect = "sqlite" THEN {Refusal} ELSE {})

-----------------------------------------------------------------------------
(* The program.                                                            *)

\* What was asked (the rows meant, the calls of an upsert), whether every
\* expression the property counts was of mapped members, how the statement
\* ended, and the table before.
Answered(kind, asked, valid, outcome) ==
  /\ hand' = <<>> /\ UNCHANGED dialect
  /\ answer' = [kind |-> kind, asked |-> asked, valid |-> valid, outcome |-> outcome, was |-> rows]

Sent(kind, asked, valid, tables) ==
  \E t \in tables : IF t = Refusal THEN rows' = rows /\ Answered(kind, asked, valid, "refused")
                                   ELSE rows' = t /\ Answered(kind, asked, valid, "ok")

NotSent(kind, asked, valid) == rows' = rows /\ Answered(kind, asked, valid, "invalid")

Leaves ==
  LET level == Ref("level")
  IN {Invalid, NoCondition, CompareColumn(RefOf("level"), "=", RefOf("tag")), IsNull(level), HasValue(level)}
     \cup {Compare(level, op, v) : op \in {"=", "!=", "<", ">="}, v \in Levels \cup {Null}}
     \cup {CompareCalled(level, "=", v) : v \in Levels \cup {Null}}
     \cup {In(level, l) : l \in Lists} \cup {NotIn(level, l) : l \in Lists}
     \cup {Between(level, l) : l \in {m \in Lists : Len(m) = 2}}
     \cup {NotBetween(level, l) : l \in {m \in Lists : Len(m) = 2}}

Simple == Leaves \cup {Negated(l) : l \in Leaves}

\* A compound that is to be combined once more.
Compounds ==
  LET few == {Invalid, NoCondition, IsNull(Ref("level"))} \cup {Compare(Ref("level"), "=", v) : v \in Levels}
  IN {And(a, b) : a, b \in few} \cup {Or(a, b) : a, b \in few}

\* Bound: compound conditions only before the table has rows, of two leaves,
\* or of a third one behind a compound of few.
Push(c) ==
  /\ answer = Nobody
  /\ Bounded => Len(hand) < 2 /\ (hand # <<>> => rows = {} /\ hand[1] \in Simple \cup Compounds)
  /\ hand' = Append(hand, c) /\ UNCHANGED <<dialect, rows, answer>>

Combine ==
  /\ answer = Nobody /\ Len(hand) > 1
  /\ LET n == Len(hand)
     IN \E c \in {And(hand[n - 1], hand[n]), Or(hand[n - 1], hand[n])} : hand' = Append(SubSeq(hand, 1, n - 2), c)
  /\ UNCHANGED <<dialect, rows, answer>>

\* Bound: conditions that are not negated yet.
Negate ==
  /\ answer = Nobody /\ hand # <<>>
  /\ Bounded => rows = {} /\ (Last(hand).text # <<>> => Head(Last(hand).text) # "NOT")
  /\ hand' = [hand EXCEPT ![Len(hand)] = Negated(@)]
  /\ UNCHANGED <<dialect, rows, answer>>

\* Bound: a leaf as the operand.
CompareWithCondition(ref) ==
  /\ answer = Nobody /\ hand # <<>>
  /\ Bounded => Len(hand) = 1 /\ rows = {} /\ hand[1] \in Leaves
  /\ hand' = [hand EXCEPT ![Len(hand)] = CompareCondition(ref, "=", @)]
  /\ UNCHANGED <<dialect, rows, answer>>

\* The rows a condition means.
MeantRows(c) == {r \in rows : c.means[Cell(r)] = "T"}

\* SelectBuilder::query; named is what select() and orderBy() were given.
Select(named) ==
  /\ answer = Nobody
  /\ LET where == SelectWhere(hand)
         valid == where.valid /\ AllOk(named)
     IN IF ~where.ok \/ ~AllOk(named) THEN NotSent("select", {}, valid) ELSE Sent("select", {}, valid, {rows})

\* A join with hand[1] as ON and hand[2] as where(): JoinedSelectBuilder::query()
\* looks at both, select(), which makes a ProjectedSelectBuilder, at the ON's
\* text only: the ON of a condition with a diagnostic is left out, which
\* PostgreSQL does not take.
Join ==
  /\ answer = Nobody /\ Len(hand) = 2
  /\ LET valid  == hand[1].valid /\ hand[2].valid
         tables == {IF hand[1].text = <<>> /\ dialect = "postgres" THEN Refusal ELSE rows}
     IN \/ IF ~hand[1].ok \/ ~hand[2].ok THEN NotSent("join", {}, valid) ELSE Sent("join", {}, valid, tables)
        \/ IF ~hand[2].ok THEN NotSent("projected", {}, hand[2].valid)
           ELSE Sent("projected", {}, hand[2].valid, tables)

\* DeleteBuilder::execute.  Bound, here and below: where() of leaves.
Delete ==
  /\ answer = Nobody /\ (Bounded => ToSet(hand) \subseteq Leaves)
  /\ LET where == ReplaceWhere(hand)
         meant == IF where.odd THEN Found(where) ELSE MeantRows(where)
     IN IF ~where.ok THEN NotSent("delete", {}, where.valid)
        ELSE Sent("delete", meant, where.valid, {rows \ Found(where)})

\* UpdateBuilder::execute: without an assignment nothing is sent.
Update(sets) ==
  /\ LET where == ReplaceWhere(hand)
         meant == IF where.odd THEN Found(where) ELSE MeantRows(where)
         valid == where.valid /\ AllOk(sets)
     IN IF ~where.ok \/ ~AllOk(sets) THEN NotSent("update", {}, valid)
        ELSE Sent("update", meant, valid, IF sets = <<>> THEN {rows} ELSE AfterUpdate(Found(where), sets))

\* InsertBuilder::execute.  Bound, here and below: what is not sent is tried
\* on the empty table only.
Insert(sets) ==
  /\ Bounded /\ rows # {} => ~InsertRefused(sets)
  /\ IF InsertRefused(sets) THEN NotSent("insert", {}, AllOk(sets))
     ELSE Sent("insert", {}, AllOk(sets), AfterInsert(sets))

\* UpsertBuilder::execute; nothing stands for doNothing().
Upsert(values, targets, merges, nothing) ==
  /\ Bounded /\ rows # {} => ~UpsertRefused(values, targets, merges, nothing)
  /\ LET asked == [values |-> values, targets |-> targets, merges |-> merges]
         valid == AllOk(values) /\ AllOk(targets) /\ AllOk(merges)
     IN IF UpsertRefused(values, targets, merges, nothing) THEN NotSent("upsert", asked, valid)
        ELSE Sent("upsert", asked, valid, AfterUpsert(values, targets, merges))

\* The program has read the answer.
Forget == answer # Nobody /\ answer' = Nobody /\ UNCHANGED <<dialect, rows, hand>>

\* Calls of the program.
Assignments ==
  LET level == Ref("level")
  IN {Assign(level, v) : v \in Levels \cup {Null}} \cup {AssignColumn(level, Ref("tag")), AssignColumn(level, InvalidRef)}
     \cup {AssignCoalesced(level, v) : v \in Levels \cup {Null}}
     \cup {AssignGreatest(level, v) : v \in Levels \cup {Null}}
     \cup {Assign(RefOf("level"), v) : v \in Levels} \cup {AssignCoalesced(InvalidRef, Null)}
     \cup {Assign(Ref("tag"), v) : v \in Tags}

\* Bound: two assignments without where() only.
SetLists == {<<>>} \cup {<<a>> : a \in Assignments}
              \cup (IF Bounded => hand = <<>> THEN {<<a, b>> : a, b \in Assignments} ELSE {})

Values == {Assign(Ref("level"), v) : v \in Levels \cup {Null}}
            \cup {AssignColumn(Ref("level"), Ref("tag")), Assign(RefOf("level"), Null), Assign(InvalidRef, Null),
                  AssignCoalesced(Ref("level"), Null), Assign(Ref("tag"), Null)}

Merges ==
  {<<>>, <<Merge("replace", Ref("tag"))>>, <<Merge("replace", Ref("level")), Merge("greatest", Ref("level"))>>}
    \cup {<<Merge(mode, ref)>> : mode \in {"replace", "coalesce", "greatest"}, ref \in LevelRefs}

ConflictTargets == {<<>>, <<InvalidRef>>, <<Ref("id"), Ref("id")>>, <<Ref("level")>>, <<Ref("id")>>, <<Ref("tag")>>}

\* Bound: columns are named beside simple conditions.
ASelect ==
  \E named \in {<<>>, <<InvalidRef>>, <<Ref("tag"), RefOf("level")>>, <<Aggregate(Ref("tag")), Aggregate(InvalidRef)>>} :
    (Bounded /\ named # <<>> => ToSet(hand) \subseteq Leaves) /\ Select(named)

AnUpdate ==
  /\ answer = Nobody /\ (Bounded => Len(hand) < 2 /\ ToSet(hand) \subseteq Leaves)
  /\ \E sets \in SetLists : Update(sets)

AnInsert ==
  /\ answer = Nobody /\ hand = <<>>
  /\ \E i \in Ids, a, b \in Assignments :
       \E sets \in {<<>>, <<a>>, <<Assign(Ref("id"), i), a>>, <<Assign(Ref("id"), i), a, b>>} : Insert(sets)

AnUpsert ==
  /\ answer = Nobody /\ hand = <<>>
  /\ \E i \in Ids, t \in Tags \cup {Null}, a \in Values :
       \E values \in {<<>>, <<Assign(Ref("id"), i), Assign(Ref("tag"), t), a>>} :
       \E targets \in ConflictTargets, merges \in Merges, nothing \in BOOLEAN :
         Upsert(values, targets, merges, nothing)

Next ==
  \/ \E c \in Leaves : Push(c)
  \/ Combine \/ Negate \/ CompareWithCondition(Ref("level")) \/ CompareWithCondition(InvalidRef)
  \/ ASelect \/ Join \/ Delete \/ AnUpdate \/ AnInsert \/ AnUpsert \/ Forget

Init == dialect \in Dialects /\ rows = {} /\ hand = <<>> /\ answer = Nobody

Spec == Init /\ [][Next]_vars

-----------------------------------------------------------------------------
(* Properties.                                                             *)

\* A condition has a value for every question mark (a condition used as an
\* operand leaves its values behind, orm_condition.hpp:236), and the table
\* keeps its keys whatever the merges do.
TypeOK ==
  /\ dialect \in Dialects /\ rows \subseteq Rows /\ Unique(rows)
  /\ \A i \in DOMAIN hand :
       hand[i].odd \/ Len(hand[i].binders) = Cardinality({k \in DOMAIN hand[i].text : hand[i].text[k] = "?"})
  /\ answer = Nobody \/ answer.outcome \in {"ok", "invalid", "refused"}

\* A condition, however its parts were put together, says of every row what
\* the C++ expression means: parentheses keep AND, OR and NOT apart, every
\* value stands at its mark, an empty list is false.  Out of it: a condition
\* as an operand, a function that gives NULL, and NULL inside a list.  A
\* condition without text is no restriction, and ! and || leave it one.
WhereSelectsItsRows ==
  \A i \in DOMAIN hand :
    LET c == hand[i]
    IN c.ok /\ ~c.odd /\ c.text # <<>> => \A r \in Cells : Holds(Bound(c), r) = c.means[r]

\* A statement with a column of an unmapped member in it is not sent: nothing
\* hides the diagnostic of sql() and col() (orm_table_ops.hpp:483) on its way
\* up to the builder.  Out of it: the ON of a projected join, which is dropped.
InvalidIsNotSent ==
  answer # Nobody /\ ~answer.valid =>
    answer.outcome = "invalid" /\ rows = answer.was

\* delete() and update() change the rows their last where() means, no other.
ChangesOnlyItsRows ==
  answer # Nobody /\ answer.kind \in {"delete", "update"} /\ answer.outcome = "ok" =>
    /\ answer.was \ rows \subseteq answer.asked
    /\ answer.kind = "delete" => rows = answer.was \ answer.asked

\* What README.md:556-559 promises of each merge.
Promised(mode, old, new) ==
  IF mode = "replace" THEN new
  ELSE IF mode = "coalesce" \/ Null \in {old, new} THEN IF new = Null THEN old ELSE new
  ELSE IF Less(old, new) THEN new ELSE old

\* The larger of a value and NULL, which is NULL but on PostgreSQL.
LosesToNull(mode, old, new) == mode = "greatest" /\ Null \in {old, new} /\ dialect # "postgres"

\* upsert() of written columns, merging another one: the row that has the key
\* gets the promised merge, and without such a row there is the new one.  Out
\* of it: updateCoalesced and updateGreatest on PostgreSQL, which refuses them,
\* a larger of NULL elsewhere, and MySQL meeting another unique column.
MergesAsPromised ==
  answer # Nobody /\ answer.kind = "upsert" /\ answer.outcome # "invalid" =>
    LET new    == New(answer.asked.values)
        merges == answer.asked.merges
        key    == answer.asked.targets[1].text
        olds   == {r \in answer.was : r[key] = new[key] /\ new[key] # Null}
        Plainly == /\ key \in {"id", "tag"} /\ \A c \in {"id", "tag"} \ {key} :
                         ~ \E r \in answer.was : r[c] = new[c] /\ new[c] # Null
                   /\ Len(merges) = 1 /\ merges[1].text = "level"
                   /\ \A i \in DOMAIN answer.asked.values : answer.asked.values[i].target \in Columns
        merged(r) == [r EXCEPT !.level = Promised(merges[1].mode, @, new.level)]
    IN Plainly /\ ~(dialect = "postgres" /\ merges[1].mode # "replace")
         /\ ~(\E r \in olds : LosesToNull(merges[1].mode, r.level, new.level)) =>
       rows = IF olds = {} THEN answer.was \cup {new} ELSE (answer.was \ olds) \cup {merged(r) : r \in olds}

=============================================================================
