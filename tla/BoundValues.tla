----------------------------- MODULE BoundValues -----------------------------
(***************************************************************************)
(* The values of a statement's placeholders, from the program to the       *)
(* database: the ORM builders, the wrappers SqlStatement and SqlResult,    *)
(* and how each driver numbers placeholders and reads what is bound        *)
(* (include/ilias/sql_orm/detail/orm_builder.hpp, orm_condition.hpp,       *)
(* include/ilias/sql/sqlstatement.hpp, sqlresult.hpp,                      *)
(* detail/placeholder_parser.hpp, src/sql_orm/orm.cpp).                    *)
(*                                                                         *)
(* The drivers do not copy what is bound: they keep a pointer.  MySQL and  *)
(* PostgreSQL read through it when the statement is sent; SQLite reads     *)
(* through it (SQLITE_STATIC) at every step of the result set.  A value is *)
(* a temporary, which lives as long as a builder, a statement wrapper or a *)
(* result set holds it, or a variable of the program, of which these hold  *)
(* a reference (StorageType_t): what the driver then reads is what the     *)
(* variable holds at that moment, if it is still there.                    *)
(*                                                                         *)
(* One coroutine has one builder or one statement in hand, and the result  *)
(* sets it got from earlier ones: awaits do not matter here, and each call *)
(* of the program is one step.                                             *)
(***************************************************************************)
EXTENDS Naturals, FiniteSets, SequencesExt

CONSTANTS
  Temps,      \* temporaries bound by value
  Variables,  \* variables of the program, bound by reference
  Columns,    \* the columns of the mapped table
  Stamp,      \* the one with the updated_at or created_at tag
  Results,    \* places a SqlResult can live in
  Drivers,    \* the drivers to look at
  MaxSlots,   \* bound: placeholders of one statement
  Rules,      \* the disciplines the program keeps to
  None        \* no name, no value

ASSUME StampIsColumn == Stamp \in Columns
ASSUME ColumnsAreFinite == IsFiniteSet(Columns)
ASSUME NoneIsNoValue == None \notin Temps \cup Variables \cup Columns
ASSUME TempsAreNoVariables == Temps \cap Variables = {}
ASSUME KnownDrivers == Drivers \subseteq {"sqlite", "mysql", "postgres"}
ASSUME KnownRules == Rules \subseteq {"distinct", "once", "whole", "uniform", "cleared"}
ASSUME SlotBound == MaxSlots \in Nat /\ MaxSlots >= 2
ASSUME OwnIsNoResult == "own" \notin Results   \* the place of a SqlStatement's native statement

VARIABLES
  driver,   \* the driver of the connection
  scope,    \* the variables of the program that hold what was bound
  builder,  \* the ORM builder in hand
  stmt,     \* the prepared statement in hand
  cursor,   \* the result sets
  bound,    \* per native statement, what its parameters point at
  mishaps   \* what has gone wrong with a value so far

vars == <<driver, scope, builder, stmt, cursor, bound, mishaps>>

Values  == Temps \cup Variables
Natives == Results \cup {"own"}
Kinds   == {"select", "join", "projected", "update", "delete", "insert", "object", "upsert"}

NoBuilder == [kind |-> "none", sets |-> <<>>, on |-> <<>>, due |-> FALSE, cond |-> <<>>,
              given |-> {}, looping |-> FALSE]
NoStmt    == [live |-> FALSE, text |-> <<>>, meant |-> <<>>, keep |-> {}, ran |-> FALSE]
NoCursor  == [state |-> "none", of |-> None, store |-> {}, loop |-> FALSE, bare |-> FALSE]

Upto(S, n) == UNION {[1..m -> S] : m \in 0..n}
Slots == [column : Columns, name : Columns \cup {None}, val : Values]

TypeOK ==
  /\ driver \in Drivers
  /\ scope \subseteq Variables
  /\ builder \in [kind : Kinds \cup {"none"}, sets : Upto(Slots, MaxSlots),
                  on : Upto(Values, MaxSlots), due : BOOLEAN, cond : Upto(Values, MaxSlots),
                  given : SUBSET Values, looping : BOOLEAN]
  /\ stmt \in [live : BOOLEAN, text : Upto(Columns \cup {None}, 2),
               meant : Upto(Values, 2), keep : SUBSET Values, ran : BOOLEAN]
  /\ cursor \in [Results -> [state : {"none", "open", "ended"}, of : Natives \cup {None},
                             store : SUBSET Values, loop : BOOLEAN, bare : BOOLEAN]]
  /\ bound \in [Natives -> Upto(Values \cup {None}, MaxSlots)]
  /\ mishaps \subseteq {"misplaced", "dropped", "freed", "strayed"}

Init ==
  /\ driver \in Drivers
  /\ scope = Variables
  /\ builder = NoBuilder
  /\ stmt = NoStmt
  /\ cursor = [r \in Results |-> NoCursor]
  /\ bound = [n \in Natives |-> <<>>]
  /\ mishaps = {}

Elements(s) == {s[i] : i \in DOMAIN s}

-----------------------------------------------------------------------------
(* Who holds a value.                                                      *)

HeldByBuilder ==
  {builder.sets[i].val : i \in DOMAIN builder.sets} \cup Elements(builder.cond)
    \cup (IF builder.kind = "projected" THEN {} ELSE Elements(builder.on))

HeldByResults == UNION {cursor[r].store : r \in Results}

Alive(v) == v \in stmt.keep \cup HeldByBuilder \cup HeldByResults

InUse == HeldByBuilder \cup HeldByResults \cup builder.given \cup Elements(builder.on)
           \cup stmt.keep \cup UNION {Elements(bound[n]) : n \in Natives}

\* A value the program can bind next: each has one use at a time.
Usable == (Temps \cup scope) \ InUse

\* Reading through the pointers of a native statement.
Read(values) ==
  (IF \A v \in Elements(values) \cap Temps : Alive(v) THEN {} ELSE {"freed"})
    \cup (IF Elements(values) \cap Variables \subseteq scope THEN {} ELSE {"strayed"})

\* SQLite reads nothing before the first step.
ReadToSend(values) == IF driver = "sqlite" THEN {} ELSE Read(values)

\* What keeps the values of these result sets is gone.  SQLite still points there.
Left(rs) ==
  [r \in Results |-> IF r \in rs THEN [cursor[r] EXCEPT !.loop = FALSE, !.bare = (driver = "sqlite")]
                    ELSE cursor[r]]

-----------------------------------------------------------------------------
(* Placeholders and parameters.  A text is the sequence of the names of    *)
(* its placeholders, None for one written ?.                               *)

Same(text, m, n) == m = n \/ (text[n] # None /\ text[m] = text[n])
First(text, n)   == CHOOSE m \in 1..n : Same(text, m, n) /\ \A k \in 1..n : Same(text, k, n) => m <= k
Latest(text, n)  == CHOOSE m \in DOMAIN text : Same(text, m, n) /\ \A k \in DOMAIN text : Same(text, k, n) => k <= m

\* The parameter of a placeholder.  SQLite gives one number to all the
\* placeholders of a name; the texts of the other drivers are rewritten and
\* every placeholder has its own.
Parameter(text, n) ==
  IF driver = "sqlite" THEN Cardinality({First(text, m) : m \in 1..First(text, n)}) ELSE n

Parameters(text) == {Parameter(text, n) : n \in DOMAIN text}

\* The parameter a name is bound to: the rewriting's map keeps a name's last.
Named(text, n) == IF driver = "sqlite" THEN Parameter(text, n) ELSE Latest(text, n)

\* Fault: positions are counted from zero.
ByPositionFromZero(text, values) ==
  [p \in Parameters(text) |-> IF p < Len(values) THEN values[p + 1] ELSE None]

\* Binding by position; what is bound beyond the last parameter is refused.
ByPosition(text, values) ==
  [p \in Parameters(text) |-> IF p <= Len(values) THEN values[p] ELSE None]

ByName(text, values) ==
  [p \in Parameters(text) |->
     IF \E n \in DOMAIN text : Named(text, n) = p
     THEN values[CHOOSE n \in DOMAIN text : Named(text, n) = p] ELSE None]

\* What each placeholder receives.
Got(text, params) == [n \in DOMAIN text |-> params[Parameter(text, n)]]

\* What is wrong with a statement that runs: a placeholder that receives a
\* value which is not its own, a value that reaches no placeholder.
Amiss(meant, got, given) ==
  (IF got # meant THEN {"misplaced"} ELSE {})
    \cup (IF given \subseteq Elements(got) THEN {} ELSE {"dropped"})

-----------------------------------------------------------------------------
(* The text of an ORM builder, and its binders in the order of bind().     *)

Meant(b) == [i \in DOMAIN b.sets |-> b.sets[i].val] \o b.on \o b.cond
Text(b)  == [n \in DOMAIN Meant(b) |-> IF n <= Len(b.sets) THEN b.sets[n].name ELSE None]

\* Insert binds by name and the others by position; a projection of a join is
\* built without the binders of the ON conditions.
Binding(b) ==
  CASE b.kind \in {"insert", "object"} -> ByName(Text(b), Meant(b))
    [] b.kind = "projected" -> ByPosition(Text(b), b.cond)
    [] OTHER -> ByPosition(Text(b), Meant(b))

\* Fault: only the conditions of WHERE are kept.
StorageOfWhere(b) == Elements(b.cond)

\* The binders that a result set of the builder keeps alive.
Storage(b) == (IF b.kind = "join" THEN Elements(b.on) ELSE {}) \cup Elements(b.cond)

Trouble(b) == Amiss(Meant(b), Got(Text(b), Binding(b)), b.given)

\* The result sets that point into the binders of this builder.  They are left
\* when it binds again and a value comes from a function: it is computed anew, to
\* the same place.
PointInto(b) == {r \in Results : Elements(bound[r]) \cap Elements(Binding(b)) \cap Temps # {}}
Overwritten(b) == {{}, PointInto(b)}

-----------------------------------------------------------------------------
(* ORM builders.                                                           *)

Building(kinds) == builder.kind \in kinds /\ ~builder.looping
Room == Len(builder.sets) + Len(builder.on) + Len(builder.cond) < MaxSlots

TheBuilder == UNCHANGED <<driver, scope, stmt, cursor, bound, mishaps>>

\* TableOperations: select, insert, upsert, remove and update, which presets
\* the updated_at column where the database has no ON UPDATE clause; and the
\* first join.
NewBuilder(kind) ==
  /\ builder.kind = "none" /\ ~stmt.live
  /\ kind \in Kinds \ {"projected", "object"}
  /\ \/ builder' = [NoBuilder EXCEPT !.kind = kind, !.due = (kind = "join")]
     \/ /\ kind = "update" /\ driver # "mysql"
        /\ \E now \in Usable \cap Temps :
             builder' = [NoBuilder EXCEPT !.kind = kind,
                           !.sets = <<[column |-> Stamp, name |-> Stamp, val |-> now]>>]
  /\ TheBuilder

\* A select accumulates its conditions; update and remove keep the last one.
Where(v) ==
  /\ Building({"select", "join", "projected", "update", "delete"}) /\ Room
  /\ v \in Usable
  /\ "once" \in Rules /\ builder.kind \in {"update", "delete"} => builder.cond = <<>>
  /\ builder' = [builder EXCEPT !.given = @ \cup {v},
                   !.cond = IF builder.kind \in {"update", "delete"} THEN <<v>> ELSE Append(@, v)]
  /\ TheBuilder

\* on() sets the condition of the table joined last; until then its condition
\* is due.
On(v) ==
  /\ Building({"join"}) /\ Room
  /\ v \in Usable
  /\ "once" \in Rules => builder.due
  /\ builder' = [builder EXCEPT !.given = @ \cup {v}, !.due = FALSE,
                   !.on = IF builder.due THEN Append(@, v) ELSE [@ EXCEPT ![Len(@)] = v]]
  /\ TheBuilder

\* join() on a join: a new builder with the tables, without the WHERE.
JoinNext ==
  /\ Building({"join"})
  /\ "whole" \in Rules => builder.cond = <<>>
  /\ builder' = [builder EXCEPT !.due = TRUE, !.cond = <<>>]
  /\ TheBuilder

\* select(columns) on a join.
Project ==
  /\ Building({"join"})
  /\ "whole" \in Rules => builder.given = {}
  /\ builder' = [builder EXCEPT !.kind = "projected", !.cond = <<>>]
  /\ TheBuilder

Columned == {builder.sets[i].column : i \in DOMAIN builder.sets}

\* column = value, written :column; insert and upsert refuse a second value
\* for a column, and what they refuse is never run.
SetColumn(c, v) ==
  /\ Building({"update", "insert", "upsert"}) /\ Room
  /\ v \in Usable
  /\ builder.kind # "update" \/ "distinct" \in Rules => c \notin Columned
  /\ builder' = [builder EXCEPT !.given = @ \cup {v},
                   !.sets = Append(@, [column |-> c, val |-> v,
                                       name |-> IF builder.kind = "upsert" THEN None ELSE c])]
  /\ TheBuilder

\* assignGreatest and assignCoalesced: the value's placeholder is a ?.
SetGreatest(c, v) ==
  /\ Building({"update"}) /\ Room
  /\ v \in Usable
  /\ "distinct" \in Rules => c \notin Columned
  /\ builder' = [builder EXCEPT !.given = @ \cup {v},
                   !.sets = Append(@, [column |-> c, name |-> None, val |-> v])]
  /\ TheBuilder

\* The columns in the order of the mapped struct.
Order == SetToSeq(Columns)

WholeObject(v) == [i \in DOMAIN Order |-> [column |-> Order[i], name |-> Order[i], val |-> v]]

\* Fault: the object is added to the columns set before.
SetObjectAppends(v) ==
  /\ Building({"insert"})
  /\ v \in Usable \cap Temps
  /\ builder' = [builder EXCEPT !.kind = "object", !.given = @ \cup {v}, !.sets = @ \o WholeObject(v)]
  /\ TheBuilder

\* set(object): every column, bound by name; a second object replaces the first.
SetObject(v) ==
  /\ \/ Building({"insert"}) /\ builder.sets = <<>>
     \/ Building({"object"}) /\ "once" \notin Rules
  /\ Cardinality(Columns) <= MaxSlots
  /\ v \in Usable \cap Temps
  /\ builder' = [builder EXCEPT !.kind = "object", !.given = @ \cup {v}, !.sets = WholeObject(v)]
  /\ TheBuilder

\* execute(): the statement lives during the call only.  An update with
\* nothing to set does nothing, an insert with no value is refused.
ExecuteBuilder ==
  /\ Building({"update", "delete", "insert", "object", "upsert"})
  /\ builder.kind # "delete" => builder.sets # <<>>
  /\ mishaps' = mishaps \cup Trouble(builder) \cup Read(Binding(builder))
  /\ UNCHANGED <<driver, scope, builder, stmt, cursor, bound>>

\* query(): the result set keeps the native statement and the binders.
QueryBuilder(r) ==
  /\ Building({"select", "join", "projected"})
  /\ cursor[r].state = "none"
  /\ bound' = [bound EXCEPT ![r] = Binding(builder)]
  /\ mishaps' = mishaps \cup Trouble(builder) \cup ReadToSend(Binding(builder))
  /\ \E rs \in Overwritten(builder) :
       cursor' = [Left(rs) EXCEPT ![r] = [NoCursor EXCEPT !.state = "open", !.of = r, !.store = Storage(builder)]]
  /\ UNCHANGED <<driver, scope, builder, stmt>>

\* loop(): the builder moves into the generator; its result sets keep nothing.
LoopQuery(r) ==
  /\ Building({"select", "join", "projected"})
  /\ cursor[r].state = "none"
  /\ bound' = [bound EXCEPT ![r] = Binding(builder)]
  /\ mishaps' = mishaps \cup Trouble(builder) \cup ReadToSend(Binding(builder))
  /\ \E rs \in Overwritten(builder) :
       cursor' = [Left(rs) EXCEPT ![r] = [NoCursor EXCEPT !.state = "open", !.of = r, !.loop = TRUE]]
  /\ builder' = [builder EXCEPT !.looping = TRUE]
  /\ UNCHANGED <<driver, scope, stmt>>

\* A generator takes the binders of its result sets along.
DropBuilder ==
  /\ builder.kind # "none"
  /\ builder' = NoBuilder
  /\ cursor' = Left({r \in Results : cursor[r].loop})
  /\ UNCHANGED <<driver, scope, stmt, bound, mishaps>>

-----------------------------------------------------------------------------
(* insert(range): the first row chooses the columns, each row binds its    *)
(* own.  A row is TRUE when its created_at is null and so left out; a cell *)
(* is a row and a column.                                                  *)

Stamped == CHOOSE k \in DOMAIN Order : Order[k] = Stamp
Filled(null) == IF null THEN RemoveAt(Order, Stamped) ELSE Order
RowCells(i, columns) == [k \in DOMAIN columns |-> <<i, columns[k]>>]

BatchCells(rows) == RowCells(1, Filled(rows[1])) \o RowCells(2, Filled(rows[1]))
BatchMeant(rows) ==
  [n \in DOMAIN BatchCells(rows) |->
     LET cell == BatchCells(rows)[n] IN IF cell[2] = Stamp /\ rows[cell[1]] THEN <<>> ELSE cell]
BatchBinds(rows) == RowCells(1, Filled(rows[1])) \o RowCells(2, Filled(rows[2]))
BatchGot(rows) ==
  [n \in DOMAIN BatchCells(rows) |-> IF n <= Len(BatchBinds(rows)) THEN BatchBinds(rows)[n] ELSE <<>>]

InsertRows(rows) ==
  /\ builder.kind = "none" /\ ~stmt.live
  /\ "uniform" \in Rules => rows[1] = rows[2]
  /\ mishaps' = mishaps \cup Amiss(BatchMeant(rows), BatchGot(rows), Elements(BatchBinds(rows)))
  /\ UNCHANGED <<driver, scope, builder, stmt, cursor, bound>>

-----------------------------------------------------------------------------
(* SqlStatement: prepare, bind, query, execute.                            *)

UsedBy(n, cursors) == \E r \in Results : cursors[r].of = n

\* prepare() of ?, of :c and of a text that names :c twice.
Prepare(text) ==
  /\ builder.kind = "none" /\ ~stmt.live /\ ~UsedBy("own", cursor)
  /\ stmt' = [NoStmt EXCEPT !.live = TRUE, !.text = text]
  /\ bound' = [bound EXCEPT !["own"] = ByPosition(text, <<>>)]
  /\ UNCHANGED <<driver, scope, builder, cursor, mishaps>>

\* bind(args...) by position, bind(object) by name.  The wrapper keeps a value,
\* and of a variable the reference.  SQLite refuses to bind a statement that ran
\* until it is reset.
Bind(v) ==
  /\ stmt.live /\ ~(stmt.ran /\ driver = "sqlite")
  /\ v \in Usable
  /\ LET values == [n \in DOMAIN stmt.text |-> v] IN
       /\ stmt' = [stmt EXCEPT !.keep = @ \cup {v}, !.meant = values]
       /\ bound' = [bound EXCEPT !["own"] = IF stmt.text[1] = None THEN ByPosition(stmt.text, values)
                                            ELSE ByName(stmt.text, values)]
  /\ "distinct" \in Rules => Len(stmt.text) = 1
  /\ UNCHANGED <<driver, scope, builder, cursor, mishaps>>

RunTrouble == Amiss(stmt.meant, Got(stmt.text, bound["own"]), {})

QueryStatement(r) ==
  /\ stmt.live /\ stmt.meant # <<>>
  /\ cursor[r].state = "none"
  /\ mishaps' = mishaps \cup RunTrouble \cup ReadToSend(bound["own"])
  /\ stmt' = [stmt EXCEPT !.ran = TRUE]
  /\ cursor' = [cursor EXCEPT ![r] = [NoCursor EXCEPT !.state = "open", !.of = "own"]]
  /\ UNCHANGED <<driver, scope, builder, bound>>

ExecuteStatement ==
  /\ stmt.live /\ stmt.meant # <<>>
  /\ mishaps' = mishaps \cup RunTrouble \cup Read(bound["own"])
  /\ stmt' = [stmt EXCEPT !.ran = TRUE]
  /\ UNCHANGED <<driver, scope, builder, cursor, bound>>

\* reset(): the bindings are cleared, the kept values are not.
Reset ==
  /\ stmt.live
  /\ stmt' = [stmt EXCEPT !.meant = <<>>, !.ran = FALSE]
  /\ bound' = [bound EXCEPT !["own"] = ByPosition(stmt.text, <<>>)]
  /\ UNCHANGED <<driver, scope, builder, cursor, mishaps>>

\* clearKeepAlives() is for when the bound values are not used any more.
ClearKeepAlives ==
  /\ stmt.live
  /\ "cleared" \in Rules => stmt.meant = <<>>
  /\ stmt' = [stmt EXCEPT !.keep = {}]
  /\ UNCHANGED <<driver, scope, builder, cursor, bound, mishaps>>

\* The wrapper goes with its kept values; its result sets keep the native
\* statement and what its parameters point at.
DropStatement ==
  /\ stmt.live
  /\ stmt' = NoStmt
  /\ bound' = [bound EXCEPT !["own"] = IF UsedBy("own", cursor) THEN @ ELSE <<>>]
  /\ cursor' = Left({r \in Results : cursor[r].of = "own"})
  /\ UNCHANGED <<driver, scope, builder, mishaps>>

\* query_with(): prepare, bind and query; the wrapper goes on return.
QueryWith(r, v) ==
  /\ cursor[r].state = "none"
  /\ v \in Usable
  /\ bound' = [bound EXCEPT ![r] = ByPosition(<<None>>, <<v>>)]
  /\ cursor' = [cursor EXCEPT ![r] = [NoCursor EXCEPT !.state = "open", !.of = r, !.bare = (driver = "sqlite")]]
  /\ UNCHANGED <<driver, scope, builder, stmt, mishaps>>

-----------------------------------------------------------------------------
(* SqlResult.                                                              *)

\* What SQLite reads to compute a row.
ReadToStep(r) ==
  IF driver # "sqlite" THEN {}
  ELSE IF cursor[r].bare /\ Elements(bound[cursor[r].of]) \cap Temps # {} THEN {"strayed"}
  ELSE Read(bound[cursor[r].of])

Next(r) ==
  /\ cursor[r].state = "open"
  /\ mishaps' = mishaps \cup ReadToStep(r)
  /\ \E state \in {"open", "ended"} : cursor' = [cursor EXCEPT ![r].state = state]
  /\ UNCHANGED <<driver, scope, builder, stmt, bound>>

\* A result set converted to another row type leaves its storage behind.
Convert(r) ==
  /\ cursor[r].state # "none"
  /\ cursor' = [Left({r}) EXCEPT ![r].store = {}]
  /\ UNCHANGED <<driver, scope, builder, stmt, bound, mishaps>>

DropResult(r) ==
  /\ cursor[r].state # "none"
  /\ cursor' = [cursor EXCEPT ![r] = NoCursor]
  /\ LET n == cursor[r].of IN
       bound' = [bound EXCEPT ![n] = IF UsedBy(n, cursor') \/ (n = "own" /\ stmt.live) THEN @ ELSE <<>>]
  /\ UNCHANGED <<driver, scope, builder, stmt, mishaps>>

-----------------------------------------------------------------------------
(* The program's variables.                                                *)

\* A variable that something refers to gets another value, or its scope ends.
Forget(v) ==
  /\ v \in scope \cap InUse
  /\ scope' = scope \ {v}
  /\ UNCHANGED <<driver, builder, stmt, cursor, bound, mishaps>>

-----------------------------------------------------------------------------

NextBuilder ==
  \/ \E kind \in Kinds : NewBuilder(kind)
  \/ \E v \in Values : Where(v) \/ On(v) \/ SetObject(v)
  \/ JoinNext \/ Project
  \/ \E c \in Columns, v \in Values : SetColumn(c, v) \/ SetGreatest(c, v)
  \/ ExecuteBuilder \/ DropBuilder
  \/ \E r \in Results : QueryBuilder(r) \/ LoopQuery(r)
  \/ \E rows \in [1..2 -> BOOLEAN] : InsertRows(rows)

NextStatement ==
  \/ \E text \in {<<None>>, <<Stamp>>, <<Stamp, Stamp>>} : Prepare(text)
  \/ \E v \in Values : Bind(v)
  \/ \E r \in Results : QueryStatement(r)
  \/ ExecuteStatement \/ Reset \/ ClearKeepAlives \/ DropStatement
  \/ \E r \in Results, v \in Values : QueryWith(r, v)

NextResult == \E r \in Results : Next(r) \/ Convert(r) \/ DropResult(r)

NextStep == NextBuilder \/ NextStatement \/ NextResult \/ \E v \in Variables : Forget(v)

Spec == Init /\ [][NextStep]_vars

-----------------------------------------------------------------------------
(* Properties.                                                             *)

\* Every placeholder of a statement that runs receives the value the program
\* wrote for it (the positions of SqlCondition::bindTo and UpdateBuilder::bind,
\* the names of NamedBinder, the cells of a batch insert), and every value the
\* program gave a builder, or a row of a batch, reaches the statement: no
\* condition, assignment or cell is lost on the way.
SlotsGetTheirValues == mishaps \cap {"misplaced", "dropped"} = {}

\* What the library keeps - a temporary in a builder, a statement wrapper or the
\* storage of a result set - is still there whenever a driver reads it: when a
\* statement is sent, and on SQLite at every step of a result set
\* (SQLITE_STATIC).  Two kinds of reads are excepted, "strayed" ones: of a
\* variable that the program has changed or left, of which the wrapper has no
\* copy although sqlstatement.hpp:56-60 promises one; and SQLite's for a result
\* set whose wrapper or generator is gone (as with query_with()), that was
\* converted to another type of row, or whose LambdaBinder has bound again.
NoFreedValueRead == "freed" \notin mishaps
=============================================================================
