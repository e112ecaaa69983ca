------------------------------- MODULE FormTables -------------------------------
(***************************************************************************)
(* Form's calls that make or open a table                                  *)
(* (include/ilias/sql_orm/orm_form.hpp): create_or_replace,                *)
(* create_if_not_exists, attach, bind and transaction, each a coroutine    *)
(* that gives the event loop back at every command it sends, over one      *)
(* catalogue that other coroutines and programs use too.                   *)
(*                                                                         *)
(* The statements are those of TableSchemas; what a server makes of them   *)
(* is modelled here and external.  A command may fail for reasons of its   *)
(* own (the link, a lock, rows that a unique index does not take), and the *)
(* call may be told of an error although the server ran its command.       *)
(***************************************************************************)
EXTENDS TableSchemas

CONSTANTS
  Dialects,  \* the servers to look at
  Callers,   \* coroutines that open forms
  Tables,    \* names of tables
  Structs,   \* the C++ structs, by name
  Others,    \* tables that other programs have made: their columns' types, per server
  Calls      \* bound: calls that may be made

\* What a field and an item of a table's metadata can be.
Fields ==
  [name : Seq(STRING), type : FieldTypes, tags : SUBSET STRING, length : Int,
   ref : [table : Seq(STRING), column : Seq(STRING), onDelete : STRING, onUpdate : STRING]]

Items ==
  [kind : {"primary key", "unique", "check", "index"}, columns : Seq(Seq(STRING)), name : Seq(STRING), unique : BOOLEAN]

\* What made no table, and no struct of this program.
Strangers == {"none", "nobody", "another program"}

ASSUME DialectsKnown  == Dialects \subseteq {"sqlite", "mysql", "postgres"}
ASSUME StructsTyped   == \A s \in DOMAIN Structs : Structs[s] \in [columns : Seq(Fields), items : Seq(Items)]
ASSUME StructsCompile == \A s \in DOMAIN Structs : \A i \in DOMAIN Structs[s].columns : Compiles(Structs[s].columns[i])
ASSUME StructsNamed   == DOMAIN Structs \cap Strangers = {}
ASSUME CallsBounded   == Calls \in Nat

VARIABLES
  server,   \* sqlname() of the database
  tables,   \* the catalogue: columns with their reported types, keys, references, who made it
  indexes,  \* the indexes of the catalogue
  call,     \* per caller, the call it makes or made last, and what it answered
  left      \* calls that may still be made

vars == <<server, tables, indexes, call, left>>

Answers == {"none", "form", "InvalidParameter", "DialectNotSupported", "TableNotFound", "SchemaMismatch", "error"}

\* A call as it is made.  "own": the table is still as the call made or saw it;
\* "missed": the indexes whose statement failed.
Fresh(op, tag, struct, table) ==
  [op |-> op, tag |-> tag, struct |-> struct, table |-> table, step |-> "idle", at |-> 0,
   answer |-> "none", own |-> FALSE, missed |-> {}]

Idle == Fresh("none", "none", "none", <<>>)

NoTable == [columns |-> <<>>, keys |-> {}, refs |-> {}, generated |-> {}, by |-> "nobody"]

-----------------------------------------------------------------------------
(* The servers.                                                            *)

\* A dialect's quotes: SQLite takes them all, PostgreSQL no backticks, MySQL
\* nothing else.
Understands(tag) ==
  CASE server = "sqlite" -> TRUE [] server = "mysql" -> tag = "mysql" [] server = "postgres" -> tag # "mysql"

MysqlName ==
  [TINYINT |-> "tinyint", SMALLINT |-> "smallint", INT |-> "int", BIGINT |-> "bigint", DOUBLE |-> "double",
   DATETIME |-> "datetime", BLOB |-> "blob", VARCHAR |-> "varchar", TEXT |-> "text"]

PgName(name) ==
  CASE name = "SERIAL"    -> "integer" [] name = "BIGSERIAL" -> "bigint"
    [] name = "TIMESTAMP" -> "timestamp without time zone"
    [] name = "VARCHAR"   -> "character varying"
    [] OTHER              -> Lower(name)

\* SQLite reports a type as it was declared, here by a name that Inside knows;
\* MySQL writes no capitals, and PostgreSQL says which time stamp it is.
ASSUME OthersReported ==
  \A d \in Dialects : \A other \in Others[d] : \A n \in DOMAIN other :
    /\ d = "sqlite" => other[n].name \in {"INTEGER", "BIGINT", "REAL", "FLOAT", "DOUBLE", "TEXT", "VARCHAR", "BLOB"}
    /\ d = "mysql" => other[n].name \notin DOMAIN MysqlName
    /\ d = "postgres" => other[n].name # "timestamp"

\* The type a server reports of a column declared with another.
Reported(type) ==
  CASE server = "sqlite"   -> type
    [] server = "mysql"    -> [type EXCEPT !.name = MysqlName[@]]
    [] server = "postgres" -> [type EXCEPT !.name = PgName(@)]

\* KEY behind a MySQL column is PRIMARY KEY.
PrimaryOf(col) ==
  "primary_key" \in col.attributes \/ (server = "mysql" /\ "index" \in col.attributes)

PrimaryKeys(schema) ==
  {{c.name} : c \in {x \in Words(schema.columns) : PrimaryOf(x)}}
    \cup {Words(k.columns) : k \in {x \in schema.constraints : x.kind = "primary key"}}

Keys(schema) ==
  PrimaryKeys(schema) \cup {{c.name} : c \in {x \in Words(schema.columns) : "unique" \in x.attributes}}
    \cup {Words(k.columns) : k \in {x \in schema.constraints : x.kind = "unique"}}

References(schema) == {k.ref.table : k \in {x \in schema.constraints : x.kind = "foreign key"}}

\* MySQL has no keys over TEXT and BLOB, and keeps the time in DATETIME columns
\* only; PostgreSQL has no moments in numbers.
Indexable(type) == server # "mysql" \/ type.name \notin {"TEXT", "BLOB", "text", "blob"}

TypesFit(schema) ==
  \A c \in Words(schema.columns) :
    /\ server = "mysql" /\ c.attributes \cap {"created_at", "updated_at"} # {} => c.type.name = "DATETIME"
    /\ server = "postgres" /\ "created_at" \in c.attributes => c.type.name \in {"TIMESTAMP", "TEXT", "VARCHAR"}
    /\ c.name \in UNION Keys(schema) => Indexable(c.type)

Accepts(schema, table) ==
  /\ Cardinality(PrimaryKeys(schema)) <= 1
  /\ TypesFit(schema)
  /\ server = "sqlite" \/ \A k \in schema.constraints : k.kind = "foreign key" =>
       IF k.ref.table = table THEN {k.ref.column} \in Keys(schema)
       ELSE tables[k.ref.table] # NoTable /\ {k.ref.column} \in tables[k.ref.table].keys

Generated(schema) ==
  {c.name : c \in {x \in Words(schema.columns) :
                     "auto_increment" \in x.attributes \/ x.type.name \in {"SERIAL", "BIGSERIAL"}}}

Made(schema, struct) ==
  [columns   |-> [n \in Names(schema) |-> Reported(ColumnOf(schema, n).type)],
   keys      |-> Keys(schema),
   refs      |-> References(schema),
   generated |-> Generated(schema),
   by        |-> struct]

\* A table that another one refers to stays, where references are enforced.
Droppable(table) ==
  server = "sqlite" \/ \A t \in Tables \ {table} : tables[t] # NoTable => table \notin tables[t].refs

\* Indexes have the database's names, in MySQL their table's.
Taken(ix) == \E other \in indexes : other.name = ix.name /\ (server # "mysql" \/ other.table = ix.table)

IndexAccepted(ix) ==
  /\ ~Taken(ix)
  /\ tables[ix.table] # NoTable
  /\ \A n \in Words(ix.columns) : n \in DOMAIN tables[ix.table].columns /\ Indexable(tables[ix.table].columns[n])

\* What an index is for.
Shape(ix) == <<Words(ix.columns), ix.unique>>

-----------------------------------------------------------------------------
(* The calls.                                                              *)

SchemaOf  == [d \in Dialects |-> [s \in DOMAIN Structs |-> [t \in Tables |-> TableSchema(d, Structs[s], t)]]]
Schema(k) == SchemaOf[k.tag][k.struct][k.table]

\* What _create_table_impl() finds wrong before it sends anything.
Objection(k) ==
  CASE k.tag # server -> "DialectNotSupported"
    [] k.tag = server /\ (~NamesValid(Structs[k.struct], k.table) \/ Schema(k) = NoSchema) -> "InvalidParameter"
    [] OTHER -> "none"

\* A call that is over is remembered for as long as it has the table.
Over(k) == IF k.own THEN k ELSE [Idle EXCEPT !.answer = k.answer]

Answer(k, answer) == Over([k EXCEPT !.step = "idle", !.answer = answer])

\* A call that is to create its table next, if nothing speaks against it.
Creating(k) ==
  IF Objection(k) = "none" THEN [k EXCEPT !.step = "create"] ELSE Answer(k, Objection(k))

\* A call, and all of them, when a table changes.
Disown(k, table) ==
  LET rest == [k EXCEPT !.own = k.own /\ k.table # table]
  IN IF k.step = "idle" THEN Over(rest) ELSE rest

Disowned(table) == [c \in Callers |-> Disown(call[c], table)]

Started(op, tag, struct, table) ==
  LET k == Fresh(op, tag, struct, table)
      named == NamesValid(Structs[struct], table)
  IN CASE op = "create_if_not_exists" -> Creating(k)
       [] op = "bind" /\ tag # server -> Answer(k, "DialectNotSupported")
       [] op # "create_if_not_exists" /\ ~(op = "bind" /\ tag # server) /\ ~named -> Answer(k, "InvalidParameter")
       [] op = "bind" /\ tag = server /\ named -> Answer(k, "form")
       [] op = "create_or_replace" /\ named -> [k EXCEPT !.step = "drop"]
       [] op = "attach" /\ named -> [k EXCEPT !.step = "describe"]
       [] op = "transaction" /\ named -> [k EXCEPT !.step = "begin"]

Start(c, op, tag, struct, table) ==
  /\ call[c].step = "idle" /\ left > 0
  /\ left' = left - 1
  /\ call' = [call EXCEPT ![c] = Started(op, tag, struct, table)]
  /\ UNCHANGED <<server, tables, indexes>>

\* A command that the server refuses or never sees.
Refused(c) ==
  /\ call[c].step \in {"drop", "create", "describe", "begin"}
  /\ call' = [call EXCEPT ![c] = Answer(@, "error")]
  /\ UNCHANGED <<server, tables, indexes, left>>

\* DROP TABLE IF EXISTS; the rest is looked at when the table is gone, if the
\* answer is not lost.
Drop(c) ==
  LET t == call[c].table
  IN /\ call[c].step = "drop" /\ Understands(call[c].tag) /\ Droppable(t)
     /\ tables' = [tables EXCEPT ![t] = NoTable]
     /\ indexes' = {ix \in indexes : ix.table # t}
     /\ \E k \in {Creating(call[c]), Answer(call[c], "error")} : call' = [Disowned(t) EXCEPT ![c] = k]
     /\ UNCHANGED <<server, left>>

\* The places of a call's indexes behind another.
Behind(k, last) == {p \in DOMAIN Schema(k).indexes : p > last}

\* Fault: the next place is taken, whether or not it has an index.
IndexingNext(k, last) ==
  IF Behind(k, last) = {} THEN Answer(k, "form") ELSE [k EXCEPT !.step = "index", !.at = last + 1]

\* The call goes on with its next index, or has its form.
Indexing(k, last) ==
  LET rest == Behind(k, last)
  IN IF rest = {} THEN Answer(k, "form")
     ELSE [k EXCEPT !.step = "index", !.at = CHOOSE p \in rest : \A q \in rest : p <= q]

\* Fault: create_or_replace says IF NOT EXISTS too.
CreateUnlessThere(c) ==
  LET k == call[c]
  IN /\ k.step = "create"
     /\ \/ /\ tables[k.table] = NoTable /\ Accepts(Schema(k), k.table)
           /\ tables' = [tables EXCEPT ![k.table] = Made(Schema(k), k.struct)]
        \/ tables[k.table] # NoTable /\ UNCHANGED tables
     /\ call' = [Disowned(k.table) EXCEPT ![c] =
          Indexing([k EXCEPT !.own = (k.op = "create_or_replace" \/ tables[k.table] = NoTable)], 0)]
     /\ UNCHANGED <<server, indexes, left>>

\* CREATE TABLE, whose answer may be lost; with IF NOT EXISTS for
\* create_if_not_exists.
Create(c) ==
  LET k == call[c]
  IN /\ k.step = "create"
     /\ \/ /\ tables[k.table] = NoTable /\ Accepts(Schema(k), k.table)
           /\ tables' = [tables EXCEPT ![k.table] = Made(Schema(k), k.struct)]
           /\ LET owner == [k EXCEPT !.own = TRUE] IN
                \E then \in {Indexing(owner, 0), Answer(owner, "error")} : call' = [Disowned(k.table) EXCEPT ![c] = then]
        \/ /\ tables[k.table] # NoTable /\ k.op = "create_if_not_exists"
           /\ call' = [call EXCEPT ![c] = Indexing(k, 0)]
           /\ UNCHANGED tables
     /\ UNCHANGED <<server, indexes, left>>

\* CREATE INDEX; a failure, or a lost answer, is written to the log.
CreateIndex(c) ==
  LET k  == call[c]
      ix == Schema(k).indexes[k.at]
  IN /\ k.step = "index"
     /\ \/ /\ IndexAccepted(ix)
           /\ indexes' = indexes \cup {ix}
           /\ call' = [call EXCEPT ![c] = Indexing(k, k.at)]
        \/ /\ indexes' = indexes \/ (IndexAccepted(ix) /\ indexes' = indexes \cup {ix})
           /\ call' = [call EXCEPT ![c] = Indexing([k EXCEPT !.missed = @ \cup {Shape(ix)}], k.at)]
     /\ UNCHANGED <<server, tables, left>>

\* _validate_schema(): every column of the struct is there, with a type its
\* dialect takes; what else the table has does not matter.
Usable(k) ==
  \A c \in Words(Structs[k.struct].columns) :
    /\ c.name \in DOMAIN tables[k.table].columns
    /\ Compatible(k.tag, c, tables[k.table].columns[c.name])

\* The schema query of attach() is a text of the tag's dialect.
Describe(c) ==
  LET k == call[c]
  IN /\ k.step = "describe" /\ k.tag = server
     /\ call' = [call EXCEPT ![c] =
          CASE tables[k.table] = NoTable -> Answer(k, "TableNotFound")
            [] tables[k.table] # NoTable /\ Usable(k)  -> Answer([k EXCEPT !.own = TRUE], "form")
            [] tables[k.table] # NoTable /\ ~Usable(k) -> Answer([k EXCEPT !.own = TRUE], "SchemaMismatch")]
     /\ UNCHANGED <<server, tables, indexes, left>>

\* transaction(): a form over a new transaction, whatever the table is.
Begin(c) ==
  /\ call[c].step = "begin"
  /\ call' = [call EXCEPT ![c] = Answer(@, "form")]
  /\ UNCHANGED <<server, tables, indexes, left>>

Ops == {"create_or_replace", "create_if_not_exists", "attach", "bind", "transaction"}

Foreign(columns) == [columns |-> columns, keys |-> {}, refs |-> {}, generated |-> {}, by |-> "another program"]

Init ==
  /\ server \in Dialects
  /\ \/ tables = [t \in Tables |-> NoTable]
     \/ \E t \in {x \in Tables : ValidName(x)}, other \in Others[server] :
          tables = [[x \in Tables |-> NoTable] EXCEPT ![t] = Foreign(other)]
  /\ indexes = {}
  /\ call = [c \in Callers |-> Idle]
  /\ left = Calls

Next ==
  \/ \E c \in Callers, op \in Ops, tag \in Dialects, s \in DOMAIN Structs, t \in Tables : Start(c, op, tag, s, t)
  \/ \E c \in Callers : Refused(c) \/ Drop(c) \/ Create(c) \/ CreateIndex(c) \/ Describe(c) \/ Begin(c)

Spec == Init /\ [][Next]_vars

-----------------------------------------------------------------------------
(* Properties.                                                             *)

TypeOK ==
  /\ server \in Dialects /\ left \in 0..Calls
  /\ \A t \in Tables : tables[t] # NoTable => tables[t].by \in DOMAIN Structs \cup {"another program"}
  /\ \A ix \in indexes : ix.table \in Tables /\ tables[ix.table] # NoTable
  /\ \A c \in Callers :
       /\ call[c].answer \in Answers /\ call[c].step \in {"idle", "drop", "create", "index", "describe", "begin"}
       /\ call[c].step = "index" => call[c].at \in DOMAIN Schema(call[c]).indexes
       /\ call[c].own => tables[call[c].table] # NoTable

WholeNumbers == {"INTEGER", "BIGINT", "tinyint", "smallint", "int", "bigint", "integer"}

\* The reported types a field can be read from, as the drivers' parsers do.
Readable(c) ==
  CASE c.type \in Integral -> WholeNumbers \cup {"boolean"}
    [] c.type = "double"   -> {"REAL", "DOUBLE", "FLOAT", "double", "double precision"} \cup WholeNumbers
    [] c.type = "text"     -> {"TEXT", "VARCHAR", "text", "varchar", "character varying"}
    [] c.type = "date"     -> {"TEXT", "VARCHAR", "datetime", "timestamp without time zone"}
    [] c.type = "blob"     -> {"BLOB", "blob", "bytea"}
    [] c.type = "enum"     -> WholeNumbers \cup {"text"}

\* A struct's columns are in a table, with types they can be read from.
Serves(table, s) ==
  \A c \in Words(s.columns) : c.name \in DOMAIN table.columns /\ table.columns[c.name].name \in Readable(c)

\* The answer of a call is true.  A form that create_or_replace or attach gave
\* has its columns in the table, as long as no call replaces the table.  A call
\* whose answer is an error may have dropped the old table or made its own, if
\* the server ran the command and its answer was lost; but what it made is the
\* whole table, and a call that objected to its parameters made none.
AnswerIsTrue ==
  \A c \in Callers :
    LET k == call[c]
    IN k.own =>
         /\ k.answer = "form" \/ k.op \in {"create_or_replace", "create_if_not_exists"} =>
              Serves(tables[k.table], Structs[k.struct])
         /\ k.op \in {"create_or_replace", "create_if_not_exists"} => k.answer \in {"none", "form", "error"}

\* What attach cannot take back of what create made: MySQL's names of types
\* in small letters, PostgreSQL's name of a time stamp, and a short number
\* that its serial type makes longer.
NotTakenBack(s) ==
  \/ server = "mysql"
  \/ server = "postgres" /\ \E c \in Words(s.columns) :
       c.type = "date" \/ ("auto_increment" \in c.tags /\ c.type = "int16")

\* attach does not refuse a table that the same struct has made.
AttachTakesOwn ==
  \A c \in Callers : LET k == call[c] IN
    (k.answer = "SchemaMismatch" /\ k.own /\ tables[k.table].by = k.struct) => NotTakenBack(Structs[k.struct])

\* What a struct declares.
Tagged(s, tag) == {c.name : c \in {x \in Words(s.columns) : tag \in x.tags}}

DeclaredKeys(s) ==
  {{n} : n \in Tagged(s, "primary_key") \cup Tagged(s, "unique")}
    \cup {Words(it.columns) : it \in {x \in Words(s.items) : x.kind \in {"primary key", "unique"}}}

\* The columns and uniqueness of the indexes a struct declares.
DeclaredIndexes(s) ==
  {<<{n}, FALSE>> : n \in (Tagged(s, "index") \ Tagged(s, "unique"))}
    \cup {<<Words(it.columns), it.unique>> : it \in {x \in Words(s.items) : x.kind = "index"}}

\* A table that a call made has the keys, the references, the generated
\* columns and the indexes that its struct declares; but MySQL makes a key of
\* an indexed column, SQLite generates primary keys only, and an index is
\* missing if its own statement failed.
TableAsDeclared ==
  \A c \in Callers : LET k == call[c]
                         s == Structs[k.struct]
                         t == tables[k.table] IN
    (k.answer = "form" /\ k.own /\ k.op \in {"create_or_replace", "create_if_not_exists"}) =>
      /\ t.keys = DeclaredKeys(s) \/ (server = "mysql" /\ Tagged(s, "index") # {})
      /\ t.refs = {x.ref.table : x \in Words(s.columns)} \ {<<>>}
      /\ t.generated = Tagged(s, "auto_increment") \cap
                          (IF server = "sqlite" THEN Tagged(s, "primary_key") ELSE Names(s))
      /\ DeclaredIndexes(s) \subseteq k.missed \cup {Shape(ix) : ix \in {x \in indexes : x.table = k.table}}

=============================================================================
