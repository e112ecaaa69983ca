------------------------------ MODULE TableSchemas ------------------------------
(***************************************************************************)
(* From a C++ struct to a table: the tags of its fields                    *)
(* (include/ilias/sql_orm/detail/orm_types.hpp), the statements generated  *)
(* of them (detail/schema_generator.hpp), and what each dialect puts in    *)
(* them and accepts of an existing table (sql_orm/dialect.hpp).            *)
(*                                                                         *)
(* A name is the sequence of the words between its underscores.  A struct  *)
(* has the columns of its fields that are not ignored, and the items of    *)
(* its SqlTableMeta.  A type is the name a dialect writes, or a server     *)
(* reports, with the number in its parentheses (0 for none).               *)
(***************************************************************************)
EXTENDS Integers, Sequences, FiniteSets

Integral == {"bool", "int8", "int16", "int32", "int64"}
Numeric  == Integral \cup {"double"}
Size     == [bool |-> 1, int8 |-> 1, int16 |-> 2, int32 |-> 4, int64 |-> 8]

FieldTypes == Numeric \cup {"text", "date", "blob", "enum"}

NoReference == [table |-> <<>>, column |-> <<>>, onDelete |-> "no action", onUpdate |-> "no action"]

\* A field: its name, its type, its SqlTags and the flags of its metadata
\* ("default", "collation"), its length and what it refers to.
Column(name, type, tags) ==
  [name |-> name, type |-> type, tags |-> tags, length |-> 0, ref |-> NoReference]

Words(s)  == {s[i] : i \in DOMAIN s}
Names(s)  == {s.columns[i].name : i \in DOMAIN s.columns}
ColumnOf(s, name) == CHOOSE c \in Words(s.columns) : c.name = name

\* A word with another character than a letter, a digit or an underscore.
BadWord == "not a word"

ValidName(name) == name # <<>> /\ BadWord \notin Words(name)

\* What the tags of a type that can have them are, for both checks below.
Fits(c) ==
  /\ "auto_increment" \in c.tags => c.tags \cap {"primary_key", "unique", "index"} # {} /\ c.type \in Integral
  /\ "unsigned_type" \in c.tags => c.type \in Numeric \ {"bool"}
  /\ c.length > 0 => c.type = "text"
  /\ ~({"created_at", "updated_at"} \subseteq c.tags)
  /\ c.tags \cap {"created_at", "updated_at"} # {} => c.type \in {"date", "text", "int32", "int64"}

\* SqlTags::constexpr_check(): what the compiler takes.
Compiles(c) ==
  Fits(c) /\ ("primary_key" \in c.tags => {"not_null", "unique"} \subseteq c.tags)

\* SqlTags::getValidationErrors(): none.
TagsValid(c) ==
  Fits(c) /\ c.length >= 0 /\ ~(c.type = "bool" /\ "auto_increment" \in c.tags)

\* SqlColumnMetadata::getValidationErrors().
ColumnValid(c) ==
  /\ TagsValid(c)
  /\ "default" \in c.tags => c.tags \cap {"created_at", "auto_increment"} = {}
  /\ (c.ref.table = <<>>) = (c.ref.column = <<>>)
  /\ c.ref.onDelete # "no action" \/ c.ref.onUpdate # "no action" => c.ref.table # <<>>
  /\ "set null" \in {c.ref.onDelete, c.ref.onUpdate} => c.tags \cap {"not_null", "primary_key"} = {}
  /\ "collation" \in c.tags => c.type = "text"

\* Form::_validate_identifier_metadata().
NamesValid(s, table) ==
  /\ ValidName(table)
  /\ \A i \in DOMAIN s.columns :
       /\ ValidName(s.columns[i].name)
       /\ \A j \in DOMAIN s.columns : s.columns[i].name = s.columns[j].name => i = j

-----------------------------------------------------------------------------
(* The dialects.                                                           *)

Type(name, arg) == [name |-> name, arg |-> arg, unsigned |-> FALSE]

SqliteType(c) ==
  Type(CASE c.type \in Integral \cup {"enum"} -> "INTEGER"
         [] c.type = "double" -> "REAL"
         [] c.type = "blob"   -> "BLOB"
         [] OTHER             -> "TEXT", 0)

\* A text that is a key has a length, so that MySQL can index it.
Text(c) ==
  CASE c.length > 0 -> Type("VARCHAR", c.length)
    [] c.length <= 0 /\ c.tags \cap {"primary_key", "unique", "index"} # {} -> Type("VARCHAR", 255)
    [] OTHER -> Type("TEXT", 0)

MysqlType(c) ==
  CASE c.type = "bool"    -> Type("TINYINT", 1)
    [] c.type \in Integral \ {"bool"} ->
         [Type(CASE Size[c.type] = 1 -> "TINYINT" [] Size[c.type] = 2 -> "SMALLINT"
                 [] Size[c.type] = 4 -> "INT" [] OTHER -> "BIGINT", 0)
          EXCEPT !.unsigned = "unsigned_type" \in c.tags]
    [] c.type = "double"  -> Type("DOUBLE", 0)
    [] c.type = "date"    -> Type("DATETIME", 0)
    [] c.type = "blob"    -> Type("BLOB", 0)
    [] c.type = "text"    -> Text(c)
    [] OTHER              -> Type("TEXT", 0)

PgType(c) ==
  CASE c.type = "bool"    -> Type("BOOLEAN", 0)
    [] c.type \in Integral \ {"bool"} ->
         Type(CASE Size[c.type] = 2 -> "SMALLINT" [] Size[c.type] = 8 -> "BIGINT" [] OTHER -> "INTEGER", 0)
    [] c.type = "double"  -> Type("DOUBLE PRECISION", 0)
    [] c.type = "date"    -> Type("TIMESTAMP", 0)
    [] c.type = "blob"    -> Type("BYTEA", 0)
    [] c.type = "text"    -> Text(c)
    [] OTHER              -> Type("TEXT", 0)

\* A column definition: its name, its type and the attributes behind it.
Definition(c, type, attributes) == [name |-> c.name, type |-> type, attributes |-> attributes]

\* The attributes every dialect writes, under the names of their tags.
Shared(c) ==
  (c.tags \cap {"not_null", "primary_key", "default"})
    \cup (IF "primary_key" \in c.tags THEN {} ELSE c.tags \cap {"unique"})
    \cup (IF "default" \in c.tags THEN {} ELSE c.tags \cap {"created_at"})

\* SQLite knows AUTOINCREMENT of a primary key only.
SqliteColumn(c) ==
  Definition(c, SqliteType(c),
    Shared(c) \cup (IF "primary_key" \in c.tags THEN c.tags \cap {"auto_increment"} ELSE {}))

MysqlColumn(c) ==
  Definition(c, MysqlType(c),
    Shared(c) \cup (c.tags \cap {"auto_increment", "updated_at"})
      \cup (IF c.tags \cap {"primary_key", "unique"} = {} THEN c.tags \cap {"index"} ELSE {}))

\* A serial type takes the place of the type of a generated column.
PgColumn(c) ==
  Definition(c,
    IF "auto_increment" \notin c.tags THEN PgType(c)
    ELSE Type(IF Size[c.type] <= 4 THEN "SERIAL" ELSE "BIGSERIAL", 0), Shared(c))

ColumnDefinition(d, c) ==
  CASE d = "sqlite" -> SqliteColumn(c) [] d = "mysql" -> MysqlColumn(c) [] d = "postgres" -> PgColumn(c)

Index(name, table, columns, unique) ==
  [name |-> name, table |-> table, columns |-> columns, unique |-> unique]

\* The columns with an index: keys have one by themselves.
Indexed(s) ==
  {i \in DOMAIN s.columns :
     "index" \in s.columns[i].tags /\ s.columns[i].tags \cap {"primary_key", "unique"} = {}}

ColumnIndex(table, c) == Index(<<"idx">> \o table \o c.name, table, <<c.name>>, FALSE)

-----------------------------------------------------------------------------
(* SchemaGenerator.  An item of a table's metadata has a kind, its columns *)
(* and, an index, a name and whether it is unique.                         *)

Item(kind, columns) == [kind |-> kind, columns |-> columns, name |-> <<>>, unique |-> FALSE]

Placed(s, kind) == {i \in DOMAIN s.items : s.items[i].kind = kind}

\* appendTableItem(): what throws.
ItemsValid(s) ==
  /\ \A i \in DOMAIN s.items : Cardinality(Words(s.items[i].columns)) = Len(s.items[i].columns)
  /\ \A i, j \in Placed(s, "primary key") : i = j
  /\ \A i \in Placed(s, "primary key") :
       /\ \A c \in Words(s.columns) : "primary_key" \notin c.tags
       /\ \A n \in Words(s.items[i].columns) :
            "auto_increment" \notin ColumnOf(s, n).tags /\ "not_null" \in ColumnOf(s, n).tags

Constraint(kind, columns, ref) == [kind |-> kind, columns |-> columns, ref |-> ref]

\* The constraints behind the columns, whose order says nothing.
Constraints(s) ==
  {Constraint("foreign key", <<c.name>>, c.ref) : c \in {x \in Words(s.columns) : x.ref.table # <<>>}}
    \cup {Constraint(it.kind, it.columns, NoReference) : it \in {x \in Words(s.items) : x.kind # "index"}}

\* The indexes in the order of their statements: each at the place of its
\* column or, behind the columns, of its item.
Indexes(table, s) ==
  LET behind == Len(s.columns)
  IN [p \in Indexed(s) \cup {behind + i : i \in Placed(s, "index")} |->
        IF p <= behind THEN ColumnIndex(table, s.columns[p])
        ELSE LET it == s.items[p - behind] IN Index(it.name, table, it.columns, it.unique)]

\* validateTableConfiguration(): the first column that is not valid throws.
ColumnsValid(s) == \A c \in Words(s.columns) : ColumnValid(c)

NoSchema == [columns |-> <<>>, constraints |-> {}, indexes |-> <<>>]

\* Fault: the indexes of the metadata are overwritten with the columns' own.
TableSchemaOverwritten(d, s, table) ==
  IF s.columns = <<>> \/ ~ItemsValid(s) \/ ~ColumnsValid(s) THEN NoSchema
  ELSE [columns     |-> [i \in DOMAIN s.columns |-> ColumnDefinition(d, s.columns[i])],
        constraints |-> Constraints(s),
        indexes     |-> [p \in Indexed(s) |-> ColumnIndex(table, s.columns[p])]]

\* generateTableSchema().
TableSchema(d, s, table) ==
  IF s.columns = <<>> \/ ~ItemsValid(s) \/ ~ColumnsValid(s) THEN NoSchema
  ELSE [columns     |-> [i \in DOMAIN s.columns |-> ColumnDefinition(d, s.columns[i])],
        constraints |-> Constraints(s),
        indexes     |-> Indexes(table, s)]

-----------------------------------------------------------------------------
(* attach(): what a dialect takes for a usable column.                     *)

\* The names SQLite's dialect looks for that a declared type holds.
Inside(name) ==
  CASE name \in {"INTEGER", "BIGINT"} -> {"INT"}
    [] OTHER                          -> {name}

SqliteCompatible(c, type) ==
  CASE SqliteType(c).name = "INTEGER" -> "INT" \in Inside(type.name)
    [] SqliteType(c).name = "REAL"    -> Inside(type.name) \cap {"REAL", "FLOAT", "DOUBLE"} # {}
    [] OTHER                          -> SqliteType(c).name \in Inside(type.name)

\* Up to the parentheses, letter by letter: "INT" is not "int".
MysqlCompatible(c, type) ==
  MysqlType(c).name = type.name /\ MysqlType(c).unsigned = type.unsigned

Lower(name) ==
  CASE name = "BOOLEAN" -> "boolean" [] name = "SMALLINT" -> "smallint" [] name = "INTEGER" -> "integer"
    [] name = "BIGINT" -> "bigint" [] name = "TIMESTAMP" -> "timestamp" [] name = "BYTEA" -> "bytea"
    [] name = "TEXT" -> "text" [] name = "DOUBLE PRECISION" -> "double precision" [] name = "VARCHAR" -> "varchar"

\* Fault: "character varying" is not taken for VARCHAR.
PgCompatibleByName(c, type) == type = Type(Lower(PgType(c).name), PgType(c).arg)

PgCompatible(c, type) ==
  IF PgType(c).name = "VARCHAR" THEN type = Type("character varying", PgType(c).arg)
  ELSE type = Type(Lower(PgType(c).name), 0)

Compatible(d, c, type) ==
  CASE d = "sqlite" -> SqliteCompatible(c, type)
    [] d = "mysql" -> MysqlCompatible(c, type)
    [] d = "postgres" -> PgCompatible(c, type)

=============================================================================
