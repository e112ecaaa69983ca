---------------------------- MODULE DriverValues ----------------------------
(***************************************************************************)
(* One value's way through a driver: bound to a parameter of a prepared    *)
(* statement, stored by the server in a column, fetched by a text query or *)
(* a prepared one, and loaded as a C++ type                                *)
(* (include/ilias/sql/interfaces.hpp, types.hpp, detail/coverter.hpp,      *)
(* src/sqlite/sqlite_parsers.cpp, src/mysql/mysql_parsers.cpp,             *)
(* src/mysql/sqlresult.cpp, src/postgres/postgres_parsers.cpp, and         *)
(* type_name in include/ilias/sql_orm/dialect.hpp).                        *)
(*                                                                         *)
(* A column has the type the ORM gives the value, or another program made  *)
(* and filled it.  Numbers are counted in halves, so that an odd one has a *)
(* fraction; widths of integers and the calendar are small.                *)
(***************************************************************************)
EXTENDS SqlDates, FiniteSets

CONSTANTS
  Drivers,  \* the drivers to look at
  Types,    \* the C++ types to bind and load
  None      \* no type

ASSUME KnownDrivers == Drivers \subseteq {"sqlite", "mysql", "postgres"}

VARIABLES
  driver,    \* the driver of the connection
  phase,     \* "ready", "bound", "stored" or "fetched"
  sent,      \* what the program bound: a type and a value
  param,     \* what the driver sends for it
  declared,  \* PostgreSQL: the type the statement was prepared for
  column,    \* the stored value, its SQL type, and whether it is the one sent
  cell,      \* the SqlCellView of the fetched row
  got        \* what as<T>() gave: T, whether it is optional, the outcome

vars == <<driver, phase, sent, param, declared, column, cell, got>>

\* Every value has a kind, a number and a date; most use one of them.
Num(k, n)     == [k |-> k, n |-> n, d |-> ErrorDate]
Dated(k, d)   == [k |-> k, n |-> 0, d |-> d]
Null          == Num("null", 0)

Width == [bool |-> 1, char |-> 2, int8 |-> 2, int16 |-> 3, int32 |-> 4, int64 |-> 5,
          tiny |-> 2, small |-> 3, int |-> 4, big |-> 5]
Ints(t) == IF t = "bool" THEN {0, 1} ELSE (0 - 2^(Width[t] - 1))..(2^(Width[t] - 1) - 1)
Halves  == {-32, -3, -1, 0, 1, 2, 3, 5, 31}
Floats  == {-4, -2, 0, 2, 4}            \* a float has one binary digit less

IntTypes  == {"bool", "char", "int8", "int16", "int32", "int64"}
RealTypes == {"float", "double"}
TextKinds == {"number", "tailed", "truth", "word", "nul", "hex", "bytes", "datetext"}

\* The dates a program can make: constructors, set functions and texts.
Made ==
  LET moments == {AtTime(t) : t \in {-5, -4, -1, 0, 1, 2, 9}}
                   \cup {AtLocal(2, m, d, 1, 1) : m \in 0..2, d \in 1..3}
  IN moments \cup {OnDate(2, m, d) : m \in {1, 2}, d \in 1..4} \cup {AtClock(c) : c \in 0..2}
       \cup {FromText([day |-> <<>>, clock |-> <<1>>, frac |-> <<1>>])}
       \cup {FromLocalText(LocalTextOf(d)) : d \in moments}

Bindable(t) ==
  CASE t \in IntTypes -> {Num("int", 2 * i) : i \in Ints(t)}
    [] t = "enum"     -> {Num("int", 2 * i) : i \in {0, 5}}
    [] t = "float"    -> {Num("real", h) : h \in Floats}
    [] t = "double"   -> {Num("real", h) : h \in Halves}
    [] t = "text"     -> {Num("number", 4), Num("word", 0), Num("nul", 0)}
    [] t = "blob"     -> {Num("blob", 0), Num("blob", 1)}
    [] t = "date"     -> {Dated("date", d) : d \in Made}
    [] OTHER          -> {}

-----------------------------------------------------------------------------
(* Binding.                                                                *)

\* What IStatement::bind() looks a binder up by: a view of a text or a span
\* of bytes stands for every type of text or blob, an enum for its number.
Key(t) == CASE t = "enum" -> "int32" [] t \in {"text", "view"} -> "chars"
            [] t \in {"blob", "blobview"} -> "bytes" [] OTHER -> t

Binders ==
  LET shared == {"null", "bool", "int8", "int32", "int64", "float", "double", "chars", "date"}
  IN [sqlite |-> shared \cup {"char", "bytes"}, mysql |-> shared \cup {"char", "bytes"},
      postgres |-> shared \cup {"int16"}]

Sends(as, size, v) == [as |-> as, size |-> size, v |-> v]
Refusal            == Sends("refused", 0, Null)
Bytes == [bool |-> 1, int8 |-> 1, int16 |-> 2, int32 |-> 4, int64 |-> 8, float |-> 4, double |-> 8]

\* SQLite takes any integer as 64 bits, and dates as texts.
SqliteParam(t, v) ==
  Sends(t, 0, CASE t # "date"          -> v
                [] v.d.type = "error" -> Null
                [] OTHER              -> Dated("datetext", TextOf(v.d)))

MysqlParam(t, v) == IF t = "date" /\ v.d.type = "error" THEN Refusal ELSE Sends(t, 0, v)

\* PostgreSQL: the binary form with its declared type; a one-byte integer is
\* declared int4, and the name TIMESTAMP is not in the map of type names.
PgParam(t, v) ==
  CASE t \in {"null", "chars"} -> Sends(IF t = "chars" THEN "text" ELSE "unknown", 0, v)
    [] t = "date" -> Sends("unknown", 8, Dated("date", Moment(Timestamp(v.d))))
    [] OTHER      -> Sends(IF t = "int8" THEN "int32" ELSE t, Bytes[t], v)

Param(t, v) ==
  CASE Key(t) \notin Binders[driver] -> Refusal
    [] driver = "sqlite"             -> SqliteParam(Key(t), v)
    [] driver = "mysql"              -> MysqlParam(Key(t), v)
    [] driver = "postgres"           -> PgParam(Key(t), v)

-----------------------------------------------------------------------------
(* The server.  SQL types are named for what they are: SQLite's INTEGER is *)
(* "big" and its REAL "double".                                            *)

ColumnFor(t) ==
  CASE t \in {"bool", "char", "int8", "int16", "int32", "int64", "enum"} /\ driver = "sqlite" -> "big"
    [] t \in RealTypes /\ driver = "sqlite" -> "double"
    [] t = "date" /\ driver = "sqlite"      -> "text"
    [] t = "bool"              -> IF driver = "mysql" THEN "tiny" ELSE "bool"
    [] t \in {"char", "int8"}  -> IF driver = "mysql" THEN "tiny" ELSE "int"
    [] t = "int16" -> "small" [] t = "int32" -> "int" [] t = "int64" -> "big"
    [] t \in RealTypes -> t [] t = "date" -> "stamp" [] t = "blob" -> "blob"
    [] OTHER -> "text"

\* What a column of another program can hold.
Contents(sql) ==
  {Null} \cup
  CASE sql \in {"bool", "tiny", "small", "int", "big"} -> {Num("int", 2 * i) : i \in Ints(sql)}
    [] sql = "float" -> {Num("real", h) : h \in Floats}
    [] sql \in {"double", "decimal"} -> {Num("real", h) : h \in Halves}
    [] sql = "text"  -> {Num("number", -3), Num("number", 4), Num("number", 40), Num("tailed", 4), Num("truth", 1), Num("word", 0)}
                          \cup (IF driver # "postgres" THEN {Num("nul", 0)} ELSE {})
    [] sql = "blob"  -> {Num("blob", 0), Num("blob", 1)}
    [] sql = "stamp" -> {Dated("date", Moment(t)) : t \in {-5, -4, -2, 0, 3}}
    [] sql = "day"   -> {Dated("date", OnDate(2, 1, 2))}
    [] sql = "clock" -> {Dated("date", [AtClock(1) EXCEPT !.micro = f]) : f \in {0, 2}}

\* The types of columns that are looked at, which MySQL's UNSIGNED ones are not
\* (sqlresult.cpp:486, 573).
SqlTypes ==
  [sqlite   |-> {"big", "double", "text", "blob"},
   mysql    |-> {"tiny", "small", "int", "big", "float", "double", "decimal", "text", "blob", "stamp", "day", "clock"},
   postgres |-> {"bool", "small", "int", "big", "float", "double", "decimal", "text", "blob", "stamp", "day"}]

\* What the server makes of a parameter, None where it refuses.  The MySQL
\* driver gives a fraction in other units, and a server may round it away.
Kept(sql, p) ==
  CASE p.v = Null        -> {Null}
    [] driver = "sqlite" -> {p.v}
    [] driver = "mysql" /\ p.as = "date" ->
         CASE p.v.d.type = "time" -> {None}
           [] p.v.d.month \in 1..2 /\ p.v.d.day <= MonthDays[p.v.d.month] ->
                {Dated("date", [p.v.d EXCEPT !.type = "datetime", !.micro = 0])}
                  \cup (IF p.v.d.micro = 0 THEN {} ELSE {None})
           [] OTHER -> {None}
    [] driver = "postgres" /\ p.v.k = "nul" -> {None}
    [] driver = "postgres" /\ p.as \in DOMAIN Bytes /\ p.size # Bytes[p.as] -> {None}
    [] sql = "text" /\ p.v.k = "int" -> {Num("number", p.v.n)}
    [] OTHER -> {p.v}

\* A statement is prepared for the types of the values it first ran with.
\* Later values are read as those: refused, or some other value.
Read(sql, p) ==
  IF p.v = Null \/ driver # "postgres" \/ declared \in {None, p.as} \/ (declared = "unknown" /\ (sql = "text" => p.as = "text"))
  THEN Kept(sql, p) ELSE {None, CHOOSE v \in Contents(sql) : v \notin {p.v, Null}}

-----------------------------------------------------------------------------
(* A fetched cell: a native value (SQLite), a text with the type of its    *)
(* column, or a pointer to the value (MySQL's and PostgreSQL's prepared    *)
(* statements).                                                            *)

AsText(sql, v) ==
  CASE sql = "bool"           -> Num("truth", v.n)
    [] v.k \in {"int", "real"} -> Num("number", v.n)
    [] v.k = "date"           -> Dated("datetext", TextOf(v.d))
    [] v.k = "blob" /\ driver = "postgres" -> Num("hex", v.n)
    [] OTHER                  -> v

PointedTo == {"tiny", "small", "int", "big", "float", "double"}

Cell(form, sql, v) == [form |-> form, sql |-> sql, v |-> v]

\* Fault: a NULL is not told from a value.
CellOfAnything(prepared, sql, v) ==
  IF driver = "sqlite" THEN Cell("native", sql, v) ELSE Cell("text", sql, AsText(sql, v))

CellOf(prepared, sql, v) ==
  CASE v = Null             -> Cell("null", sql, v)
    [] driver = "sqlite"    -> Cell("native", sql, v)
    [] prepared /\ driver = "mysql" /\ sql \in PointedTo -> Cell("pointer", sql, v)
    [] prepared /\ driver = "postgres" -> Cell("binary", sql, v)
    [] OTHER                -> Cell("text", sql, AsText(sql, v))

-----------------------------------------------------------------------------
(* The parsers.  Each gives the set of its outcomes: one, except where a   *)
(* conversion is undefined or reads bytes of another type.                 *)

Outcome(how, v) == [how |-> how, v |-> v]
Gives(v)        == {Outcome("value", v)}
Unsupported     == {Outcome("error", Null)}
IsNull          == {Outcome("null", Null)}

\* Fault: a negative number loses its sign.
CastUnsigned(t, i) == IF t = "bool" THEN IF i = 0 THEN 0 ELSE 1 ELSE i % 2^(Width[t] - 1)

\* static_cast<T> of an integer.
Cast(t, i) ==
  IF t = "bool" THEN IF i = 0 THEN 0 ELSE 1
  ELSE ((i + 2^(Width[t] - 1)) % 2^Width[t]) - 2^(Width[t] - 1)

Whole(n) == IF n >= 0 THEN n \div 2 ELSE 0 - ((0 - n) \div 2)

\* Narrowing to a float: to the even neighbour.
Rounded(t, h) ==
  IF t = "double" \/ h % 2 = 0 THEN h ELSE IF ((h - 1) \div 2) % 2 = 0 THEN h - 1 ELSE h + 1

GiveInt(t, i)  == Gives(Num("int", 2 * Cast(t, i)))
AnyInt(t)      == {Outcome("value", Num("int", 2 * i)) : i \in Ints(t)}
GiveReal(t, h) == Gives(Num("real", Rounded(t, h)))
AnyReal        == {Outcome("value", Num("real", h)) : h \in Halves}

\* from_chars of an integer: the leading digits, and whether they are all of
\* the text; nothing where there are none or they do not fit.
Leading(v) ==
  CASE v.k \in {"number", "tailed"} -> {[i |-> Whole(v.n), all |-> v.k = "number" /\ v.n % 2 = 0]}
    [] v.k = "datetext" /\ v.d # NoDateText -> {[i |-> Part(v.d.day \o v.d.clock, 1), all |-> FALSE]}
    [] OTHER -> {}

IntOf(t, v)    == UNION {IF r.i \in Ints(t) THEN Gives(Num("int", 2 * r.i)) ELSE Unsupported : r \in Leading(v)}
Strict(t, as, v) ==
  UNION {IF r.all /\ r.i \in Ints(as) THEN GiveInt(t, r.i) ELSE Unsupported : r \in Leading(v)}
OrError(rs)    == IF rs = {} THEN Unsupported ELSE rs

TextDate(v) == Gives(Dated("date", IF v.k = "datetext" THEN FromText(v.d) ELSE ErrorDate))

\* SQLite.  A text is read as a C string, up to its first NUL.
SqliteInt(t, v) ==
  CASE v.k = "int"  -> GiveInt(t, v.n \div 2)
    [] v.k = "real" -> IF Whole(v.n) \in Ints(t) THEN GiveInt(t, Whole(v.n)) ELSE AnyInt(t)
    [] OTHER        -> OrError(IntOf(t, v))

SqliteBool(v) == {IF r.how = "value" THEN Outcome("value", Num("int", 2 * Cast("bool", r.v.n))) ELSE r : r \in SqliteInt("int32", v)}

SqliteReal(t, v) == IF v.k \in {"int", "real"} THEN GiveReal(t, v.n) ELSE Unsupported

CString(v) == IF v.k = "nul" THEN Num("word", 0) ELSE v

SqliteText(v) == IF v.k \in {"int", "real"} THEN Gives(Num("number", v.n)) ELSE Gives(CString(v))
SqliteView(v) == IF v.k \in {"int", "real"} THEN Unsupported ELSE Gives(CString(v))
SqliteDate(v) == IF v.k \in {"int", "real"} THEN Unsupported ELSE TextDate(CString(v))

\* MySQL.  Texts of integer columns are read whole, as a wide integer.
MysqlInt(t, c) ==
  CASE c.form = "pointer" -> IF c.v.k = "int" THEN GiveInt(t, c.v.n \div 2) ELSE Unsupported
    [] c.form = "text" /\ c.sql = "tiny" -> OrError(Strict(t, "int32", c.v))
    [] c.form = "text" /\ c.sql \in {"small", "int", "big", "decimal"} -> OrError(Strict(t, "int64", c.v))
    [] OTHER -> Unsupported

MysqlReal(t, c) ==
  CASE c.form = "pointer" -> IF c.v.k = "real" THEN GiveReal(t, c.v.n) ELSE Unsupported
    [] c.form = "text" /\ c.sql \in {"float", "small", "int", "big", "double", "decimal"} -> GiveReal(t, c.v.n)
    [] OTHER -> Unsupported

MysqlText(c) == IF c.form = "pointer" THEN Gives(Num("number", c.v.n)) ELSE Gives(c.v)
MysqlView(c) == IF c.form = "pointer" THEN Unsupported ELSE Gives(c.v)
MysqlBlob(c) == IF c.form = "pointer" THEN Unsupported ELSE Gives(IF c.v.k = "blob" THEN c.v ELSE Num("bytes", 0))
MysqlDate(c) == IF c.form = "text" /\ c.sql \in {"stamp", "day", "clock"} THEN TextDate(c.v) ELSE Unsupported

\* PostgreSQL's binary form is read by its size alone.
PgSize == [bool |-> 1, small |-> 2, int |-> 4, float |-> 4, day |-> 4, big |-> 8, double |-> 8, stamp |-> 8]
Sizes(sql) ==
  IF sql \in DOMAIN PgSize THEN {PgSize[sql]} ELSE IF sql = "decimal" THEN {8, 10} ELSE 0..9

PgBool(c) ==
  CASE c.form = "text"                  -> Gives(Num("int", IF c.v.k = "truth" /\ c.v.n # 0 THEN 2 ELSE 0))
    [] c.sql = "bool"                   -> Gives(c.v)
    [] OTHER                            -> AnyInt("bool")

PgInt(t, c) ==
  CASE c.form = "text"                           -> OrError(IntOf(t, c.v))
    [] c.sql \in {"bool", "small", "int", "big"} -> GiveInt(t, c.v.n \div 2)
    [] OTHER -> (IF Sizes(c.sql) \cap {1, 2, 4, 8} # {} THEN AnyInt(t) ELSE {})
                  \cup (IF Sizes(c.sql) \subseteq {1, 2, 4, 8} THEN {} ELSE Unsupported)

PgReal(t, c) ==
  CASE c.form = "text" -> IF c.v.k \in {"number", "tailed"} THEN GiveReal(t, c.v.n) ELSE Unsupported
    [] c.sql \in {"float", "double"} -> GiveReal(t, c.v.n)
    [] OTHER -> (IF Sizes(c.sql) \cap {4, 8} # {} THEN AnyReal ELSE {})
                  \cup (IF Sizes(c.sql) \subseteq {4, 8} THEN {} ELSE Unsupported)

PgText(c) == Gives(IF c.form = "text" \/ c.sql = "text" THEN c.v ELSE Num("bytes", 0))

\* The text form gives an owned blob, the binary one a view, whatever the
\* type the parser was looked up for.
PgBlob(t, c) ==
  CASE c.form = "text" /\ c.v.k = "hex" /\ t = "blob" -> Gives(Num("blob", c.v.n))
    [] c.form = "binary" /\ t = "blobview" -> Gives(IF c.v.k = "blob" THEN c.v ELSE Num("bytes", 0))
    [] OTHER -> Unsupported

\* A moment is cut to milliseconds; a day is a moment.
PgDate(c) ==
  CASE c.form = "text" -> TextDate(c.v)
    [] c.sql \in {"stamp", "day"} ->
         LET t == Instant(c.v.d)
         IN Gives(Dated("date", AtTime(IF t >= 0 THEN t - (t % Digit) ELSE t + ((0 - t) % Digit))))
    [] OTHER -> (IF Sizes(c.sql) \cap {4, 8} # {} THEN {Outcome("value", Dated("date", Moment(t))) : t \in {0, 3}} ELSE {})
                  \cup (IF Sizes(c.sql) \subseteq {4, 8} THEN {} ELSE Unsupported)

Parsers ==
  LET shared == {"null", "bool", "int8", "int32", "int64", "float", "double", "text", "view", "blob", "date"}
  IN [sqlite |-> shared \cup {"char"}, mysql |-> shared \cup {"char", "blobview"},
      postgres |-> shared \cup {"int16", "blobview"}]

ParseSqlite(t, v) ==
  CASE t = "bool"      -> SqliteBool(v)
    [] t \in IntTypes \ {"bool"} -> SqliteInt(t, v)
    [] t \in RealTypes -> SqliteReal(t, v)
    [] t = "text"      -> SqliteText(v)
    [] t = "view"      -> SqliteView(v)
    [] t = "date"      -> SqliteDate(v)
    [] OTHER           -> Unsupported    \* a blob is given as a span, which is no SqlBlob

ParseMysql(t, c) ==
  CASE t \in IntTypes  -> MysqlInt(t, c)
    [] t \in RealTypes -> MysqlReal(t, c)
    [] t = "text"      -> MysqlText(c)
    [] t = "view"      -> MysqlView(c)
    [] t \in {"blob", "blobview"} -> MysqlBlob(c)
    [] t = "date"      -> MysqlDate(c)
    [] OTHER           -> Unsupported

ParsePg(t, c) ==
  CASE t = "bool"      -> PgBool(c)
    [] t \in IntTypes \ {"bool"} -> PgInt(t, c)
    [] t \in RealTypes -> PgReal(t, c)
    [] t \in {"text", "view"} -> PgText(c)
    [] t \in {"blob", "blobview"} -> PgBlob(t, c)
    [] t = "date"      -> PgDate(c)
    [] OTHER           -> Unsupported

Parse(t, c) ==
  CASE c.form = "null"      -> IF t = "null" THEN Gives(Null) ELSE IsNull
    [] driver = "sqlite"    -> ParseSqlite(t, c.v)
    [] driver = "mysql"     -> ParseMysql(t, c)
    [] driver = "postgres"  -> ParsePg(t, c)

\* SqlCellView::as<T>(): a NULL is T{} for an optional type and for SqlDate.
As(t, optional, c) ==
  IF t \notin Parsers[driver] THEN Unsupported
  ELSE {CASE r.how = "null" /\ optional   -> Outcome("value", Null)
          [] r.how = "null" /\ t = "date" -> Outcome("value", Dated("date", ErrorDate))
          [] OTHER -> r : r \in Parse(t, c)}

-----------------------------------------------------------------------------

NoValue  == [t |-> None, v |-> Null]
NoColumn == [sql |-> None, v |-> Null, own |-> FALSE]
NoCell   == Cell("none", None, Null)
NotRead  == [t |-> None, optional |-> FALSE, out |-> Outcome("none", Null)]

Init ==
  /\ driver \in Drivers
  /\ phase = "ready"
  /\ sent = NoValue /\ param = Refusal /\ declared = None
  /\ column = NoColumn /\ cell = NoCell /\ got = NotRead

\* SqlBinder and IStatement::bind(): an empty optional binds NULL.
Bind(t, v) ==
  /\ phase # "fetched"
  /\ sent' = [t |-> t, v |-> v]
  /\ param' = IF v = Null THEN Param("null", v) ELSE Param(t, v)
  /\ phase' = IF param' = Refusal THEN "ready" ELSE "bound"
  /\ column' = NoColumn /\ cell' = NoCell /\ got' = NotRead
  /\ UNCHANGED <<driver, declared>>

\* The statement runs: PostgreSQL prepares it now, if it has not.
Execute ==
  /\ phase = "bound"
  /\ declared' = IF driver = "postgres" /\ declared = None THEN param.as ELSE declared
  /\ \E v \in Read(ColumnFor(sent.t), param) :
       /\ phase' = IF v = None THEN "ready" ELSE "stored"
       /\ column' = IF v = None THEN NoColumn ELSE [sql |-> ColumnFor(sent.t), v |-> v, own |-> TRUE]
  /\ UNCHANGED <<driver, sent, param, cell, got>>

\* A row of another program's table.
Foreign(sql, v) ==
  /\ phase = "ready" /\ sent = NoValue
  /\ phase' = "stored"
  /\ column' = [sql |-> sql, v |-> v, own |-> FALSE]
  /\ UNCHANGED <<driver, sent, param, declared, cell, got>>

Fetch(prepared) ==
  /\ phase = "stored"
  /\ phase' = "fetched"
  /\ cell' = CellOf(prepared, column.sql, column.v)
  /\ UNCHANGED <<driver, sent, param, declared, column, got>>

\* SqlResult::load() of the column.  It leaves the cell as it was, so one
\* load of a row stands for them all.
Load(t, optional) ==
  /\ phase = "fetched" /\ got = NotRead
  /\ \E r \in As(t, optional, cell) : got' = [t |-> t, optional |-> optional, out |-> r]
  /\ UNCHANGED <<driver, phase, sent, param, declared, column, cell>>

Next ==
  \/ \E t \in Types : \E v \in {Null} \cup Bindable(t) : Bind(t, v)
  \/ Execute
  \/ \E sql \in SqlTypes[driver] : \E v \in Contents(sql) : Foreign(sql, v)
  \/ \E prepared \in BOOLEAN : Fetch(prepared)
  \/ \E t \in Types, optional \in BOOLEAN : Load(t, optional)

Spec == Init /\ [][Next]_vars

-----------------------------------------------------------------------------
(* Properties.                                                             *)

Shape(v) == v.k \in {"null", "int", "real", "blob", "date"} \cup TextKinds /\ v.n \in Int

\* Each phase has what it needs: a parameter, a stored value, a cell.
TypeOK ==
  /\ driver \in Drivers /\ phase \in {"ready", "bound", "stored", "fetched"}
  /\ Shape(sent.v) /\ Shape(param.v) /\ Shape(column.v) /\ Shape(cell.v) /\ Shape(got.out.v)
  /\ phase = "bound" => param # Refusal
  /\ phase \in {"stored", "fetched"} <=> column # NoColumn
  /\ cell.form \in {"none", "null", "native", "text", "pointer", "binary"}
  /\ phase = "fetched" => cell.form # "none" /\ (cell.form = "null" <=> column.v = Null)
  /\ got.out.how \in {"none", "value", "null", "error"}
  /\ got.out.how # "none" => phase = "fetched"

\* The moment of a date, a day being its first moment.
SameMoment(a, b, within) == Instant(a) - Instant(b) \in 0..within

\* Values that a driver is known to change: SQLite's texts end at a NUL;
\* PostgreSQL stores an error date as the epoch, has no times of day, and
\* gives back moments before the epoch with a fraction of the wrong sign;
\* MySQL's column has neither times of day nor fractions, and is sent them in
\* the wrong unit; a time's fraction is not parsed; SqlDate makes a fraction
\* out of range from a moment before the epoch.
Lossy(v) ==
  \/ driver = "sqlite" /\ v.k = "nul"
  \/ /\ v.k = "date"
     /\ \/ v.d.micro >= Micros
        \/ driver = "sqlite" /\ v.d.type = "time" /\ v.d.micro # 0
        \/ driver = "mysql" /\ (v.d.type = "time" \/ v.d.micro # 0)
        \/ driver = "postgres" /\ v.d.type \in {"error", "time"}
        \/ driver = "postgres" /\ Instant(v.d) < 0 /\ (v.d.micro # 0 \/ Seconds(v.d) = -1)

\* Types the library binds and never loads: an enum has no parser; SQLite and
\* PostgreSQL's prepared statements give a view where SqlBlob is asked for.
Unreadable == [sqlite |-> {"enum", "blob"}, mysql |-> {"enum"}, postgres |-> {"enum", "blob"}]

\* A value written into the column the ORM makes for its type, and read back
\* as that type, is the value; a moment may lose less than a millisecond.
BoundComesBack ==
  (/\ column.own /\ got.out.how # "none" /\ got.t = sent.t
   /\ driver = "postgres" => declared \in {param.as, "unknown"}
   /\ sent.t \notin Unreadable[driver] /\ ~Lossy(sent.v) /\ sent.v # Null) =>
  /\ got.out.how = "value"
  /\ IF sent.t # "date" THEN got.out.v = sent.v
     ELSE SameMoment(sent.v.d, got.out.v.d, IF driver = "postgres" THEN Digit - 1 ELSE 0)

\* The C++ types that hold every value of a column.
Holders(sql) ==
  CASE sql \in {"tiny", "small", "int", "big"} -> {t \in {"int8", "int16", "int32", "int64"} : Width[t] >= Width[sql]}
    [] sql \in RealTypes -> {t \in RealTypes : t = "double" \/ sql = "float"}
    [] sql = "text"      -> {"text", "view"}
    [] OTHER             -> {}

\* What a column of SqlTypes holds is what is loaded, whoever wrote it and
\* whichever form it is fetched in: a NULL as an empty optional or an error date, or refused, and
\* nothing else as a NULL; and a column is read exactly, or not at all, as a type
\* that holds all of its values.
LoadsWhatIsStored ==
  /\ (got.out.how # "none" /\ got.t \in Parsers[driver] /\ got.t # "null") =>
       IF column.v = Null
       THEN IF got.optional THEN got.out.v = Null
            ELSE got.out.how = "null" \/ got.out.v = Dated("date", ErrorDate)
       ELSE got.out.v # Null \/ got.out.how = "error"
  /\ (got.out.how = "value" /\ column.v # Null /\ got.t \in Holders(column.sql)
        /\ ~(driver = "sqlite" /\ (column.v.k = "nul" \/ column.own))) =>
       got.out.v \in {column.v, Num("real", column.v.n)} /\ got.out.v.n = column.v.n

=============================================================================
