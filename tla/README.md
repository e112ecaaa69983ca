# IliasMySql: verification project

TLA+ models of the IliasMySql SQL library (C++23 coroutines over libpq, SQLite and the
MariaDB connector), the TLC runs that check them on small instances, and theorems that
TLAPS proves for every value of the constants. Paths are relative to the repository's
root.

## 1. The system

A program opens a `SqlDatabase`, which asks the `DriverManager` for an `IConnection`.
Commands go through `SqlApiMixin` (`execute`, `query`, `prepare`, `query_with`) or the
ORM (`Form`, builders) to the connection, and come back as `SqlResult` and
`SqlStatement` wrappers around `IResultSet` and `IStatement`. A `SqlTransaction` is a
handle on the same connection: while one is begun the database refuses direct use.

Everything awaits. Coroutines of one event loop interleave at every `co_await`; the
SQLite driver also runs its calls on a pool of threads (`blocking()`). One connection
object is shared by its result sets and statements through `shared_ptr`, and their
destructors touch the connection. That is where the hard behaviours come from: what was
tested before an await is used after it; two readers share one stream of results; an
object that dies late or early takes someone else's rows, handle or values with it.

| Component | State it keeps | Operations | Interacts with | What makes it correct |
|---|---|---|---|---|
| `SqlDatabase`, `SqlTransaction` (`src/sql/sqldatabase.cpp`) | `mConnection`, `mInTransaction`; per handle `mState`, `mOwnsTransaction`, pointer | `transaction`, `rebegin`, `commit`, `rollback`, destructor, move, `close`, direct commands | any driver, server session | one transaction at a time; a lock always has an owner and is released; commit keeps, rollback erases; direct writes are never caught in a transaction; no handle on a dead connection |
| PostgreSQL driver (`src/postgres/postgres.cpp`) | `PGconn`, poller; result sets with `mCurrentResult`, `mEndOfResults`; statements with `mPrepared` and a name | connect, query, execute, prepare, next, ping, disconnect, destructors that drain or deallocate, syncRollback | libpq's one stream of results | each command's rows reach its own result set in order; "no more" means all; one reader of the stream; every call returns; `mPrepared` is true of the session |
| SQLite driver (`src/sqlite/sqlite.cpp`) | `shared_ptr<sqlite3>`, `shared_ptr<sqlite3_stmt>` in every object | connect, disconnect, prepare, query, execute, next, reset, close, destructors | pool threads, SQLite | rows and counts are a command's own; a handle is closed exactly when nothing needs it |
| MySQL driver (`src/mysql/*.cpp`) | `MYSQL`, the pending result; sets with `mResult` | query, execute, prepare, statement query/execute/reset, next (store, fetch, advance), connect, disconnect, destructors | connector's suspended calls | as PostgreSQL; the connection is never out of sync without a reader |
| Wrappers (`sqlstatement.hpp`, `sqlresult.hpp`, `sql_base_api.hpp`) | `mKeepAlive`, `mStorage` | bind, query, execute, reset, clearKeepAlives, range, moves and conversions | drivers, which keep pointers | no driver reads a value after its holder is gone |
| ORM builders and conditions (`orm_builder.hpp`, `orm_condition.hpp`, `orm.cpp`) | clauses, binders | where, on, join, select, set, execute, query, loop | wrappers | placeholders and bindings agree; nothing is dropped |
| Table operations, `Form` (`orm_table_ops.hpp`, `orm_form.hpp`) | table name, reference to a database or transaction | create, replace, attach, bind, CRUD, batch insert, upsert | builders, dialects, schema generator | cells reach their columns; a created form has its table and unique indexes |
| Placeholder parser (`placeholder_parser.hpp`) | name to ordinal | parse | statements | an ordinal per placeholder of the text, none in quotes or comments |
| Driver registry, plugins (`driver_registry.cpp`, `sql_plugin.hpp`) | factories, library handles | register, load, create, unload at exit | everything | a connection's code outlives it; a failed create is an error |
| Values (`types.hpp`, `*_parsers.cpp`, `coverter.hpp`) | `SqlDate`, registries of converters | parse, bind, convert | drivers | conversions invert each other or report an error |
| Schema, dialects, tags (`schema_generator.hpp`, `dialect.hpp`, `orm_types.hpp`) | none (compile-time tags) | generate, validate | `Form` | a schema's tags are accepted exactly when the DDL is |
| Errors (`sqlerror.hpp`, `enhanced_error.hpp`), options, console table, build files | none | tables, parsing, printing | | |

## 2. Modules

| Module | Models | Kind |
|---|---|---|
| `TransactionLock` | what the transaction machinery promises: one holder, taken only when free | abstract |
| `SqlTransactions` | `SqlDatabase`, its handles, the session behind it, for the three drivers | detailed, refines `TransactionLock` |
| `SqlTransactions_proofs` | its theorems | proofs |
| `PgConnection` | the PostgreSQL driver and libpq's stream | detailed |
| `PgConnection_proofs` | its theorems | proofs |
| `SqliteHandles` | the SQLite driver, its pool and its shared pointers | detailed |
| `SqliteHandles_proofs` | its theorems: on ownership without a rule, on rows and counts under the rules | proofs |
| `MysqlResults` | the MySQL driver's results and statements | detailed |
| `MysqlResults_proofs` | its theorems | proofs |
| `BoundValues` | values of placeholders from builder, batch or statement to the driver | detailed |
| `BoundValues_proofs` | its theorems | proofs |
| `OrmStatements` | conditions, assignments, builders and merges, and what servers make of them | algorithm and state machine |
| `OrmStatements_proofs` | its theorems | proofs |
| `Placeholders` | the lexer of placeholders and its rewriting, against the servers' reading | algorithm |
| `SqlDates` | `SqlDate`: constructors, texts, time stamps over a small calendar | operators |
| `DriverValues` | binders, stored columns, cells and parsers of the three drivers; EXTENDS `SqlDates` | state machine |
| `TableSchemas` | tags, generated statements, type names of the three dialects | operators |
| `FormTables` | `Form`'s calls that make or open tables, by several coroutines; EXTENDS `TableSchemas` | state machine |
| `FormTables_proofs` | its theorems | proofs |
| `DriverRegistry` | `DriverManager`, plugin libraries, objects made of their code | state machine |
| `DriverRegistry_proofs` | its theorems | proofs |
| `MC...` | constants and symmetry sets for TLC | instances |

The drivers are modelled apart from `SqlTransactions`, which needs of them only what
their begin, commit and rollback report; `BoundValues` needs only how each one numbers
placeholders and when it reads them. Composing everything would multiply states without
adding an interaction that the code has.

### SqlTransactions

A call that awaits is three steps: `Call...` up to the await, `Serve` (the server
executes the statement, or refuses it) and `Return...` after it. Coroutines interleave
between them. `backend` chooses what the drivers report: SQLite passes a refusal on,
MySQL and PostgreSQL reduce the answer to a `bool` inside a success, which
`SqlTransaction` never looks at (`sqldatabase.cpp:66`, `:100`). The session keeps its
transaction, and the writers whose writes are uncommitted (`dirty`) or kept; SQLite may
roll back by itself on an error, PostgreSQL aborts the transaction, MySQL's `START
TRANSACTION` commits what was open. MySQL's begin, commit and rollback are two
statements each, of which one turns autocommit off or on (`server.auto`): `ServeFirst`
and `ServeSecond`, and either may fail alone.

`unread` is the one result set that still has rows on the wire, "held" by the program or
"left" behind by a MySQL set that was dropped. Until `EndResult` libpq sends nothing
(`Refuses`) and MySQL's calls are out of sync (`OutOfSync`), which the drivers report as
success for a BEGIN, COMMIT or ROLLBACK. `slipped` remembers that this has happened, or
that the session was left outside autocommit mode. `SyncRollback` is the destructor's
rollback: PostgreSQL's reads off what is unread first, MySQL's fails. `running` ends
with a second `close()`, which dereferences a null connection.

Two constants say how the program uses the API. `Overlap`: may a call start while
another is suspended? `FreeRebegin`: may a finished handle be restarted while the
database is closed or in a transaction? Both TRUE is all the API allows; both FALSE is
the documented use, one transaction after the other.

### PgConnection

`conn.queue` is libpq's stream; each result in it carries the set that asked for it,
which the driver cannot see. `CallQuery` sends; `ReturnFlushed` sets single-row mode,
`ReturnFirst` reads the first result and classifies it, `Drain` is
`drainRemainingResults`, `ReturnNext` is `next()`; `Destroy` is the destructor that
reads the stream to its end whoever's it is; `ReturnPrepare` and `ReturnPrepared` are
`ensurePrepared`; `DropStatement` drops the name's deleter, which captures a moved-from
pointer (`postgres.cpp:897-904`) and so deallocates nothing on the server. `LoseServer`
breaks the link at any moment. `Rules` are what clients keep to: finished sets are
destroyed before the next command ("sets"), and nothing is in use during connect,
disconnect or a synchronous rollback ("session").

Abstractions: the loss of the link is seen when libpq notices it; `connect` is one step
whose failure may leave the object "half" connected, as the code does; the transaction
commands are queries here and are treated in `SqlTransactions`; a `COPY` has no results
here, since the driver does nothing about one.

### SqliteHandles

`handle` and `vdbe` are the `sqlite3` and `sqlite3_stmt` objects, `obj` what each result
set and statement shares. A call starts on the event loop (`Call...`), works on a pool
thread (`Work...`, one step because of SQLite's mutex) and returns (`Return...`).
`Share`, `Closed` and the deleters are the `shared_ptr` counts: a handle closes when the
last object lets go, and `sqlite3_close` refuses while a statement lives. `connect()`
opens on its thread and writes `mSqlite` later (`WorkOpen`, `WorkConnect`),
`disconnect()` resets it there, and no lock keeps the event loop from copying it
meanwhile: `Copied` then also gives a torn copy, which has a handle but no share in its
count. The object is `bare`, and its handle may be closed under it ("lost"). `counts`
has, per handle, the calls whose write `sqlite3_changes()` counts or counted before a
later write. Rules: "one" (a statement is reset before it is run again, no set is read
past its end), "plain" (no `INSERT ... RETURNING` in `execute()`), "session" (no
disconnect during an `execute()`). While a torn copy is about no further command is
started, since what one does on a freed handle is undefined.

### MysqlResults

`conn.head` is the result announced and not stored, `conn.more` those that follow.
`query()` reads the header only; `next()` is `Store`, `Fetch` and `Advance`, each from
whatever the connection holds then. Every command is a call and, after its await, an
answer (`sent`); `turn` is the `next()` under way. The connector keeps one suspended
call per `MYSQL`, and the driver does nothing to have only one. `Overlap` is a call
started over a suspended one: the link is "mixed", what was suspended comes back with
anything or never (`Stray`), and only what is alive is followed from there on. Rules:
"finish" (other sets are at their end before a command, or hold their only result),
"drain" (no set is destroyed before its end), "plain" (`execute()` is given one result
without rows). Left out: a poll that fails while a prepared statement is suspended,
`MysqlStatement::close()` (no caller but a second `prepare()` of one object), reuse of a
closed `MYSQL`, row counts.

### BoundValues

One coroutine builds a statement with a builder, a prepared `SqlStatement` or a batch
insert, and reads result sets of earlier ones. Every call is one step: no interleaving
matters to the lifetime of values within one coroutine. A value is a variable, which the
wrappers keep a reference of (`StorageType_t` of an lvalue), or a temporary, alive while
a builder, wrapper or result holds it; texts and blobs are meant, since SQLite copies
numbers. `Forget` is a variable that gets another value or leaves its scope while
something refers to it. MySQL and PostgreSQL read values when the statement is sent,
SQLite at every step. SQLite numbers equal names alike, the other drivers by position.
`builder.on` has the values of the `ON` conditions given so far, and `due` says that the
table joined last has none yet: `on()` adds its value then, and replaces the last one
otherwise. A batch has two rows, the first of which chooses the columns. `mishaps`
records what went wrong with a value at the moment it does: "freed" is a read of what
the library should keep, "strayed" one of what nobody keeps by its design, which is a
variable that was forgotten, or for SQLite the values of a result set whose wrapper,
generator or storage is gone (`bare`: `query_with`, a converted result, a `LambdaBinder`
bound again). Rules: "distinct" (a column is named once in a statement with names),
"once" (an `ON`, a `WHERE` or an insert's object is given once, where a second one
replaces the first), "whole" (no `select()` on a join with bound values, no further
`join()` after its `WHERE`), "uniform" (rows of a batch leave out the same cells),
"cleared" (`clearKeepAlives()` is not called while values are bound). TLC shows that
each rule is needed: without any one of them `SlotsGetTheirValues` (every placeholder
has its own value and nothing is dropped) or `NoFreedValueRead` fails.

Assumptions: an object literal counts as one value; a SQLite statement that ran is reset
before it is bound again; `loop()` is one iteration (its later iterations reset the
shared cursor, which `SqliteHandles` treats); the conflict columns of an upsert are
valid.

### OrmStatements

A condition is the words of its text and its bound values, as `SqlCondition` keeps them;
beside it stands what the C++ expression means, which the code has not. `Compare`, `In`,
`Between`, `And`, `Negated`... are the operators of `orm_condition.hpp` and `orm.cpp`,
with their diagnostics. `Reading` reads a text with SQL's precedence and its three truth
values: it is a recursive function that takes a text to the value of each row, by the
values of its parts (`Parsed`), and `Holds` applies it to a row of the table. `hand` is
a stack of conditions: `Combine` joins the two on top, `Negate` and
`CompareWithCondition` change the top one, so that a condition can be any expression. A
statement is one step (`Select`, `Join`, `Delete`, `Update`, `Insert`, `Upsert`): the
builder folds its arguments, refuses a diagnostic, and the server runs the text on one
table; no await lies between building and sending, so no other coroutine matters.

The properties leave out, each by name: a condition used as an operand, which drops its
values (`orm_condition.hpp:236`); a function that gives NULL, and NULL in a list, which
SQL reads otherwise than C++; a projected join's `ON`, which is not looked at; merges
that PostgreSQL refuses (an ambiguous bare column, `orm_builder.hpp:937`); the larger of
a value and NULL on SQLite and MySQL; MySQL meeting another unique column than the one
named. `Bounded` limits the expressions and calls that TLC goes through; the theorems
need no bound. On `delete()` and `update()` a second `where()` replaces the first, on
`select()` it adds: the model has both.

### Placeholders

`Lexed` is `for_each_sql_placeholder()`, one state of the lexer per character;
`Rewritten` and `Counted` are its users. `Server` is each server's own lexer (external),
with the constructions in which it differs marked `odd`: the property lists them.
`Write` lets a text grow by a piece, so every reachable state is one text and the run is
an exhaustive comparison of the two lexers.

### SqlDates and DriverValues

`SqlDates` has the arithmetic of `SqlDate` over a calendar of two months, with words
that wrap. `DriverValues` takes one value through `Bind`, `Execute`, `Fetch` and `Load`:
`Param` is each driver's binder, `Kept` and `Read` the server's (external), `CellOf` the
form a cell has in the text and the prepared protocol, and `ParseSqlite`, `ParseMysql`,
`ParsePg` the parsers' tables. `Foreign` puts a row of another program there instead.
Widths are counted in a few bits, so that each boundary is in the instance. A parser
that reads bytes of another type, or a cast without a defined result, gives a set of
outcomes. A statement may be bound and run again: PostgreSQL prepares it for the types
of its first values. `Lossy` and `Unreadable` name what does not come back, with the
reasons.

### TableSchemas and FormTables

`TableSchemas` translates the two checks of tags, the generator and the dialects' type
names, from a struct to columns, constraints and indexes. An index stands at the place
of its column, or of its item after the columns, in the order in which
`_create_table_impl` sends them. `FormTables` runs `create_or_replace`,
`create_if_not_exists`, `attach`, `bind` and `transaction` over a catalogue: a command
is a step (`Drop`, `Create`, `CreateIndex`, `Describe`, `Begin`) and the calls of
several coroutines interleave between commands. `Refused` is a command that the server
refuses or never sees; `Drop`, `Create` and `CreateIndex` may also be executed with
their answer lost, and the call then ends in an error although the table is gone, or
made. `own` says that nobody has touched the table since the call made or saw it: what
`create_or_replace` promises holds until another caller replaces the table. Names are
sequences of words, because generated index names join them: `idx_a_b_c` has two
origins. What servers accept and report is external.

### DriverRegistry

`Open`, then `Refuse` or `Keep`, is `loadPlugin()`, which never suspends, so nothing
comes between; `handles` is the loader's count. `Create`, `Connected`, `Derive` and
`Destroy` run code of a library, through `Call`, which crashes if the library is not
mapped. `EndMain` and `CloseAll` are the end of the process, where `~DriverManager()`
runs after the objects constructed later and before the `Early` ones; it closes the
libraries first, and then its member `drivers_` goes, one factory at a time
(`DestroyFactory`). The crashes that are real are listed in `CodeIsMapped`: the
destructor of an object that outlives the manager; a driver that registered itself from
a library that was then closed, when its factory is called and at the latest when it is
destroyed; and a plugin that made no connection.

## 3. Runs

| Run | Question | Instance | Distinct states |
|---|---|---|---|
| `tx_sequential` | In documented use, does each driver keep the transaction's word, and does the lock refine `TransactionLock` and get released? | 2 handles and direct use, 1 unread result, 3 drivers | 592 thousand |
| `tx_any_use` | Under any overlap and restart, can the database stay locked with no owner? | the same, all usage | 2.7 million |
| `tx_commit_lost` | violation: a commit reported as success keeps the writes | PostgreSQL | |
| `pg_tidy` | Do two coroutines on one connection get their own rows, all of them, and do calls return although the link may be lost? | 2 coroutines, 2 sets, 1 statement, 2 rows | 299 thousand |
| `sqlite_shared` | Rows, counts and handles while coroutines share, disconnect and reconnect, also under each other's feet | 2 coroutines, 2 sets, 1 statement, 2 handles, 2 vdbes, 0 or 2 rows | 2.0 million |
| `mysql_tidy` | Rows and pending results of text and prepared commands; the link may be lost and calls may be started over each other | 2 sets, 1 statement, 2 rows, 2 results | 304 thousand |
| `bound_values` | Does every value reach its placeholder, and is what the library keeps there when a driver reads it? | 2 temporaries, 1 variable, 2 columns, 2 results, 3 placeholders, 3 drivers | 449 thousand |
| `orm_statements` | Does a condition mean to the server what it means in C++, and do statements touch only the rows they mean? | conditions of 2 or 3 leaves, tables of 2 rows with 3 columns, 3 servers | 152 thousand |
| `placeholders` | Do lexer and server agree on every text? | texts of 5 pieces from 4 alphabets of 7 pieces, 3 servers | 224 thousand |
| `value_travel` | Does a value come back as it was bound, and is a column loaded as what it holds? | 14 C++ types, all their values at small widths, 3 drivers | 139 thousand |
| `form_tables` | Is a form's table the one its struct declares, whatever fails, gets lost or comes between? | 2 coroutines, 3 calls, 4 structs, 3 table names, 3 servers | 705 thousand |
| `driver_registry` | Is code that is called still mapped, down to the last factory, and is each open library accounted for? | 6 libraries, 3 objects, 1 built-in driver | 4 thousand |

**Why the bounds are enough.** The hazards are between two actors: one that holds a
transaction, stream, handle or result, and one that takes it. Two handles (with direct
use as a third actor), two coroutines, or two sets with a statement give every such
pair; a third adds only more of the same pair. Two rows tell "none", "some" and "all"
apart, so a lost, repeated or stolen row shows; 0 rows is in every instance. Two results
of a command give a first and a last. Two SQLite handles are needed for a reconnect
under an old object, and two vdbes for a statement and a direct query. Three
placeholders let a value be shifted with a neighbour on either side.

In the runs over data the bound is where a case first happens. A condition of three
leaves is the least in which a missing parenthesis changes a meaning, and the leaves
have every operator. A table of two rows has one that a statement means and one that it
does not. Five pieces open, fill and close a quote or comment and have a placeholder
inside and one behind. Each integer has its own number of bits, so that "narrower", "as
wide" and "wider" occur for every pair; numbers are counted in halves, so that a
fraction can be lost. Three calls of `Form` are a table made, replaced by another
caller, and attached. The six libraries are two good ones of one name, one with a
built-in driver's name, and one for each way to be refused.

There are no counters without bound, and no state constraints: each bound is a constant
of the module, named as one (`MaxRows`, `MaxSlots`, `MaxPieces`, `Calls`), or a
condition of an action that says so (`Push` in `OrmStatements`, where `Bounded` is TRUE,
and the start of a command in `SqliteHandles`, which waits until no torn copy is about).

**Symmetry** is declared only in runs without liveness (`tx_any_use`, `sqlite_shared`,
`bound_values`, `form_tables`), over sets whose members no definition tells apart.

**Deadlock** is checked where the system may not stop. `BoundTidy.cfg`,
`Placeholders.cfg`, `ValueTravel.cfg`, `FormTables.cfg` and `DriverRegistry.cfg` switch
it off: a program that has left its scope, a text of the longest length, a value that
was loaded, a coroutine without calls left and a process that has ended are done.

**Fairness.** `tx_sequential`: the server answers each statement (`WF` on `Serve`), the
event loop resumes answered calls (`WF` on `Return...`), and the `SqlTransaction` that
owns the lock leaves its scope in the end; that one is `SF` because a call in flight
disables the destructor again and again. Without it nothing in the code would unlock
(there is no time-out). `pg_tidy`: the loop resumes a call whose socket is ready (`WF`
on `Resume`), which libpq guarantees by an answer or by noticing the loss. `mysql_tidy`:
whoever has called is resumed (`WF` on `Resume`), which stops being promised when
another call is started over it. No run assumes fairness of calls the program chooses to
make. The other runs check safety only.

## 4. Findings

`tx_commit_lost`: PostgreSQL's `commit()` reports success whatever the answer
(`postgres.cpp:1246`), and `SqlTransaction` does not look at the answer
(`sqldatabase.cpp:66`); the run gives a trace in which a reported commit loses its
writes.

Other behaviour that a user may not expect is in the models without a run of its own: a
passing run sets it aside by the rule or the exception named here.

* `begin()` never looks at `mInTransaction` (`sqldatabase.cpp:94`): with `FreeRebegin`
  two handles share a transaction and the first to end unlocks the other's. On SQLite an
  automatic rollback leaves the handle begun, so its later writes are committed one by
  one (`WritesLandAsReported` states what holds).
* A transaction that commits, rolls back or ends while a result set of it is unread (as
  `README.md:736-748` reads it: `begin()` looks at the first row only) is not ended on
  the servers. libpq refuses to send (`postgres.cpp:529`) and MySQL's calls are out of
  sync (`mysql.cpp:143-146`), both reported as success; the lock is released, and later
  direct writes land in the transaction that is still open. MySQL's destructor does not
  roll back either (`mysql.cpp:305`, `:782`). MySQL is left out of autocommit mode when
  `START TRANSACTION` fails after `SET autocommit` (`mysql.cpp:765`). `slipped` says so,
  and `WritesLandAsReported` holds until then; SQLite never slips.
* `close()` has no check for a closed database (`sqldatabase.cpp:30-35`): the second one
  dereferences null (`running`).
* Destroying a finished PostgreSQL set reads off the next command's rows
  (`postgres.cpp:645`; rule "sets"), and statement names are never deallocated
  (`postgres.cpp:901`).
* SQLite's `execute()` makes one step and reads `sqlite3_changes()` (`sqlite.cpp:271`),
  which `RETURNING` leaves at an older count (rule "plain"). The count is asked for
  after the await, so of two `execute()` at once, which `README.md:1050` offers, the
  first may return the other's (`CountIsOwn` states what holds).
* `connect()` and `disconnect()` write `mSqlite` on a worker thread (`sqlite.cpp:452`,
  `:469`) while the event loop may copy it (`sqlite.cpp:487-500`), which is a data race:
  a copy that missed its count lets the handle be closed under a live statement
  (`bare`).
* Two `db.query()` in a `when_all()` (`README.md:1045-1055`) start a MySQL call over a
  suspended one, whose context they overwrite (`mysql.cpp:126`; link "mixed").
* The wrappers keep a reference of an lvalue (`type_traits.hpp:107`,
  `sqlstatement.hpp:137`, `:160`) where `sqlstatement.hpp:56-60` promises a copy (also
  `docs/architecture_api_review.md:592`): a variable that changes before the statement
  runs is sent with its new value, and one that is gone is read all the same
  ("strayed").
* `query_with` destroys the wrapper that keeps the values before the result set that
  reads them (`sql_base_api.hpp:48-57`), converting a result drops the storage
  (`sqlresult.hpp:139-150`), and a `LambdaBinder` bound again replaces what an earlier
  run's set reads (`orm_condition.hpp:131-148`): on SQLite the next step reads freed
  memory ("strayed"). The binders of a projected join's `ON` are never collected
  (`orm_builder.hpp:367`; rule "whole").
* `create` and `create_or_replace` answer an error when the answer to their command is
  lost (`orm_form.hpp:71`, `:204`): the table is then dropped, or made, all the same
  (`AnswerIsTrue` says so).
* A driver built without `BUILD_AS_DYNAMIC_PLUGIN` and given to `loadPlugin()` registers
  itself when it is opened, is refused and closed (`sql_plugin.hpp:75-84`): the next
  `createConnection()`, and at the latest the destruction of `drivers_`
  (`driver_registry.cpp:97-101`, `driver_registry.hpp:34`), run code that is gone.
* Neither `SqlBlob` nor `SqlBlobView` can be loaded on SQLite, and `SqlBlob` not from
  PostgreSQL's prepared statements (`sqlite_parsers.cpp:378`; `Unreadable`, `Parsers`,
  compare `README.md:1122-1125`).
* `attach` refuses a table that `create` has just made, on MySQL because names of types
  are compared letter by letter (`dialect.hpp:524`; `NotTakenBack`, compare
  `docs/anime_land_requirements.md:15`).
* PostgreSQL refuses `updateCoalesced` and `updateGreatest`, whose bare column is
  ambiguous beside `excluded` (`orm_builder.hpp:937`, compare `README.md:539-559`);
  elsewhere the larger of a value and NULL is NULL (`LosesToNull`).
* The lexer reads MySQL's `#` and `--`, PostgreSQL's nested comments and some dollar
  quotes otherwise than the server (`placeholder_parser.hpp`; `odd`).
* Moments before the epoch, times of day and fractions are changed by some drivers
  (`Lossy`).

## 5. Proofs

TLC checks the instances of section 3; the theorems here hold for every value of the
constants: any number of coroutines, handles, objects, rows, columns, conditions and
libraries. Each has a module of its own beside the model. TLC checked every inductive
invariant on a run before it was proved, on instances with only the rules that its
theorem assumes.

| Module | Theorem | States | Assumes |
|---|---|---|---|
| `SqlTransactions_proofs` | `TypeCorrect` | `TypeOK` | |
| | `LockAlwaysOwned` | `NoOrphanLock` | |
| | `OneTransactionAtATime` | `SingleHolder`, `ConnectionRefusedInTransaction` | `Disciplined` |
| | `NoHandleDangles` | `NoDanglingConnection` | `Disciplined` |
| | `WritesLand` | `WritesLandAsReported`, an action property | `Disciplined` |
| | `ImplementsTransactionLock` | the refinement `LockSpec` | `Disciplined` |
| `PgConnection_proofs` | `PgTypeCorrect` | `TypeOK` | "sets", "session" |
| | `SessionIsAsBelieved` | `SessionAsBelieved` | "sets", "session" |
| | `PgRowsAreOwn` | `RowsAreOwnAndAll` | "sets", "session" |
| `SqliteHandles_proofs` | `SqliteTypeCorrect` | `TypeOK` | |
| | `HandlesLiveWithVdbes` | `HandleLivesWithVdbes` | |
| | `RowsAreOwn` | `RowsAreOwnAndAll` | "one" |
| | `CountsAreOwn` | `CountIsOwn` | "plain", "session" |
| `MysqlResults_proofs` | `MysqlTypeCorrect` | `TypeOK` | |
| | `UnreadHasReader` | `PendingHasReader` | "finish", "drain", "plain" |
| | `MysqlRowsAreOwn` | `RowsAreOwnAndAll` | "finish", "drain", "plain" |
| `BoundValues_proofs` | `BoundTypeCorrect` | `TypeOK` | |
| | `NothingFreedIsRead` | `NoFreedValueRead` | "cleared" |
| | `SlotsAreFilledRight` | `SlotsGetTheirValues` | "distinct", "once", "whole", "uniform" |
| `OrmStatements_proofs` | `OrmTypeCorrect` | `TypeOK` | |
| | `ConditionsMeanWhatTheySay` | `WhereSelectsItsRows` | |
| | `InvalidNeverSent` | `InvalidIsNotSent` | |
| | `OnlyMeantRowsChange` | `ChangesOnlyItsRows` | |
| | `MergesKeepTheirPromise` | `MergesAsPromised` | |
| `FormTables_proofs` | `FormTypeCorrect` | `TypeOK` | |
| | `AnswersAreTrue` | `AnswerIsTrue` | |
| | `OwnIsTaken` | `AttachTakesOwn` | |
| | `TablesAsDeclared` | `TableAsDeclared` | |
| `DriverRegistry_proofs` | `RegistryTypeCorrect` | `TypeOK` | |
| | `KeptIsCounted` | `KeptLibrariesAnswer` | |
| | `CalledCodeIsMapped` | `CodeIsMapped` | |

What a theorem assumes in the last column is how a program uses the API, not what the
code does: the rules of section 2, which say less than the run's (a theorem names only
those it needs). Every rule is needed, as TLC shows by a counterexample without it. All
theorems also use the ASSUMEs of the model's module, which TLC evaluates on its runs.
Most say that `None` is nothing else and that bounds are numbers. Some say more, and are
true of the code: a place of a statement is no place of a result set (`PlacesAreApart`),
a reader that is a call is no reader that is a set (`ReadersAreApart`), direct use is no
handle (`PlainIsNoHandle`), the columns of a struct are finitely many
(`ColumnsAreFinite`), a statement's own native object is no result's (`OwnIsNoResult`).
`FormTables` assumes of structs what a C++ type has (`StructsTyped`), that they pass the
checks the compiler makes of their tags (`StructsCompile`), and that none is called like
a table's other makers (`StructsNamed`). Of tables that other programs made it assumes
how their types are written (`OthersReported`): MySQL and PostgreSQL report names of
their own, but SQLite reports what was declared, and a type it declared with a name
outside the list would have to be read by other rules. `OrmStatements` has values that
are digits (`ValuesAreDigits`, `ListsOfValues`), which no reader takes for a word of
SQL, as the program's values travel apart from the text; and `Nobody`, the mark of "no
statement yet", is no table (`NobodyIsNoTable`).

### The arguments

**SqlTransactions.** `NoOrphanLock` alone is not inductive: a step that ends a
transaction must know that the handle that unlocks is the one that owns. `OwnershipInv`
adds that a handle owns exactly while it is begun, and that a handle suspended in a
begin is not begun and one suspended in a commit, rollback or write is.
`DisciplinedInv`, for `Disciplined` (neither `Overlap` nor `FreeRebegin`), adds that one
call is in flight, that a begun handle implies the lock and an open connection, and that
a begin in flight found the lock free. The assumption is necessary: with `FreeRebegin`
TLC finds two handles in one transaction. For `WritesLand` the session must be known
too. `InStep` says what the server's transaction is while the database is free, while an
answer is on its way and after it (`SessionFollows`), in which mode a MySQL session is
between the two statements of a call and outside (`ModeFollows`), that uncommitted
writes are those of a begun handle (`DirtyIsBegun`), and that they are all there
(`WritesAreIn`, `UndoIsWhole`). `WritesInv` is that `InStep` holds until a statement
slips, and that on SQLite none does (`SqliteInStep`); an unread result needs no
invariant of its own, because whoever ignores it slips. Between calls it reads shorter
(`Settled`), and one call at a time means that each call starts from it. The refinement
maps the owner of the lock to `Holder`: each step takes, releases or passes on the lock,
or leaves it.

**PgConnection.** Nothing ties a result on the stream to an object, so that rows arrive
where they belong rests on who may read. `SessionInv` says that a call works on a set of
its own in the state its next step expects (`CallsOwnSets`), that a command in progress
has one reader and no finished set is left whose destructor would read for it
(`OneReader`), that nothing is in use while the connection is closed or being closed
(`AwayIsQuiet`), and which statements the session knows (`PreparedIsNamed`).
`RowsFollow` then says that what is unread is always the rest of the reader's own rows
and how its command ends, or a part of that and an error. `TypeOK` needs the rules
because it says that a set is in its constructor exactly while a call works on it.

**SqliteHandles.** The reference counts are an induction on ownership. `HandleInv` says
that a compiled statement has a holder, that each of its holders has its handle as well
(`VdbesHaveHolders`), that held handles are open (`HeldIsOpen`) and that a call owns the
object it works on (`CallsOwnObjects`); so the last to let go finds no statement on the
handle but those of torn copies, which have no share in it (`Shares`). No rule is needed
for that. For rows, `ReadsFollow` links a result set to the row its statement stands on,
which "one" keeps others from moving. For counts, `CountsFollow` says of each
`execute()` under way that the handle it will ask still stands and has counted its
write, whoever writes in between.

**MysqlResults.** A set takes its rows from whatever the connection holds when `next()`
is called. `RulesInv` bounds who can be waiting: of two open sets both have a command
with a single result and at most one has not stored it (`Alone`), and what the
connection holds is for an open set that waits, or is the second result of the only one
(`ConnFollows`); then `GaveOwn` and `Progress` follow each set through its results. The
invariant of the runs is `TurnsInv`: `RulesInv` until the connection is mixed, from
where on only `TypeOK` is left. `AllRows`, the rows that a set should give, is stated
for the two results a command can have in the model, instead of by a fold: what a fold
computes cannot be proved here, and for two results they are the same rows.

**BoundValues.** That TypeOK bounds the placeholders needs to know which clauses a kind
of builder has (`Shaped`), and that the parameters of a text are 1 to some k not above
its length. SQLite's numbering counts the distinct names before a placeholder, and that
this count has no gaps is a fact about all lengths. It is proved without induction over
the length, from the least number whose rank is beyond (`LeastNumber`, from the
well-foundedness of finite sets, `ParametersAre`). `LivesInv` says who keeps the
temporaries that a native statement points at: the wrapper those of its own
(`StatementKeeps`), and on SQLite the wrapper, the builder of a loop or the storage
those of an open result set (`StillKept`), unless it is `bare`. `SlotsInv` says that a
builder names a column once, that all that was given to it stands somewhere in its
statement, and that a prepared statement gives its placeholders what was bound last.
Where no name is repeated the parameter of a placeholder is its place under both ways of
numbering (`DistinctParameters`), so that binding by name and by position agree.

**OrmStatements.** That a condition selects its rows is not inductive: knowing what a
text says does not tell what it says in parentheses beside another. `OrmInv` has each
condition at hand sound (`Goods`): its values fit its marks (`Fit`); its text, values
filled in, has balanced parentheses, no `OR` or `AND` outside them but the `AND` of a
`BETWEEN`, and no `BETWEEN` at its end (`Solid`); and the reading of that text is what
the expression means. A text without such words outside parentheses reads the same
wherever it stands, so a server splits `( a ) OR ( b )` just where `operator||` joined
it (`ReadEnclosed`, `ReadJoined`), and reads `NOT ( a )` as the opposite of `a`
(`ReadNot`). Filling in the values of two texts side by side is the two texts filled in
(`FillGlued`). Every leaf is sound (`LeavesGood`, one lemma for each operator), and
joining, negating and comparing keep it so. That `Reading` is the function its
definition asks for (`ReadingIs`), and what the folds over `where()`s, assignments and
merges return, are inductions over lengths. The library's induction theorems take an
operator and cannot be used here, so the induction is stated about sets of numbers, from
the least number outside (`LeastNumber`, `Course`, `Climb`), and a list's length or the
lengths of texts are the numbers. `Found` then is what was meant (`FoundIsMeant`), from
which `delete()` and `update()` follow. For merges it is shown that the rows of a table
are finitely many, that at most one of them has the key (`SameKeys`), and that one merge
of one column gives what the README promises (`MergedPromised`), under both orders of
evaluation (MySQL reads the row as changed so far, the others as it was). The proof met
two places where the model's text was ambiguous, with overlapping arms of a CASE
(`Promised`, `Larger`); they are IFs now.

**FormTables.** None of the four properties is inductive, because a claim to a table
(`own`) says nothing about the table. `Inv` adds what the claim rests on: a call made
its table, and the table is then just what the server makes of the struct's schema
(`HasMade`), with an index for every place the call is past, unless that statement
failed, also when it answered an error because an answer was lost, where nothing is said
of the indexes; or the call compared what was there with its struct and answered
accordingly (`HasSeen`). A table that nobody claims comes from another program or from a
struct (`TableInv`), so that what a later `attach` will find is known. Each step is one
of two kinds: it moves its caller's record only (`OwnStep`), or it changes a table and
takes away the other calls' claims to it (`TableStep`). The properties then follow from
what the dialects write, without the steps. A column's reported type can be read into
its field and is compatible with it, except where `NotTakenBack` says otherwise
(`Reports`); a compatible type can be read, whoever declared it
(`CompatibleIsReadable`); keys, references, generated columns and indexes are those that
tags and items ask for (`KeysDeclared`, `GeneratedDeclared`, `IndexesDeclared`,
`ConstraintsAre`). Which tables a server refuses (`Accepts`) does not matter for that.

**DriverRegistry.** `RegistryInv` joins the three properties, none of them inductive
alone, with `LoadsInMain` (nothing is half loaded when the process ends),
`ObjectsAreKept` (the code of an object is a library that is kept, as long as the
manager is there) and `OnlyEarlyAreLate` (behind the manager there are early objects
only). A destructor finds its code because its library is kept, and a kept library is
open because the count says so. A factory behind the manager is code of the program,
which is always mapped, unless its driver registered itself.

### What is only model-checked

* Liveness (`LockReleased`, `CallsReturn`, `NextReturns`), since the prover has neither
  fairness nor ENABLED.
* `Placeholders`: that two lexers agree on a text holds apart from the constructions
  marked `odd`, and what is odd is itself found by reading the text. A proof would need
  a relation between the two lexers' states after every character, for each dialect and
  each pair of states, which is the enumeration that TLC does.
* `DriverValues`: a comparison of tables of conversions over finite widths; a proof
  would repeat the enumeration that TLC does.
* The violation run `tx_commit_lost`, which is a counterexample.

## 6. Not modelled, and why

Error tables and messages, console tables, option texts and build files keep no state
and make no protocol. Connection parameters, metadata of columns, and SQL beyond its
words are data no property distinguishes. The event loop, `blocking()`, the poller,
libpq, SQLite, the MariaDB connector, the dynamic loader and the servers are not in the
repository: they are modelled from how the code uses them and marked external.

Parts of modelled components that are left out:

* PostgreSQL: texts of several statements (a later statement's error is cleared while
  its result is drained, `postgres.cpp:651`, a hazard without a property), `COPY`, the
  lookup of type oids at connect, concurrent connects.
* SQLite: open flags, two `connect()` or `disconnect()` of one object at once, extended
  errors, what commands do beside a torn copy of the handle.
* Wrappers: the other hazard without a property is that of an lvalue kept by reference
  (`sqlstatement.hpp:137`): the model reaches it, and `NoFreedValueRead` excepts it.
* MySQL: a failed poll inside a prepared statement, `MysqlStatement::close()`, reuse of
  a closed `MYSQL`, counts of affected rows.
* `SqlDatabase`: moving a database while a handle refers to it, which the types do not
  prevent.
* ORM: `find`, `emplace`, `count` and `print`, one builder call each; LIKE patterns,
  LIMIT and OFFSET; aliases of self joins; custom texts in a schema.
* Values: converters that a user registers; the sizes of texts; MySQL's UNSIGNED columns
  (`sqlresult.cpp:486`, `:573`), `SqlDate::setTime()` from a `struct tm`, which takes
  its fields as they are (`types.cpp:243-252`).

## 7. Plan

What the models cover is as far as the code's own logic goes: the rest, above, is data,
wording or client libraries. Every safety invariant and action property of the runs is
proved but those of `Placeholders` and `DriverValues`. What is left:

* `PgConnection`: which part of `TypeOK` holds without the rules.
* `SqliteHandles`, `MysqlResults`: rows under weaker rules than "one" and "finish", for
  instance sets that take turns between their steps.
* `Placeholders`: the relation between the lexers' states, by `Climb` over the places of
  a text as in `OrmStatements_proofs`.
