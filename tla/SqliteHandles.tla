---------------------------- MODULE SqliteHandles ----------------------------
(***************************************************************************)
(* The SQLite driver (src/sqlite/sqlite.cpp): who holds the database       *)
(* handle and the compiled statements, and what the calls that run on      *)
(* worker threads do to them.                                              *)
(*                                                                         *)
(* Every object keeps the handle by a shared_ptr<sqlite3>, and a statement *)
(* shares its shared_ptr<sqlite3_stmt> with the result sets made of it.    *)
(* blocking() runs a lambda on a worker thread: a call starts on the event *)
(* loop, works on a thread (SQLite's mutex makes that one step) and is     *)
(* resumed by the event loop later on.                                     *)
(*                                                                         *)
(* connect() and disconnect() write mSqlite on their thread, and nothing   *)
(* keeps the event loop from copying it meanwhile.  A torn copy has the    *)
(* handle but no share in its count: it is "bare".                         *)
(***************************************************************************)
EXTENDS Naturals, FiniteSets, Sequences

CONSTANTS
  Clients,   \* coroutines that use the connection
  Sets,      \* places a SqliteStmtResultSet can live in
  Stmts,     \* places a SqliteStatement can live in
  Handles,   \* sqlite3 objects
  Vdbes,     \* sqlite3_stmt objects
  RowCounts, \* bound: the numbers of rows a command may return
  Rules,     \* what clients keep to.  "one": a statement is reset before it is
             \* run again, and a set is not read past its end; "plain": execute()
             \* is given no INSERT ... RETURNING; "session": no disconnect during
             \* an execute() on the connection
  None       \* no handle, no statement, nobody

ASSUME NoneIsNothing == None \notin Clients \cup Sets \cup Stmts \cup Handles \cup Vdbes
ASSUME PlacesAreApart == Sets \cap Stmts = {}
ASSUME CountsAreNumbers == RowCounts \subseteq Nat
ASSUME KnownRules == Rules \subseteq {"one", "plain", "session"}

VARIABLES
  conn,     \* Sqlite::mSqlite
  handle,   \* the sqlite3 objects, each with the calls whose write sqlite3_changes()
            \* counts, or counted before a later write
  vdbe,     \* the sqlite3_stmt objects: the row they are at, 0 when reset
  obj,      \* result sets and statements: the handle and the vdbe they share
  read,     \* what a result set gave, and how often it started its command
  call      \* per client, the call it is suspended in

vars == <<conn, handle, vdbe, obj, read, call>>

Objects  == Sets \cup Stmts
\* "select" stands for all commands that sqlite3_changes() ignores.
Commands  == [kind : {"select", "insert"}, rows : RowCounts]
NoCommand == [kind |-> "none", rows |-> 0]

NoHandle == [state |-> "none", counts |-> {}]
NoVdbe   == [of |-> None, cmd |-> NoCommand, row |-> 0]
NoObject == [life |-> "none", of |-> None, bare |-> FALSE, vdbe |-> None, cmd |-> NoCommand]
Unread   == [seen |-> <<>>, runs |-> 0, told |-> "none"]
NoCall   == [op |-> "none", at |-> "none", obj |-> None, stmt |-> None]

Ops    == {"none", "query", "execute", "prepare", "next", "close", "connect", "disconnect"}
\* Where a call is: before its work on a thread, or what came of it.
Points == {"none", "prepare", "prepared", "refused", "step", "row", "done", "error",
           "finalize", "open", "write", "drop", "over"}

\* An object without a vdbe is a statement that close() was called on, or one
\* whose prepare() is under way.
TypeOK ==
  /\ conn \in Handles \cup {None}
  /\ handle \in [Handles -> [state : {"none", "new", "open", "leaked", "lost"}, counts : SUBSET Clients]]
  /\ vdbe \in [Vdbes -> [of : Handles \cup {None}, cmd : Commands \cup {NoCommand}, row : Nat]]
  /\ obj \in [Objects -> [life : {"none", "local", "live"}, of : Handles \cup {None}, bare : BOOLEAN,
                          vdbe : Vdbes \cup {None}, cmd : Commands \cup {NoCommand}]]
  /\ \A o \in Objects : obj[o].life # "none" <=> obj[o].of # None
  /\ \A s \in Sets : obj[s].life = "live" => obj[s].vdbe # None
  /\ read \in [Sets -> [seen : Seq(Nat), runs : Nat, told : {"none", "end", "error"}]]
  /\ call \in [Clients -> [op : Ops, at : Points, obj : Objects \cup {None}, stmt : Stmts \cup {None}]]

Init ==
  /\ \E h \in Handles :
       /\ conn = h
       /\ handle = [g \in Handles |-> IF g = h THEN [NoHandle EXCEPT !.state = "open"] ELSE NoHandle]
  /\ vdbe = [v \in Vdbes |-> NoVdbe]
  /\ obj = [o \in Objects |-> NoObject]
  /\ read = [s \in Sets |-> Unread]
  /\ call = [c \in Clients |-> NoCall]

-----------------------------------------------------------------------------
(* Shared ownership, and SQLite's own rules.                               *)

\* The handles that c and the objects objs have a share in.
Shares(c, objs) == {c} \cup {objs[o].of : o \in {p \in Objects : ~objs[p].bare}}

\* Fault: the handle goes before the statement, so sqlite3_close() is refused.
ClosedBeforeFinalize(c, objs) ==
  [h \in Handles |->
     IF h \in Shares(c, objs) \/ handle[h].state # "open" THEN handle[h]
     ELSE IF \E v \in Vdbes : vdbe[v].of = h THEN [handle[h] EXCEPT !.state = "leaked"]
     ELSE NoHandle]

\* The last holder of a handle closes it; sqlite3_close() is refused, and the
\* handle lost, while a vdbe of it that is not finalized exists.
Closed(c, objs) ==
  LET alive == {objs[o].vdbe : o \in Objects} \cap Vdbes
  IN [h \in Handles |->
        IF h \in Shares(c, objs) \/ handle[h].state # "open" THEN handle[h]
        ELSE IF \E v \in alive : vdbe[v].of = h
          THEN [handle[h] EXCEPT !.state = IF \E o \in Objects : objs[o].bare /\ objs[o].of = h
                                             THEN "lost" ELSE "leaked"]
        ELSE NoHandle]

\* The connection holds c and the objects are objs from now on: a vdbe without
\* a holder is finalized, and then a handle without a holder is closed.
Held(c, objs) ==
  /\ conn' = c
  /\ obj' = objs
  /\ vdbe' = [v \in Vdbes |-> IF \E o \in Objects : objs[o].vdbe = v THEN vdbe[v] ELSE NoVdbe]
  /\ handle' = Closed(c, objs)

-----------------------------------------------------------------------------
(* Calls.                                                                  *)

Idle(c)  == call[c] = NoCall
InUse(o) == \E c \in Clients : call[c].obj = o \/ call[c].stmt = o

OnSession == \E c \in Clients : call[c].op = "execute" /\ call[c].stmt = None
Leaving   == \E c \in Clients : call[c].op \in {"connect", "disconnect"}

\* mSqlite is being assigned or reset by a worker thread.
Rewriting == \E c \in Clients : call[c].at \in {"write", "drop"}

\* Under the rules, a command may be executed, a vdbe run again.
MayExecute(cmd) == "plain" \in Rules /\ cmd.kind = "insert" => cmd.rows = 0
MayReuse(v) ==
  "one" \in Rules => vdbe[v].row = 0 /\ \A s \in Sets : obj[s].vdbe # v

Start(c, op, at, o, p) ==
  call' = [call EXCEPT ![c] = [op |-> op, at |-> at, obj |-> o, stmt |-> p]]
Goto(c, at) == call' = [call EXCEPT ![c].at = at]
Hangup(c)   == call' = [call EXCEPT ![c] = NoCall]
Forgotten(c, hs) == [h \in Handles |-> [hs[h] EXCEPT !.counts = @ \ {c}]]

\* What a copy of mSqlite may get: the handle and a share in it; or, while it is
\* being written, the pointer that goes or the one that comes, without a share.  (A
\* copy that is null makes a call that fails at once, and changes nothing.)
Copied(h, bare) ==
  \/ ~bare /\ h = conn
  \/ bare /\ Rewriting /\ (h = conn \/ handle[h].state = "new")

\* Sqlite::query, execute and prepare: a SqliteStatement that copies mSqlite.
CallCommand(c, op, o, cmd) ==
  /\ Idle(c)
  /\ obj[o].life = "none"
  /\ \A q \in Objects : ~obj[q].bare  \* bound: no command beside a torn copy
  /\ IF op = "prepare" THEN o \in Stmts ELSE o \in Sets
  /\ op = "execute" => MayExecute(cmd) /\ ("session" \in Rules => ~Leaving)
  /\ \E h \in Handles, bare \in BOOLEAN :
       /\ Copied(h, bare)
       /\ obj' = [obj EXCEPT ![o] = [life |-> "local", of |-> h, bare |-> bare,
                                     vdbe |-> None, cmd |-> cmd]]
  /\ Start(c, op, "prepare", o, None)
  /\ UNCHANGED <<conn, handle, vdbe, read>>

\* SqliteStatement::prepare() on its worker thread.
WorkPrepare(c) ==
  /\ call[c].at = "prepare"
  /\ LET o == call[c].obj
     IN \/ \E v \in Vdbes :
             /\ vdbe[v] = NoVdbe
             /\ vdbe' = [vdbe EXCEPT ![v] = [of |-> obj[o].of, cmd |-> obj[o].cmd, row |-> 0]]
             /\ obj' = [obj EXCEPT ![o].vdbe = v]
             /\ Goto(c, "prepared")
        \/ Goto(c, "refused") /\ UNCHANGED <<vdbe, obj>>
  /\ UNCHANGED <<conn, handle, read>>

\* Fault: execute() does not run the command.
ReturnPreparedUnrun(c) ==
  /\ call[c].at = "prepared"
  /\ IF call[c].op = "execute"
       THEN Goto(c, "done") /\ UNCHANGED obj
       ELSE Hangup(c) /\ obj' = [obj EXCEPT ![call[c].obj].life = "live"]
  /\ UNCHANGED <<conn, handle, vdbe, read>>

\* query() wraps the statement up in its result set; execute() reads it once.
ReturnPrepared(c) ==
  /\ call[c].at = "prepared"
  /\ IF call[c].op = "execute"
       THEN Goto(c, "step") /\ UNCHANGED obj
       ELSE Hangup(c) /\ obj' = [obj EXCEPT ![call[c].obj].life = "live"]
  /\ UNCHANGED <<conn, handle, vdbe, read>>

\* The half-made object is destroyed.
ReturnRefused(c) ==
  /\ call[c].at = "refused"
  /\ Held(conn, [obj EXCEPT ![call[c].obj] = NoObject])
  /\ Hangup(c)
  /\ UNCHANGED read

\* Fault: the result set does not keep the database handle.
ShareBare(p, life) == [obj[p] EXCEPT !.life = life, !.of = None]

\* SqliteStatement::query(): a result set with the statement's handle and vdbe.
Share(p, life) == [obj[p] EXCEPT !.life = life]

QueryPrepared(s, p) ==
  /\ obj[p].life = "live" /\ obj[p].vdbe # None
  /\ ~InUse(p)
  /\ obj[s].life = "none"
  /\ MayReuse(obj[p].vdbe)
  /\ obj' = [obj EXCEPT ![s] = Share(p, "live")]
  /\ UNCHANGED <<conn, handle, vdbe, read, call>>

ExecutePrepared(c, s, p) ==
  /\ Idle(c)
  /\ obj[p].life = "live" /\ obj[p].vdbe # None
  /\ ~InUse(p)
  /\ obj[s].life = "none"
  /\ MayReuse(obj[p].vdbe)
  /\ MayExecute(obj[p].cmd)
  /\ obj' = [obj EXCEPT ![s] = Share(p, "local")]
  /\ Start(c, "execute", "step", s, p)
  /\ UNCHANGED <<conn, handle, vdbe, read>>

CallNext(c, s) ==
  /\ Idle(c)
  /\ obj[s].life = "live"
  /\ ~InUse(s)
  /\ read[s].runs < 2 \/ vdbe[obj[s].vdbe].row > 0  \* bound
  /\ "one" \in Rules => read[s].told = "none"
  /\ Start(c, "next", "step", s, None)
  /\ UNCHANGED <<conn, handle, vdbe, obj, read>>

\* sqlite3_step(): the next row, the end (after which the next step starts
\* again) or an error (likewise).
Step(c, s, v, r) ==
  /\ r = "row" => vdbe[v].row < vdbe[v].cmd.rows
  /\ r = "done" => vdbe[v].row = vdbe[v].cmd.rows
  /\ vdbe' = [vdbe EXCEPT ![v].row = IF r = "row" THEN @ + 1 ELSE 0]
  /\ handle' = IF r = "done" /\ vdbe[v].cmd.kind = "insert"
                 THEN [handle EXCEPT ![vdbe[v].of].counts = @ \cup {c}]
                 ELSE handle
  /\ read' = [read EXCEPT ![s].runs = IF vdbe[v].row = 0 THEN @ + 1 ELSE @]

WorkStep(c) ==
  /\ call[c].at = "step"
  /\ LET s == call[c].obj
     IN \E r \in {"row", "done", "error"} : Step(c, s, obj[s].vdbe, r) /\ Goto(c, r)
  /\ UNCHANGED <<conn, obj>>

\* Fault: an error is passed over, and the reader goes on.
TellOnlyTheEnd(s, r) ==
  CASE r = "row" -> [read[s] EXCEPT !.seen = Append(@, vdbe[obj[s].vdbe].row)]
    [] r = "done" -> [read[s] EXCEPT !.told = "end"]
    [] r = "error" -> read[s]

\* SqliteStmtResultSet::next(): what the caller is told.
Tell(s, r) ==
  CASE r = "row" -> [read[s] EXCEPT !.seen = Append(@, vdbe[obj[s].vdbe].row)]
    [] r = "done" -> [read[s] EXCEPT !.told = "end"]
    [] r = "error" -> [read[s] EXCEPT !.told = "error"]

ReturnNext(c) ==
  /\ call[c].op = "next" /\ call[c].at \in {"row", "done", "error"}
  /\ read' = [read EXCEPT ![call[c].obj] = Tell(call[c].obj, call[c].at)]
  /\ handle' = Forgotten(c, handle)
  /\ Hangup(c)
  /\ UNCHANGED <<conn, vdbe, obj>>

\* execute() reads sqlite3_changes() and drops its result set.
ReturnExecute(c) ==
  /\ call[c].op = "execute" /\ call[c].at \in {"row", "done", "error"}
  /\ LET objs == [obj EXCEPT ![call[c].obj] = NoObject]
     IN /\ conn' = conn
        /\ obj' = objs
        /\ vdbe' = [v \in Vdbes |-> IF \E o \in Objects : objs[o].vdbe = v THEN vdbe[v] ELSE NoVdbe]
        /\ handle' = Forgotten(c, Closed(conn, objs))
  /\ read' = [read EXCEPT ![call[c].obj] = Unread]
  /\ Hangup(c)

-----------------------------------------------------------------------------
(* connect(), disconnect(), close(); each does its work on a thread.       *)

CallConnect(c) ==
  /\ Idle(c)
  /\ conn = None
  /\ Start(c, "connect", "open", None, None)
  /\ UNCHANGED <<conn, handle, vdbe, obj, read>>

WorkOpen(c) ==
  /\ call[c].at = "open"
  /\ \/ \E h \in Handles :
          /\ handle[h].state = "none"
          /\ handle' = [handle EXCEPT ![h].state = "new"]
          /\ Goto(c, "write")
     \/ UNCHANGED handle /\ Goto(c, "over")
  /\ UNCHANGED <<conn, vdbe, obj, read>>

\* A second connect() may have passed the test as well: the handle it put into
\* mSqlite is let go.
WorkConnect(c) ==
  /\ call[c].at = "write"
  /\ \E h \in Handles :
       /\ handle[h].state = "new"
       /\ conn' = h
       /\ handle' = [Closed(h, obj) EXCEPT ![h].state = "open"]
  /\ Goto(c, "over")
  /\ UNCHANGED <<vdbe, obj, read>>

CallDisconnect(c) ==
  /\ Idle(c)
  /\ conn # None
  /\ "session" \in Rules => ~OnSession
  /\ Start(c, "disconnect", "drop", None, None)
  /\ UNCHANGED <<conn, handle, vdbe, obj, read>>

WorkDisconnect(c) ==
  /\ call[c].at = "drop"
  /\ Held(None, obj)
  /\ Goto(c, "over")
  /\ UNCHANGED read

\* SqliteStatement::close(): the result sets keep the vdbe, but start again.
CallClose(c, p) ==
  /\ Idle(c)
  /\ obj[p].life = "live" /\ obj[p].vdbe # None
  /\ ~InUse(p)
  /\ "one" \in Rules => \A s \in Sets : obj[s].vdbe # obj[p].vdbe
  /\ Start(c, "close", "finalize", p, None)
  /\ UNCHANGED <<conn, handle, vdbe, obj, read>>

WorkClose(c) ==
  /\ call[c].at = "finalize"
  /\ LET v    == obj[call[c].obj].vdbe
         objs == [obj EXCEPT ![call[c].obj].vdbe = None]
     IN /\ obj' = objs
        /\ vdbe' = [vdbe EXCEPT ![v] = IF \E o \in Objects : objs[o].vdbe = v THEN [@ EXCEPT !.row = 0] ELSE NoVdbe]
  /\ Goto(c, "over")
  /\ UNCHANGED <<conn, handle, read>>

ReturnOver(c) ==
  /\ call[c].at = "over"
  /\ Hangup(c)
  /\ UNCHANGED <<conn, handle, vdbe, obj, read>>

-----------------------------------------------------------------------------
(* Operations without an await.                                            *)

\* SqliteStatement::reset().
Reset(p) ==
  /\ obj[p].life = "live" /\ obj[p].vdbe # None
  /\ ~InUse(p)
  /\ "one" \in Rules => \A s \in Sets : obj[s].vdbe # obj[p].vdbe
  /\ vdbe' = [vdbe EXCEPT ![obj[p].vdbe].row = 0]
  /\ UNCHANGED <<conn, handle, obj, read, call>>

\* ~SqliteStmtResultSet() and ~SqliteStatement().
Destroy(o) ==
  /\ obj[o].life = "live"
  /\ ~InUse(o)
  /\ Held(conn, [obj EXCEPT ![o] = NoObject])
  /\ read' = IF o \in Sets THEN [read EXCEPT ![o] = Unread] ELSE read
  /\ UNCHANGED call

\* ~Sqlite(); the connection that follows is another object.
DestroyConnection ==
  /\ conn # None
  /\ \A c \in Clients : call[c].op \notin {"query", "execute", "prepare", "connect", "disconnect"}
  /\ Held(None, obj)
  /\ UNCHANGED <<read, call>>

-----------------------------------------------------------------------------
Next ==
  \/ \E c \in Clients :
       \/ \E op \in {"query", "execute", "prepare"}, o \in Objects, cmd \in Commands :
            CallCommand(c, op, o, cmd)
       \/ \E s \in Sets : CallNext(c, s) \/ \E p \in Stmts : ExecutePrepared(c, s, p)
       \/ \E p \in Stmts : CallClose(c, p)
       \/ CallConnect(c) \/ CallDisconnect(c)
       \/ WorkPrepare(c) \/ WorkStep(c) \/ WorkOpen(c) \/ WorkConnect(c) \/ WorkDisconnect(c)
       \/ WorkClose(c)
       \/ ReturnPrepared(c) \/ ReturnRefused(c) \/ ReturnNext(c) \/ ReturnExecute(c) \/ ReturnOver(c)
  \/ \E s \in Sets, p \in Stmts : QueryPrepared(s, p)
  \/ \E p \in Stmts : Reset(p)
  \/ \E o \in Objects : Destroy(o)
  \/ DestroyConnection

Spec == Init /\ [][Next]_vars

-----------------------------------------------------------------------------
(* Properties.                                                             *)

\* A result set gives the rows of its command in order and without repetition,
\* also after the connection it came from was disconnected or replaced; when
\* next() says "no more", the command was run once, for this result set, and all
\* its rows were given.
RowsAreOwnAndAll ==
  \A s \in Sets :
    /\ \A i \in 1..Len(read[s].seen) : read[s].seen[i] = i
    /\ read[s].told = "end" => read[s].runs = 1 /\ Len(read[s].seen) = obj[s].cmd.rows

\* The handle whose sqlite3_changes() the execute() of c is going to return.
Asked(c) == IF call[c].stmt = None THEN conn ELSE obj[call[c].obj].of

\* The count that execute() returns for a write is asked of the handle the write
\* went to, after it was counted there: it is the count of that write, or of one
\* that finished on the same handle since (README.md:1050 lets calls overlap), never
\* an older one, and it is never asked of a null handle.  (A statement with a torn
\* copy of mSqlite may ask a handle that is gone.)
CountIsOwn ==
  \A c \in Clients :
    call[c].op = "execute" /\ call[c].at \in {"row", "done"} =>
      /\ Asked(c) # None
      /\ obj[call[c].obj].cmd.kind = "insert" =>
           c \in handle[Asked(c)].counts \/ obj[call[c].obj].bare

\* A handle lives exactly as long as its statements: it is never given up while
\* one of them is not finalized (sqlite3_close() would be refused, and file and
\* locks kept for good), no compiled statement outlives it, and a result set or
\* a statement reaches only vdbes of the handle it holds.  Only what was made
\* with a torn copy of mSqlite, while connect() or disconnect() wrote it, may see its
\* handle closed.
HandleLivesWithVdbes ==
  /\ \A h \in Handles : handle[h].state # "leaked"
  /\ \A v \in Vdbes : vdbe[v].of # None =>
       \/ handle[vdbe[v].of].state = "open"
       \/ \E o \in Objects : obj[o].vdbe = v /\ obj[o].bare
  /\ \A o \in Objects : obj[o].vdbe # None => vdbe[obj[o].vdbe].of = obj[o].of
=============================================================================
