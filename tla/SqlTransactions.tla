--------------------------- MODULE SqlTransactions ---------------------------
(***************************************************************************)
(* One SqlDatabase, the SqlTransaction objects that share its connection,  *)
(* and the server session behind that connection                           *)
(* (src/sql/sqldatabase.cpp, include/ilias/sql/sqldatabase.hpp).           *)
(*                                                                         *)
(* Every member function that awaits the driver is three steps: the call   *)
(* up to the await, the statement executed by the server, and the          *)
(* resumption after the await.  Coroutines of one event loop interleave    *)
(* between those steps.                                                    *)
(*                                                                         *)
(* A write is known only by its writer: the handle it was issued through,  *)
(* or Plain for one issued through SqlDatabase itself.  Of the result sets *)
(* only one matters here, the one that still has unread rows on the wire:  *)
(* while it does, libpq sends nothing more and the client library of MySQL *)
(* answers every call that it is out of sync.                              *)
(***************************************************************************)
EXTENDS FiniteSets

CONSTANTS
  Handles,      \* places a SqlTransaction object can live in
  Plain,        \* the coroutine that uses SqlDatabase directly
  Backends,     \* the drivers open() may choose
  Overlap,      \* may a call start while another one is suspended?
  FreeRebegin   \* may a finished handle be restarted at any moment, or only
                \* while the database is open and in no transaction?

ASSUME PlainIsNoHandle == Plain \notin Handles
ASSUME KnownBackends == Backends \subseteq {"sqlite", "postgres", "mysql"}
ASSUME UsageFlags == Overlap \in BOOLEAN /\ FreeRebegin \in BOOLEAN

VARIABLES
  backend,         \* the driver that SqlDatabase::open() was asked for
  mConnection,     \* SqlDatabase::mConnection is not null
  mInTransaction,  \* SqlDatabase::mInTransaction
  mState,          \* SqlTransaction::mState, or "absent": no object here
  mOwns,           \* SqlTransaction::mOwnsTransaction
  mLink,           \* SqlTransaction::mConnection is not null
  call,            \* per coroutine, the call it is suspended in
  server,          \* the session: its transaction, uncommitted and kept writers,
                   \* and whether it is in autocommit mode
  unread,          \* "held": a result set has rows on the wire; "left": its set is gone
  running,         \* the program lives
  wrote,           \* handles told, since their BEGIN, that a write succeeded
  erred,           \* handles told, since their BEGIN, of a statement that failed
  slipped          \* a BEGIN, COMMIT or ROLLBACK was not executed as it was reported

objects == <<mState, mOwns, mLink>>
told    == <<wrote, erred>>
wire    == <<unread, running, slipped>>
vars    == <<backend, mConnection, mInTransaction, objects, call, server, wire, told>>

Callers == Handles \cup {Plain}
Begins  == {"transaction", "rebegin"}
Ends    == {"commit", "rollback"}
Texts   == {"write", "query"}
Ops     == {"none", "close"} \cup Begins \cup Ends \cup Texts
Answers == {"none", "waiting", "second", "ok", "refused"}
States  == {"absent", "Unused", "Beginned", "Committed", "RolledBack"}
NoCall  == [op |-> "none", answer |-> "none"]

Sessions == [tx : {"none", "open", "aborted", "lost"}, auto : BOOLEAN,
             dirty : SUBSET Callers, kept : SUBSET Callers]

Typed ==
  /\ backend \in Backends
  /\ mConnection \in BOOLEAN
  /\ mInTransaction \in BOOLEAN
  /\ mState \in [Handles -> States]
  /\ mOwns \in [Handles -> BOOLEAN]
  /\ mLink \in [Handles -> BOOLEAN]
  /\ call \in [Callers -> [op : Ops, answer : Answers]]
  /\ server \in Sessions
  /\ unread \in {"none", "held", "left"}
  /\ running \in BOOLEAN /\ slipped \in BOOLEAN
  /\ wrote \in SUBSET Handles /\ erred \in SUBSET Handles

\* Every variable has its type, and a handle that owns the database's lock is
\* one that is begun and can reach the connection: commit, rollback, move and
\* destruction each give up mOwnsTransaction with the state it goes with.
TypeOK == Typed /\ \A h \in Handles : mOwns[h] => mState[h] = "Beginned" /\ mLink[h]

Init ==
  /\ backend \in Backends
  /\ mConnection = TRUE
  /\ mInTransaction = FALSE
  /\ mState = [h \in Handles |-> "absent"]
  /\ mOwns = [h \in Handles |-> FALSE]
  /\ mLink = [h \in Handles |-> FALSE]
  /\ call = [c \in Callers |-> NoCall]
  /\ server = [tx |-> "none", auto |-> TRUE, dirty |-> {}, kept |-> {}]
  /\ unread = "none" /\ running = TRUE /\ slipped = FALSE
  /\ wrote = {} /\ erred = {}

-----------------------------------------------------------------------------
(* Calls.                                                                  *)

InFlight == \E c \in Callers : call[c].op # "none"

\* A client that never overlaps calls acts only when no call is suspended, and
\* overlapping calls on one MYSQL handle are undefined behaviour of its library.
MayAct == running /\ (~InFlight \/ (Overlap /\ backend # "mysql"))

\* Issue a statement.  libpq refuses to send while another command is in progress
\* or has results that were not read; the sqlite calls queue on the connection's
\* mutex; the client library of MySQL is asked when the call is served.
Refuses == backend = "postgres" /\ (InFlight \/ unread = "held")

Issue(c, op) ==
  /\ call' = [call EXCEPT ![c] = [op |-> op, answer |-> IF Refuses THEN "refused" ELSE "waiting"]]
  /\ slipped' = (slipped \/ (Refuses /\ op \in Begins \cup Ends))
  /\ UNCHANGED <<unread, running>>

Return(c) == call' = [call EXCEPT ![c] = NoCall]

\* What the core sees of a refusal.  Postgres turns BEGIN, COMMIT and ROLLBACK
\* results into has_value() and never an Err; MySQL reads the my_bool of
\* mysql_commit, mysql_rollback and mysql_autocommit upside down.
Reports(op) ==
  \/ backend = "sqlite"
  \/ backend = "mysql" /\ op \notin Ends
  \/ op \in Texts \cup {"close"}

Succeeded(c, op) ==
  /\ call[c].op = op
  /\ \/ call[c].answer = "ok"
     \/ call[c].answer = "refused" /\ ~Reports(op)

Failed(c, op) == call[c].op = op /\ call[c].answer = "refused" /\ Reports(op)

-----------------------------------------------------------------------------
(* The server: how each kind of session answers one statement.             *)

Keep    == server' = [server EXCEPT !.tx = "none", !.dirty = {}, !.kept = @ \cup server.dirty]
Discard == server' = [server EXCEPT !.tx = "none", !.dirty = {}]

Begin(ok) ==
  \/ server.tx = "none" /\ ok /\ server' = [server EXCEPT !.tx = "open"]
  \/ server.tx = "open" /\ backend = "sqlite" /\ ~ok /\ UNCHANGED server
  \/ server.tx = "open" /\ backend = "postgres" /\ ok /\ UNCHANGED server
  \/ /\ server.tx = "open" /\ backend = "mysql" /\ ok
     /\ server' = [server EXCEPT !.dirty = {}, !.kept = @ \cup server.dirty]
  \/ server.tx \in {"aborted", "lost"} /\ ~ok /\ UNCHANGED server

\* A COMMIT can fail: busy (sqlite, the transaction stays), or with the
\* transaction rolled back (a full disk, a deferred constraint, a conflict).
Commit(ok) ==
  \/ server.tx = "open" /\ ok /\ Keep
  \/ server.tx = "open" /\ ~ok /\ Discard
  \/ server.tx = "open" /\ backend = "sqlite" /\ ~ok /\ UNCHANGED server
  \/ server.tx = "none" /\ ok = (backend # "sqlite") /\ UNCHANGED server
  \/ server.tx = "aborted" /\ ok /\ Discard
  \/ server.tx = "lost" /\ ~ok /\ UNCHANGED server

Rollback(ok) ==
  \/ server.tx \in {"open", "aborted"} /\ ok /\ Discard
  \/ server.tx = "none" /\ ok = (backend # "sqlite") /\ UNCHANGED server
  \/ server.tx = "lost" /\ ~ok /\ UNCHANGED server

\* A statement that fails aborts a postgres transaction; it may roll back a whole
\* sqlite transaction (full disk, I/O error), after which the session is in
\* autocommit mode; a mysql deadlock discards the work done so far.
FailInside ==
  \/ server.tx \in {"none", "aborted", "lost"} /\ UNCHANGED server
  \/ server.tx = "open" /\ backend # "postgres" /\ UNCHANGED server
  \/ server.tx = "open" /\ backend = "postgres" /\ server' = [server EXCEPT !.tx = "aborted"]
  \/ server.tx = "open" /\ backend = "sqlite" /\ Discard
  \/ server.tx = "open" /\ backend = "mysql" /\ server' = [server EXCEPT !.dirty = {}]

\* Outside autocommit mode a write opens a transaction of its own.
Write(c, ok) ==
  \/ server.tx = "open" /\ ok /\ server' = [server EXCEPT !.dirty = @ \cup {c}]
  \/ server.tx = "none" /\ server.auto /\ ok /\ server' = [server EXCEPT !.kept = @ \cup {c}]
  \/ /\ server.tx = "none" /\ ~server.auto /\ ok
     /\ server' = [server EXCEPT !.tx = "open", !.dirty = @ \cup {c}]
  \/ ~ok /\ FailInside

Query(ok) ==
  \/ server.tx \in {"none", "open"} /\ ok /\ UNCHANGED server
  \/ ~ok /\ FailInside

\* SET autocommit, whose failure the driver never sees; turning it on commits.
SetAutocommit(on) ==
  \/ UNCHANGED server
  \/ /\ unread = "none" /\ server.tx # "lost"
     /\ server' = IF on /\ ~server.auto
                    THEN [server EXCEPT !.tx = "none", !.auto = TRUE, !.dirty = {},
                                        !.kept = @ \cup server.dirty]
                    ELSE [server EXCEPT !.auto = on]

\* A session that was left outside autocommit mode.
Astray == server'.tx # "lost" /\ ~server'.auto

Drop == server' = [server EXCEPT !.tx = "lost", !.dirty = {}]

-----------------------------------------------------------------------------
(* Serving the calls.                                                      *)

OutOfSync == backend = "mysql" /\ unread # "none"

\* MySQL's BEGIN, COMMIT and ROLLBACK are a statement each and one SET autocommit.
InTwo(c) == backend = "mysql" /\ call[c].op \in Begins \cup Ends

ServeWhole(c) ==
  /\ call[c].answer = "waiting" /\ ~InTwo(c)
  /\ \E ok \in BOOLEAN :
       /\ \/ call[c].op \in Begins /\ Begin(ok)
          \/ call[c].op = "commit" /\ Commit(ok)
          \/ call[c].op = "rollback" /\ Rollback(ok)
          \/ call[c].op = "write" /\ ~OutOfSync /\ Write(c, ok)
          \/ call[c].op = "query" /\ ~OutOfSync /\ Query(ok)
          \/ call[c].op \in Texts /\ OutOfSync /\ ~ok /\ UNCHANGED server
          \/ call[c].op = "close" /\ ok /\ Drop
       /\ unread' = IF call[c].op = "query" /\ ok /\ backend # "sqlite" THEN "held" ELSE unread
       /\ call' = [call EXCEPT ![c].answer = IF ok THEN "ok" ELSE "refused"]
  /\ UNCHANGED slipped

\* mysql_autocommit(false) before a BEGIN; mysql_commit or mysql_rollback.
ServeFirst(c) ==
  /\ call[c].answer = "waiting" /\ InTwo(c)
  /\ \/ call[c].op \in Begins /\ SetAutocommit(FALSE)
     \/ call[c].op = "commit" /\ ~OutOfSync /\ \E ok \in BOOLEAN : Commit(ok)
     \/ call[c].op = "rollback" /\ ~OutOfSync /\ \E ok \in BOOLEAN : Rollback(ok)
     \/ call[c].op \in Ends /\ OutOfSync /\ UNCHANGED server
  /\ slipped' = (slipped \/ (call[c].op \in Ends /\ OutOfSync))
  /\ call' = [call EXCEPT ![c].answer = "second"]
  /\ UNCHANGED unread

\* START TRANSACTION, which may fail as any statement may; mysql_autocommit(true).
ServeSecond(c) ==
  /\ call[c].answer = "second"
  /\ \E ok \in BOOLEAN :
       /\ \/ call[c].op \in Begins /\ ~OutOfSync /\ Begin(ok)
          \/ call[c].op \in Begins /\ ~ok /\ UNCHANGED server
          \/ call[c].op \in Ends /\ ok /\ SetAutocommit(TRUE)
       /\ slipped' = (slipped \/ (Astray /\ (ok => call[c].op \in Ends)))
       /\ call' = [call EXCEPT ![c].answer = IF ok THEN "ok" ELSE "refused"]
  /\ UNCHANGED unread

Serve(c) ==
  /\ ServeWhole(c) \/ ServeFirst(c) \/ ServeSecond(c)
  /\ UNCHANGED <<backend, mConnection, mInTransaction, objects, running, told>>

\* The network or the server process goes away.
LoseServer ==
  /\ backend # "sqlite"
  /\ server.tx # "lost"
  /\ Drop
  /\ UNCHANGED <<backend, mConnection, mInTransaction, objects, call, wire, told>>

Over == ~running /\ UNCHANGED vars

\* A result set is read to its end or dropped.  The destructor of PostgreSQL's set
\* reads what is left; MySQL's leaves its rows on the wire unless next() was called.
EndResult ==
  /\ MayAct
  /\ unread = "held"
  /\ unread' = "none" \/ (backend = "mysql" /\ unread' = "left")
  /\ UNCHANGED <<backend, mConnection, mInTransaction, objects, call, server, running, slipped, told>>

-----------------------------------------------------------------------------
(* SqlDatabase.                                                            *)

\* Fault: the busy check is forgotten.
OpenIsEnough == mConnection

\* SqlDatabase::connection(), and the checks that open
\* transaction(): busy while mInTransaction, and an error once closed.
Available == mConnection /\ ~mInTransaction

\* transaction(): refused unless available; otherwise a SqlTransaction is
\* constructed over the connection and its begin() awaited.
CallTransaction(h) ==
  /\ MayAct
  /\ mState[h] = "absent"
  /\ Available
  /\ mState' = [mState EXCEPT ![h] = "Unused"]
  /\ mLink' = [mLink EXCEPT ![h] = TRUE]
  /\ Issue(h, "transaction")
  /\ UNCHANGED <<backend, mConnection, mInTransaction, mOwns, server, told>>

\* A query or execute through the database object itself.
CallPlain(op) ==
  /\ MayAct
  /\ call[Plain] = NoCall
  /\ Available
  /\ Issue(Plain, op)
  /\ UNCHANGED <<backend, mConnection, mInTransaction, objects, server, told>>

ReturnPlain ==
  /\ \E op \in Texts : Succeeded(Plain, op) \/ Failed(Plain, op)
  /\ Return(Plain)
  /\ UNCHANGED <<backend, mConnection, mInTransaction, objects, server, wire, told>>

\* close() asks only whether a transaction runs; a second one dereferences the
\* null mConnection, and the program is over.
CallClose ==
  /\ MayAct
  /\ call[Plain] = NoCall
  /\ ~mInTransaction
  /\ \/ /\ mConnection
        /\ call' = [call EXCEPT ![Plain] = [op |-> "close", answer |-> "waiting"]]
        /\ UNCHANGED running
     \/ /\ ~mConnection
        /\ call' = [c \in Callers |-> NoCall]
        /\ running' = FALSE
  /\ UNCHANGED <<backend, mConnection, mInTransaction, objects, server, unread, slipped, told>>

ReturnClose ==
  /\ Succeeded(Plain, "close")
  /\ mConnection' = FALSE
  /\ Return(Plain)
  /\ UNCHANGED <<backend, mInTransaction, objects, server, wire, told>>

-----------------------------------------------------------------------------
(* SqlTransaction.                                                         *)

\* SqlTransaction(db): the connection is taken only from a database that is
\* open and in no transaction; otherwise the object is left without one.
Construct(h) ==
  /\ MayAct
  /\ mState[h] = "absent"
  /\ mState' = [mState EXCEPT ![h] = "Unused"]
  /\ mLink' = [mLink EXCEPT ![h] = Available]
  /\ UNCHANGED <<backend, mConnection, mInTransaction, mOwns, call, server, wire, told>>

\* begin() looks at the handle's own state and pointer, never at the database.
CallRebegin(h) ==
  /\ MayAct
  /\ call[h] = NoCall
  /\ mState[h] \in {"Unused", "RolledBack", "Committed"}
  /\ mLink[h]
  /\ FreeRebegin \/ Available
  /\ Issue(h, "rebegin")
  /\ UNCHANGED <<backend, mConnection, mInTransaction, objects, server, told>>

\* The handle's writes are counted afresh from here.
ReturnBegun(h) ==
  /\ Succeeded(h, "transaction") \/ Succeeded(h, "rebegin")
  /\ mInTransaction' = TRUE
  /\ mOwns' = [mOwns EXCEPT ![h] = TRUE]
  /\ mState' = [mState EXCEPT ![h] = "Beginned"]
  /\ server' = [server EXCEPT !.kept = @ \ {h}]
  /\ wrote' = wrote \ {h}
  /\ erred' = erred \ {h}
  /\ Return(h)
  /\ UNCHANGED <<backend, mConnection, mLink, wire>>

\* A failed begin() leaves the handle as it was; transaction() drops it.
ReturnBeginFailed(h) ==
  /\ \/ /\ Failed(h, "transaction")
        /\ mState' = [mState EXCEPT ![h] = "absent"]
        /\ mLink' = [mLink EXCEPT ![h] = FALSE]
     \/ /\ Failed(h, "rebegin")
        /\ UNCHANGED <<mState, mLink>>
  /\ Return(h)
  /\ UNCHANGED <<backend, mConnection, mInTransaction, mOwns, server, wire, told>>

CallInTransaction(h, op) ==
  /\ MayAct
  /\ call[h] = NoCall
  /\ mState[h] = "Beginned"
  /\ mLink[h]
  /\ Issue(h, op)
  /\ UNCHANGED <<backend, mConnection, mInTransaction, objects, server, told>>

ReturnText(h) ==
  /\ \/ Succeeded(h, "write") /\ wrote' = wrote \cup {h} /\ UNCHANGED erred
     \/ Succeeded(h, "query") /\ UNCHANGED told
     \/ /\ \E op \in Texts : Failed(h, op)
        /\ erred' = erred \cup {h} /\ UNCHANGED wrote
  /\ Return(h)
  /\ UNCHANGED <<backend, mConnection, mInTransaction, objects, server, wire>>

\* Fault: ownership is given up but the database is not released.
ReleaseKeepsLock(h) ==
  /\ mOwns' = [mOwns EXCEPT ![h] = FALSE]
  /\ UNCHANGED mInTransaction

\* Fault: the database is released but the handle goes on owning it.
ReleaseKeepsOwner(h) ==
  /\ mInTransaction' = (mInTransaction /\ ~mOwns[h])
  /\ UNCHANGED mOwns

\* releaseTransaction() and mOwnsTransaction = false, by the owner only.
Release(h) ==
  /\ mInTransaction' = (mInTransaction /\ ~mOwns[h])
  /\ mOwns' = [mOwns EXCEPT ![h] = FALSE]

ReturnEnded(h) ==
  /\ \/ Succeeded(h, "commit") /\ mState' = [mState EXCEPT ![h] = "Committed"]
     \/ Succeeded(h, "rollback") /\ mState' = [mState EXCEPT ![h] = "RolledBack"]
  /\ Release(h)
  /\ Return(h)
  /\ UNCHANGED <<backend, mConnection, mLink, server, wire, told>>

\* A commit or rollback that failed leaves the transaction begun.
ReturnEndFailed(h) ==
  /\ Failed(h, "commit") \/ Failed(h, "rollback")
  /\ erred' = erred \cup {h}
  /\ Return(h)
  /\ UNCHANGED <<backend, mConnection, mInTransaction, objects, server, wire, wrote>>

\* Fault: the destructor releases the database without rolling back.
DestroyWithoutRollback(h) ==
  /\ MayAct
  /\ call[h] = NoCall
  /\ mState[h] # "absent"
  /\ Release(h)
  /\ mState' = [mState EXCEPT ![h] = "absent"]
  /\ mLink' = [mLink EXCEPT ![h] = FALSE]
  /\ UNCHANGED <<backend, mConnection, call, server, wire, told>>

\* syncRollback(): PQexec first reads whatever is left on the wire; the calls of
\* MySQL fail out of sync, and the second one may fail alone.
SyncRollback ==
  \/ /\ backend # "mysql"
     /\ \E ok \in BOOLEAN : Rollback(ok)
     /\ unread' = "none" /\ UNCHANGED slipped
  \/ /\ backend = "mysql" /\ ~OutOfSync /\ server.tx # "lost"
     /\ \E on \in {server.auto, TRUE} :
          server' = [server EXCEPT !.tx = "none", !.dirty = {}, !.auto = on]
     /\ slipped' = (slipped \/ Astray) /\ UNCHANGED unread
  \/ /\ backend = "mysql" /\ (OutOfSync \/ server.tx = "lost")
     /\ slipped' = (slipped \/ server.tx # "lost") /\ UNCHANGED <<server, unread>>

\* ~SqlTransaction(): the owner of a begun transaction rolls it back
\* synchronously, whatever comes of it, and releases the database.
Destroy(h) ==
  /\ MayAct
  /\ call[h] = NoCall
  /\ mState[h] # "absent"
  /\ IF mOwns[h] /\ mState[h] = "Beginned" /\ mLink[h]
       THEN SyncRollback
       ELSE UNCHANGED <<server, unread, slipped>>
  /\ Release(h)
  /\ mState' = [mState EXCEPT ![h] = "absent"]
  /\ mLink' = [mLink EXCEPT ![h] = FALSE]
  /\ wrote' = wrote \ {h}
  /\ erred' = erred \ {h}
  /\ UNCHANGED <<backend, mConnection, call, running>>

Renamed(S, h, g) == IF h \in S THEN (S \ {h}) \cup {g} ELSE S \ {g}

MoveObject(h, g) ==
  /\ MayAct
  /\ call[h] = NoCall
  /\ mState[h] # "absent"
  /\ mState[g] = "absent"
  /\ mState' = [mState EXCEPT ![g] = mState[h], ![h] = "Unused"]
  /\ mLink' = [mLink EXCEPT ![g] = mLink[h], ![h] = FALSE]
  /\ server' = [server EXCEPT !.dirty = Renamed(@, h, g), !.kept = Renamed(@, h, g)]
  /\ wrote' = Renamed(wrote, h, g)
  /\ erred' = Renamed(erred, h, g)
  /\ UNCHANGED <<backend, mConnection, mInTransaction, call, wire>>

\* Fault: nobody owns the lock after a move.
MoveLosesOwner(h, g) ==
  MoveObject(h, g) /\ mOwns' = [mOwns EXCEPT ![h] = FALSE]

\* SqlTransaction(SqlTransaction &&): g takes over everything h was.
Move(h, g) ==
  /\ MoveObject(h, g)
  /\ mOwns' = [mOwns EXCEPT ![g] = mOwns[h], ![h] = FALSE]

-----------------------------------------------------------------------------
HandleStep(h) ==
  \/ CallTransaction(h)
  \/ Construct(h)
  \/ CallRebegin(h)
  \/ \E op \in Ends \cup Texts : CallInTransaction(h, op)
  \/ ReturnBegun(h)
  \/ ReturnBeginFailed(h)
  \/ ReturnText(h)
  \/ ReturnEnded(h)
  \/ ReturnEndFailed(h)
  \/ Destroy(h)
  \/ \E g \in Handles : Move(h, g)

Next ==
  \/ \E h \in Handles : HandleStep(h)
  \/ \E c \in Callers : Serve(c)
  \/ \E op \in Texts : CallPlain(op)
  \/ ReturnPlain \/ CallClose \/ ReturnClose
  \/ EndResult \/ LoseServer \/ Over

Spec == Init /\ [][Next]_vars

\* The event loop resumes every answered call, the server answers every
\* statement, and the SqlTransaction that owns the lock, wherever it has been
\* moved to, leaves its scope sooner or later.
Fairness ==
  /\ \A c \in Callers : WF_vars(Serve(c))
  /\ WF_vars(ReturnPlain) /\ WF_vars(ReturnClose)
  /\ \A h \in Handles :
       /\ WF_vars(ReturnBegun(h) \/ ReturnBeginFailed(h))
       /\ WF_vars(ReturnText(h))
       /\ WF_vars(ReturnEnded(h) \/ ReturnEndFailed(h))
       /\ SF_vars(Destroy(h) /\ mOwns[h])

FairSpec == Spec /\ Fairness

-----------------------------------------------------------------------------
(* Properties.                                                             *)

Begun(h) == mState[h] = "Beginned"

\* While the database is locked there is a handle that will unlock it: no
\* interleaving of begin, commit, rollback, move and destruction leaves
\* mInTransaction set with no owner (sqldatabase.cpp:48-105).
NoOrphanLock == mInTransaction => \E h \in Handles : mOwns[h]

\* While a handle is begun and not about to end, SqlDatabase::connection()
\* answers busy, as its comment promises (sqldatabase.hpp:89).
ConnectionRefusedInTransaction ==
  (\E h \in Handles : Begun(h) /\ call[h].op \notin Ends) => mInTransaction

\* At most one handle believes that it runs the session's transaction.
SingleHolder == \A h, g \in Handles : Begun(h) /\ Begun(g) => h = g

\* close() never destroys the connection that a begun handle, or a handle
\* suspended in a call, still points to (sqldatabase.cpp:30-37).
NoDanglingConnection ==
  \A h \in Handles : Begun(h) \/ call[h].op # "none" => mLink[h] /\ mConnection

Loses(h) == Begun(h) /\ mState'[h] = "Committed" /\ h \in wrote /\ h \notin server'.kept

\* When commit() reports success, what the handle wrote is kept by the server.
CommitKeepsWrites == [][\A h \in Handles : ~Loses(h)]_vars

\* h ends its transaction other than by commit, and a write of its is kept by
\* the server or can still be committed by someone else.
Leaks(h) ==
  /\ Begun(h)
  /\ mState'[h] \in {"RolledBack", "absent"}
  /\ h \in server'.kept \cup server'.dirty

\* A write of the program's own is done, inside somebody's open transaction.
Caught == call[Plain] = [op |-> "write", answer |-> "ok"] /\ call'[Plain] = NoCall /\ Plain \in server.dirty

\* What the calls report of writes is so, as long as no statement slipped: none
\* was refused for an unread result, and no SET autocommit failed, and reported as
\* done.  On SQLite none ever slips.  A commit that reports success has the writes
\* kept, where the driver passes on a refused COMMIT, which is SQLite.  After a
\* rollback that reports success, or the destruction of a begun handle, none of
\* them remains: on the servers for every handle, on SQLite for one that was told
\* of no error since its BEGIN (an error may have made SQLite roll back by itself,
\* and later writes of the handle autocommit).  And a write through SqlDatabase is
\* never caught inside an open transaction, where somebody's rollback would undo
\* it, nor left in one that nobody opened.
WritesLandAsReported ==
  [][/\ slipped' => backend # "sqlite"
     /\ ~slipped' =>
          /\ \A h \in Handles : backend = "sqlite" => ~Loses(h)
          /\ \A h \in Handles : (backend = "sqlite" => h \notin erred) => ~Leaks(h)
          /\ ~Caught]_vars

\* A locked database is unlocked again.
LockReleased == mInTransaction ~> ~mInTransaction

\* The lock is the abstract one of TransactionLock: taken only when free, held
\* by one handle, handed over only by a move, set exactly while it is held.
Holder == IF \E h \in Handles : Begun(h)
            THEN CHOOSE h \in Handles : Begun(h) ELSE Plain
Lock == INSTANCE TransactionLock
          WITH Holders <- Handles, Nobody <- Plain,
               holder <- Holder, locked <- mInTransaction
LockSpec == Lock!Spec
=============================================================================
