---------------------------- MODULE PgConnection ----------------------------
(***************************************************************************)
(* The PostgreSQL driver: one Postgres connection object, the streaming    *)
(* result sets and prepared statements that share it, and the calls that   *)
(* coroutines are suspended in (src/postgres/postgres.cpp).                *)
(*                                                                         *)
(* libpq gives a connection a single stream of results.  It refuses a new  *)
(* command until the stream has been read up to its closing NULL, and it   *)
(* does not know which object a result is read for.  In the model a result *)
(* names the result set whose command produced it; the driver never looks  *)
(* at that.  Results of COPY are left out: the driver does nothing about   *)
(* them.                                                                   *)
(***************************************************************************)
EXTENDS Naturals, FiniteSets, Sequences

CONSTANTS
  Clients,   \* coroutines that use the connection
  Sets,      \* places a PostgresStreamingResultSet can live in
  Stmts,     \* places a PostgresStatement can live in
  MaxRows,   \* bound: rows a command returns
  Rules,     \* what clients keep to.  "sets": finished result sets are destroyed
             \* before the next command; "session": nothing is in use during a
             \* disconnect, a connect or a synchronous rollback
  None       \* no result set, no statement, nobody

ASSUME NoneIsNothing == None \notin Clients \cup Sets \cup Stmts
ASSUME ReadersAreApart == Clients \cap Sets = {}
ASSUME RowBound == MaxRows \in Nat
ASSUME KnownRules == Rules \subseteq {"sets", "session"}

VARIABLES
  conn,   \* PGconn: its link, whether a command is in progress, and which, and
          \* the results of it that are still unread
  set,    \* the result sets, with what their command returns and what they gave
  stmt,   \* "none", "live" or, with mPrepared set, "prepared"
  named,  \* the statements the session knows by name; None: one without object
  call    \* per client, the call it is suspended in

vars == <<conn, set, stmt, named, call>>

Result(k, s, n) == [kind |-> k, of |-> s, n |-> n]
Lost   == Result("lost", None, 0)
Null   == Result("null", None, 0)
NoCall == [op |-> "none", at |-> "none", set |-> None, stmt |-> None]
Absent == [life |-> "none", ready |-> Null, ended |-> FALSE,
           rows |-> 0, fails |-> FALSE, seen |-> <<>>, told |-> "none"]
Closed == [link |-> "none", busy |-> FALSE, kind |-> "none", queue |-> <<>>]

Kinds   == {"row", "tuples", "command", "fatal", "gone"}
Results == [kind : Kinds, of : Sets \cup {None}, n : 0..(MaxRows + 1)]

Ops    == {"none", "query", "execute", "next", "ping", "disconnect"}
\* Where a call is: before a result set exists, reading, or at the end of it.
Points == {"none", "prepare", "prepared", "mode", "first", "next",
           "drain open", "drain end", "drain error", "ping", "closing"}

\* Local result sets are those of the query and execute calls under way.
TypeOK ==
  /\ conn \in [link : {"none", "half", "ok", "bad"}, busy : BOOLEAN,
               kind : {"none", "query", "prepare", "ping"}, queue : Seq(Results)]
  /\ set \in [Sets -> [life : {"none", "local", "live"}, ready : Results \cup {Null},
                       ended : BOOLEAN, rows : 0..MaxRows, fails : BOOLEAN,
                       seen : Seq(Results), told : {"none", "end", "error"}]]
  /\ stmt \in [Stmts -> {"none", "live", "prepared"}]
  /\ named \subseteq Stmts \cup {None}
  /\ call \in [Clients -> [op : Ops, at : Points, set : Sets \cup {None}, stmt : Stmts \cup {None}]]
  /\ \A s \in Sets :
       set[s].life = "local" <=> \E c \in Clients : call[c].set = s /\ call[c].op # "next"

Init ==
  /\ conn = [Closed EXCEPT !.link = "ok"]
  /\ set = [s \in Sets |-> Absent]
  /\ stmt = [p \in Stmts |-> "none"]
  /\ named = {}
  /\ call = [c \in Clients |-> NoCall]

-----------------------------------------------------------------------------
(* libpq.                                                                  *)

\* What a command returns: rows of its first statement, how that statement
\* ends, and what a second statement of the same text adds.
Answers ==
  {a \in [rows : 0..MaxRows, end : {"tuples", "command", "fatal"}, more : {"none", "row", "fatal"}] :
     /\ a.end = "command" => a.rows = 0
     /\ a.end = "fatal" => a.more = "none"}

\* One statement only when it was prepared, and nothing but an error when the
\* session does not know it.
AnswersTo(p) ==
  {a \in Answers :
     p # None => a.more = "none" /\ (p \notin named => a.rows = 0 /\ a.end = "fatal")}

Stream(s, a) ==
  [n \in 1..a.rows |-> Result("row", s, n)]
    \o <<Result(a.end, s, 0)>>
    \o CASE a.more = "none" -> <<>>
         [] a.more = "row" -> <<Result("row", s, a.rows + 1), Result("tuples", s, 0)>>
         [] a.more = "fatal" -> <<Result("fatal", s, 0)>>

\* PQsendQuery and its kin are refused while a command is in progress.
Accepts(k) == k.link = "ok" /\ ~k.busy
Sent(k, kind, results) == [k EXCEPT !.busy = TRUE, !.kind = kind, !.queue = results]

\* What getResult() may come back with, and the connection afterwards.
Arrivals ==
  LET readable == IF conn.queue = <<>> THEN {Null}
                  ELSE {r \in {Head(conn.queue)} : r.kind # "gone"}
      failing == conn.link = "none" \/ (conn.link = "bad" /\ conn.busy)
  IN readable \cup (IF failing THEN {Lost} ELSE {})

After(r) ==
  CASE r = Lost -> conn
    [] r = Null -> [conn EXCEPT !.busy = FALSE]
    [] OTHER -> [conn EXCEPT !.queue = Tail(@)]

\* drainPendingResultsBlocking(), on a connection whose status is good.
Drained(k) ==
  IF k.link = "ok" THEN [k EXCEPT !.busy = FALSE, !.queue = <<>>] ELSE k

\* Some of the unread results had arrived.  libpq closes the stream with an
\* error of its own or, before version 14, stays busy and fails every read.
LoseServer ==
  /\ conn.link = "ok"
  /\ \E n \in 0..Len(conn.queue), last \in {"fatal", "gone"} :
       conn' = [conn EXCEPT
                  !.link = "bad",
                  !.queue = IF conn.busy THEN SubSeq(@, 1, n) \o <<Result(last, None, 0)>> ELSE @]
  /\ named' = {}
  /\ UNCHANGED <<set, stmt, call>>

-----------------------------------------------------------------------------
(* The start of a call, up to its first await.                             *)

Idle(c)     == call[c] = NoCall
InUse(s)    == \E c \in Clients : call[c].set = s
Finished(s) == set[s].life = "live" /\ set[s].ended
Quiet       == (\A c \in Clients : Idle(c)) /\ (\A s \in Sets : set[s].life = "none")

Leaving == \E c \in Clients : call[c].op = "disconnect"

MayStart(c) ==
  /\ Idle(c)
  /\ Accepts(conn)
  /\ "session" \in Rules => ~Leaving
  /\ "sets" \in Rules => \A s \in Sets : ~Finished(s)

Start(c, op, at, s, p) ==
  call' = [call EXCEPT ![c] = [op |-> op, at |-> at, set |-> s, stmt |-> p]]
Goto(c, at) == call' = [call EXCEPT ![c].at = at]
Hangup(c)   == call' = [call EXCEPT ![c] = NoCall]

\* Send the command of set s; the server settles what it will return.
Issue(k, s, p) ==
  \E a \in AnswersTo(p) :
    /\ conn' = Sent(k, "query", Stream(s, a))
    /\ set' = [set EXCEPT ![s] = [Absent EXCEPT !.life = "local", !.rows = a.rows,
                                                !.fails = (a.end = "fatal")]]

\* PostgresConnection::query and execute (p is None), and PostgresStatement::
\* query and execute of a statement whose mPrepared is set.
CallQuery(c, op, s, p) ==
  /\ MayStart(c)
  /\ set[s].life = "none"
  /\ p # None => stmt[p] = "prepared"
  /\ Issue(conn, s, p)
  /\ Start(c, op, "mode", s, p)
  /\ UNCHANGED <<stmt, named>>

\* ensurePrepared() of any other statement first sends PREPARE.
CallPrepare(c, op, s, p) ==
  /\ MayStart(c)
  /\ set[s].life = "none"
  /\ p # None /\ stmt[p] = "live"
  /\ \/ /\ p \notin named
        /\ named' = named \cup {p}
        /\ conn' = Sent(conn, "prepare", <<Result("command", s, 0)>>)
     \/ /\ conn' = Sent(conn, "prepare", <<Result("fatal", s, 0)>>)
        /\ UNCHANGED named
  /\ set' = [set EXCEPT ![s] = [Absent EXCEPT !.life = "local"]]
  /\ Start(c, op, "prepare", s, p)
  /\ UNCHANGED stmt

CallNext(c, s) ==
  /\ Idle(c)
  /\ set[s].life = "live"
  /\ ~InUse(s)
  /\ Start(c, "next", "next", s, None)
  /\ UNCHANGED <<conn, set, stmt, named>>

CallPing(c) ==
  /\ MayStart(c)
  /\ conn' = Sent(conn, "ping", <<Result("row", None, 1), Result("tuples", None, 0)>>)
  /\ Start(c, "ping", "ping", None, None)
  /\ UNCHANGED <<set, stmt, named>>

CallDisconnect(c) ==
  /\ "session" \in Rules => Quiet /\ \A p \in Stmts : stmt[p] = "none"
  /\ Idle(c)
  /\ conn.link # "none"
  /\ Start(c, "disconnect", "closing", None, None)
  /\ UNCHANGED <<conn, set, stmt, named>>

-----------------------------------------------------------------------------
(* The resumptions.                                                        *)

\* Fault: the failing call leaves a result set behind.
FailUnbuiltLeaks(c, k) ==
  /\ conn' = k
  /\ Hangup(c)
  /\ UNCHANGED set

\* The call fails before its result set has been constructed.
FailUnbuilt(c, k) ==
  /\ conn' = k
  /\ set' = [set EXCEPT ![call[c].set] = Absent]
  /\ Hangup(c)

\* ensurePrepared(): on an error the rest of the stream stays unread.
ReturnPrepare(c) ==
  /\ call[c].at = "prepare"
  /\ \E r \in Arrivals :
       IF r.kind = "command"
         THEN conn' = After(r) /\ Goto(c, "prepared") /\ UNCHANGED set
         ELSE FailUnbuilt(c, After(r))
  /\ UNCHANGED <<stmt, named>>

\* ensurePrepared() reads on to the closing NULL, sets mPrepared, and the
\* execution is sent at once.
ReturnPrepared(c) ==
  /\ call[c].at = "prepared"
  /\ \E r \in Arrivals :
       IF r \notin {Null, Lost}
         THEN conn' = After(r) /\ UNCHANGED <<set, stmt, call>>
         ELSE /\ stmt' = [stmt EXCEPT ![call[c].stmt] = "prepared"]
              /\ IF Accepts(After(r))
                   THEN Issue(After(r), call[c].set, call[c].stmt) /\ Goto(c, "mode")
                   ELSE FailUnbuilt(c, After(r))
  /\ UNCHANGED named

\* flushOutput() is done; single-row mode needs a command in progress.
ReturnFlushed(c) ==
  /\ call[c].at = "mode"
  /\ \/ conn.busy /\ Goto(c, "first") /\ UNCHANGED <<conn, set>>
     \/ (conn.link # "ok" \/ ~conn.busy) /\ FailUnbuilt(c, conn)
  /\ UNCHANGED <<stmt, named>>

\* next() returns false or an error; execute() then destroys its result set.
Finish(c, k, new, told) ==
  LET final == [new EXCEPT !.told = IF @ = "none" THEN told ELSE @]
  IN /\ IF call[c].op = "next"
          THEN conn' = k /\ set' = [set EXCEPT ![call[c].set] = final]
          ELSE conn' = Drained(k) /\ set' = [set EXCEPT ![call[c].set] = [final EXCEPT !.life = "none"]]
     /\ Hangup(c)

\* The result set is ready: query() returns it, execute() goes on to read it,
\* and is done at once when there is nothing to read.
Opened(c, k, new) ==
  \/ /\ call[c].op = "query"
     /\ conn' = k
     /\ set' = [set EXCEPT ![call[c].set] = [new EXCEPT !.life = "live"]]
     /\ Hangup(c)
  \/ call[c].op = "execute" /\ new.ended /\ Finish(c, k, new, "end")
  \/ /\ call[c].op = "execute" /\ ~new.ended
     /\ conn' = k
     /\ set' = [set EXCEPT ![call[c].set] = new]
     /\ Goto(c, "next")

\* getResultForQuery().
ReturnFirst(c) ==
  /\ call[c].at = "first"
  /\ \E r \in Arrivals :
       LET old == set[call[c].set]
       IN CASE r = Null -> Opened(c, After(r), [old EXCEPT !.ended = TRUE])
            [] r.kind = "row" -> Opened(c, After(r), [old EXCEPT !.ready = r])
            [] r.kind \in {"tuples", "command"} ->
                 conn' = After(r) /\ Goto(c, "drain open") /\ UNCHANGED set
            [] r.kind \in {"lost", "fatal"} -> FailUnbuilt(c, Drained(After(r)))
  /\ UNCHANGED <<stmt, named>>

\* next() hands a row over; execute() asks for the one after it.
Deliver(c, new, r) ==
  /\ set' = [set EXCEPT ![call[c].set] = [new EXCEPT !.seen = Append(@, r)]]
  /\ IF call[c].op = "next" THEN Hangup(c) ELSE UNCHANGED call

\* PostgresStreamingResultSet::next().
ReturnNext(c) ==
  /\ call[c].at = "next"
  /\ LET old == set[call[c].set]
     IN \/ /\ old.ready # Null
           /\ Deliver(c, [old EXCEPT !.ready = Null], old.ready)
           /\ UNCHANGED conn
        \/ old.ready = Null /\ old.ended /\ Finish(c, conn, old, "end")
        \/ /\ old.ready = Null /\ ~old.ended
           /\ \E r \in Arrivals :
                CASE r = Lost -> Finish(c, After(r), old, "error")
                  [] r = Null -> Finish(c, After(r), [old EXCEPT !.ended = TRUE], "end")
                  [] r.kind = "row" -> conn' = After(r) /\ Deliver(c, old, r)
                  [] r.kind \in {"tuples", "command"} ->
                       conn' = After(r) /\ Goto(c, "drain end") /\ UNCHANGED set
                  [] r.kind = "fatal" ->
                       conn' = After(r) /\ Goto(c, "drain error") /\ UNCHANGED set
  /\ UNCHANGED <<stmt, named>>

\* Fault: a failed read does not end the loop.
DrainOnlyToNull(r) == r = Null

\* drainRemainingResults() stops at the closing NULL or at a failed read.
DrainStops(r) == r \in {Null, Lost}

\* Fault: mEndOfResults is not set when the stream has been read off.
EndingUnmarked(c) == set[call[c].set]

Ending(c) == [set[call[c].set] EXCEPT !.ended = TRUE]

\* drainRemainingResults(), whatever the results are.
Drain(c) ==
  /\ call[c].at \in {"drain open", "drain end", "drain error"}
  /\ \E r \in Arrivals :
       \/ ~DrainStops(r) /\ conn' = After(r) /\ UNCHANGED <<set, call>>
       \/ /\ DrainStops(r)
          /\ CASE call[c].at = "drain open" -> Opened(c, After(r), Ending(c))
               [] call[c].at = "drain end" -> Finish(c, After(r), Ending(c), "end")
               [] call[c].at = "drain error" -> Finish(c, After(r), Ending(c), "error")
  /\ UNCHANGED <<stmt, named>>

\* ping() reads one result and drops the others without awaiting.
ReturnPing(c) ==
  /\ call[c].at = "ping"
  /\ \E r \in Arrivals :
       conn' = IF r = Lost THEN conn ELSE [conn EXCEPT !.busy = FALSE, !.queue = <<>>]
  /\ Hangup(c)
  /\ UNCHANGED <<set, stmt, named>>

\* disconnectAsync() reads to the closing NULL, by force when a read fails, then
\* finishes the connection.
ReturnDisconnect(c) ==
  /\ call[c].at = "closing"
  /\ \E r \in Arrivals :
       IF r \in {Null, Lost}
         THEN conn' = Closed /\ named' = {} /\ Hangup(c)
         ELSE conn' = After(r) /\ UNCHANGED <<named, call>>
  /\ UNCHANGED <<set, stmt>>

-----------------------------------------------------------------------------
(* Operations without an await, and connect().                             *)

\* connect() fails cleanly, or with a PGconn it neither finishes nor uses.
Connect ==
  /\ conn.link = "none"
  /\ ~Leaving
  /\ \E link \in {"ok", "half"} : conn' = [Closed EXCEPT !.link = link]
  /\ UNCHANGED <<set, stmt, named, call>>

\* Fault: only a result set that has not ended reads the stream off.
DestroyLeavesRest(s) ==
  /\ set[s].life = "live"
  /\ ~InUse(s)
  /\ set' = [set EXCEPT ![s] = Absent]
  /\ UNCHANGED <<conn, stmt, named, call>>

\* ~PostgresStreamingResultSet() reads the stream off, whoever's it is.
Destroy(s) ==
  /\ set[s].life = "live"
  /\ ~InUse(s)
  /\ conn' = Drained(conn)
  /\ set' = [set EXCEPT ![s] = Absent]
  /\ UNCHANGED <<stmt, named, call>>

\* syncRollback(): PQexec discards whatever is unread.
SyncRollback ==
  /\ "session" \in Rules => Quiet
  /\ conn.link = "ok"
  /\ conn' = Drained(conn)
  /\ UNCHANGED <<set, stmt, named, call>>

\* PostgresConnection::prepare() parses the text and talks to nobody.
Prepare(p) ==
  /\ stmt[p] = "none"
  /\ stmt' = [stmt EXCEPT ![p] = "live"]
  /\ UNCHANGED <<conn, set, named, call>>

\* ~PostgresStatement(): the deleter of the name was given the pointer that the
\* constructor had already moved from, and sends no DEALLOCATE.
DropStatement(p) ==
  /\ stmt[p] # "none"
  /\ \A c \in Clients : call[c].stmt # p
  /\ stmt' = [stmt EXCEPT ![p] = "none"]
  /\ named' = IF p \in named THEN (named \ {p}) \cup {None} ELSE named
  /\ UNCHANGED <<conn, set, call>>

-----------------------------------------------------------------------------
Resume(c) ==
  \/ ReturnPrepare(c) \/ ReturnPrepared(c) \/ ReturnFlushed(c) \/ ReturnFirst(c)
  \/ ReturnNext(c) \/ Drain(c) \/ ReturnPing(c) \/ ReturnDisconnect(c)

Next ==
  \/ \E c \in Clients :
       \/ \E op \in {"query", "execute"}, s \in Sets, p \in Stmts \cup {None} :
            CallQuery(c, op, s, p) \/ CallPrepare(c, op, s, p)
       \/ \E s \in Sets : CallNext(c, s)
       \/ CallPing(c) \/ CallDisconnect(c)
       \/ Resume(c)
  \/ \E s \in Sets : Destroy(s)
  \/ \E p \in Stmts : Prepare(p) \/ DropStatement(p)
  \/ SyncRollback \/ Connect \/ LoseServer

Spec == Init /\ [][Next]_vars

\* The event loop resumes every call once the server has answered.
FairSpec == Spec /\ \A c \in Clients : WF_vars(Resume(c))

-----------------------------------------------------------------------------
(* Properties.                                                             *)

\* A result set gives the rows of its own command, in order, without gaps; when
\* next() says "no more" all rows of the (first) statement were given and it
\* did not fail, and the same goes for the count that execute() returns.
RowsAreOwnAndAll ==
  \A s \in Sets :
    /\ \A i \in 1..Len(set[s].seen) : set[s].seen[i] = Result("row", s, i)
    /\ set[s].told = "end" => ~set[s].fails /\ Len(set[s].seen) = set[s].rows

\* The calls and result sets that will read from the connection again.
Readers ==
  {s \in Sets : set[s].life # "none" /\ ~set[s].ended}
    \cup {c \in Clients : call[c].op = "ping"}

\* What the C++ objects take the session to be is so.  Two readers are never
\* attached to the stream at once (libpq cannot tell them apart); a command in
\* progress has a reader that will finish it, except that the stream of a failed
\* PREPARE is left to nobody (postgres.cpp:964-972); and a statement that will
\* skip PREPARE is known to the session.
SessionAsBelieved ==
  conn.link = "ok" =>
    /\ Cardinality(Readers) <= 1
    /\ conn.busy /\ conn.kind # "prepare" => Readers # {}
    /\ \A p \in Stmts : stmt[p] = "prepared" => p \in named

\* Every call comes back, also when the link is lost on the way.
CallsReturn == \A c \in Clients : call[c].op # "none" ~> call[c].op = "none"
=============================================================================
