---------------------------- MODULE MysqlResults ----------------------------
(***************************************************************************)
(* The MySQL driver: the result sets and prepared statements that share    *)
(* one MYSQL connection (src/mysql/mysql.cpp, src/mysql/sqlresult.cpp).    *)
(*                                                                         *)
(* query() only reads the header of a command's first result.  The rows    *)
(* are stored, and the further results of the command asked for, when      *)
(* next() needs them, from whatever the connection holds at that moment.   *)
(*                                                                         *)
(* A MYSQL has one context for the connector's call that is suspended.     *)
(* Nothing in the driver keeps a second call from being started over it,   *)
(* as when_all() of two db.query() does: the connection is "mixed" then,   *)
(* and what its calls do from there on is undefined.                       *)
(***************************************************************************)
EXTENDS Naturals, FiniteSets, SequencesExt

CONSTANTS
  Sets,     \* places a MysqlResultSet can live in
  Stmts,    \* places a MysqlStatement can live in
  MaxRows,  \* bound: rows of one result
  Rules,    \* what clients keep to.  "finish": a command is sent when the other
            \* result sets are at their end, or hold the only result of their
            \* command and the new one has one only; a statement is not run again
            \* under a result set of its own; nothing is read past its end.
            \* "drain": a result set is not destroyed before that; "plain":
            \* execute() is given commands with one result, and that without rows
  None      \* no result set, no statement, no result

ASSUME RowBound == MaxRows \in Nat
ASSUME KnownRules == Rules \subseteq {"finish", "drain", "plain"}

VARIABLES
  conn,   \* MYSQL: the link, the result that is announced and not stored (head,
          \* pending as a "text" or a "stmt" result) and those that follow it
  set,    \* the result sets: mResult with the row it is at, and what they gave
  stmt,   \* the statements; "rows" when the last result announced has columns
  turn,   \* the set whose next() is under way, and at which await
  sent    \* the command that is under way: the set and the statement that its
          \* answer is for

vars == <<conn, set, stmt, turn, sent>>

Result(s, i, kind, n) == [of |-> s, i |-> i, kind |-> kind, rows |-> n]
Unlinked == [link |-> "init", pending |-> "none", head |-> None, more |-> <<>>]
Absent   == [life |-> "none", by |-> None, answer |-> <<>>, res |-> None, row |-> 0,
             seen |-> <<>>, told |-> "none"]
NoTurn   == [set |-> None, at |-> "none"]

Command(does, s, p, a) == [does |-> does, to |-> s, by |-> p, answer |-> a]
NoCommand == Command("none", None, None, <<>>)

Results == [of : Sets \cup {None}, i : 1..2, kind : {"rows", "ok", "error"}, rows : 0..MaxRows]

ASSUME NoneIsNothing == None \notin Sets \cup Stmts \cup Results

\* The results of a command of s: one, or (a CALL) two.
Answers(s) ==
  LET one(i) == {Result(s, i, "ok", 0), Result(s, i, "error", 0)}
                  \cup {Result(s, i, "rows", n) : n \in 0..MaxRows}
  IN {<<r>> : r \in one(1)}
       \cup {<<r, q>> : r \in {x \in one(1) : x.kind # "error"}, q \in one(2)}

Rows    == (Sets \cup {None}) \X (1..2) \X (1..MaxRows)

Links    == {"init", "half", "ok", "lost", "mixed", "closed"}
Pendings == {"none", "text", "stmt"}
Awaits   == {"none", "store", "fetch", "advance"}

\* Only results with columns are announced; the one that fetchRow() reads is
\* there; one call is under way, of a set that is alive or to make one.
TypeOK ==
  /\ conn \in [link : Links, pending : Pendings, head : Results \cup {None}, more : Seq(Results)]
  /\ set \in [Sets -> [life : {"none", "live"}, by : Stmts \cup {None}, answer : Seq(Results),
                       res : Results \cup {None}, row : 0..MaxRows, seen : Seq(Rows),
                       told : {"none", "end", "error"}]]
  /\ stmt \in [Stmts -> {"none", "live", "rows", "kept"}]
  /\ turn \in [set : Sets \cup {None}, at : Awaits]
  /\ conn.pending # "none" => conn.head # None
  /\ conn.head # None => conn.head.kind = "rows"
  /\ \A s \in Sets :
       /\ set[s].life = "none" => set[s] = Absent
       /\ set[s].res # None => set[s].res.kind = "rows" /\ set[s].row <= set[s].res.rows
  /\ turn.set = None <=> turn.at = "none"
  /\ turn.set # None => set[turn.set].life = "live"
  /\ turn.at = "fetch" => set[turn.set].res # None
  /\ sent \in [does : {"none", "query", "prepare"}, to : Sets \cup {None},
              by : Stmts \cup {None}, answer : Seq(Results)]
  /\ sent.does = "none" => sent = NoCommand
  /\ sent.does = "query" => sent.answer \in Answers(sent.to)
  /\ sent.to # None => set[sent.to].life = "none"
  /\ turn = NoTurn \/ sent = NoCommand

Init ==
  /\ conn = Unlinked
  /\ set = [s \in Sets |-> Absent]
  /\ stmt = [p \in Stmts |-> "none"]
  /\ turn = NoTurn
  /\ sent = NoCommand

-----------------------------------------------------------------------------
(* The connector.                                                          *)

\* A command is refused ("commands out of sync") while results are unread.
Accepts == conn.link = "ok" /\ conn.pending = "none" /\ conn.more = <<>>

\* The header of the first of these results is read.
Announced(k, rs, how) ==
  CASE Head(rs).kind = "rows"  -> [k EXCEPT !.pending = how, !.head = Head(rs), !.more = Tail(rs)]
    [] Head(rs).kind = "ok"    -> [k EXCEPT !.pending = "none", !.head = None, !.more = Tail(rs)]
    [] Head(rs).kind = "error" -> [k EXCEPT !.pending = "none", !.head = None, !.more = <<>>]
Taken(k)   == [k EXCEPT !.pending = "none", !.head = None]
ReadOff(k) == [k EXCEPT !.pending = "none", !.more = <<>>]

\* No call is suspended on the connection.
Resting == turn = NoTurn /\ sent = NoCommand

\* A call that does not suspend is made: over a suspended one, its context is lost.
Mixed     == [Unlinked EXCEPT !.link = "mixed"]
Called(k) == IF Resting THEN k ELSE Mixed

\* A result whose bytes had arrived can be read after the link was lost.
LoseServer ==
  /\ conn.link = "ok"
  /\ conn' = [conn EXCEPT !.link = "lost"]
  /\ UNCHANGED <<set, stmt, turn, sent>>

\* Another coroutine calls the connection, a statement or a result set before the
\* call under way came back.  From here on only what is alive is followed: what
\* the result sets hold and give may be anything.
Overlap ==
  /\ ~Resting /\ conn.link \in {"ok", "lost"}
  /\ conn' = Mixed
  /\ set' = [s \in Sets |-> [Absent EXCEPT !.life = set[s].life, !.by = set[s].by]]
  /\ turn' = [turn EXCEPT !.at = IF turn.set = None THEN "none" ELSE "store"]
  /\ UNCHANGED <<stmt, sent>>

\* The call that was under way comes back with anything, or never.
Stray ==
  /\ conn.link = "mixed" /\ ~Resting
  /\ turn' = NoTurn /\ sent' = NoCommand
  /\ \/ set' = set
     \/ \E s \in Sets : s = sent.to /\ set' = [set EXCEPT ![s] = [@ EXCEPT !.life = "live", !.by = sent.by]]
  /\ UNCHANGED <<conn, stmt>>

-----------------------------------------------------------------------------
(* Rules for clients.                                                      *)

Single(a)  == Len(a) = 1
AtEnd(s)   == set[s].told # "none"
Only(s)    == set[s].res # None /\ Single(set[s].answer)
OpenSets   == {s \in Sets : set[s].life = "live" /\ ~AtEnd(s)}
SetsOf(p)  == {s \in Sets : set[s].life = "live" /\ set[s].by = p}

\* Whoever meets an overlap is past caring for the rules.
Kept(rule) == rule \in Rules /\ conn.link # "mixed"

MayClose == Kept("finish") => \A s \in OpenSets : Single(set[s].answer)

MayRun(a) ==
  Kept("finish") => OpenSets = {} \/ (Single(a) /\ \A s \in OpenSets : Only(s))
MayExecute(a) ==
  Kept("plain") => Single(a) /\ a[1].kind # "rows"

-----------------------------------------------------------------------------
(* Commands: sent, and answered later.                                     *)

Send(c) ==
  /\ Resting
  /\ sent' = c
  /\ UNCHANGED <<conn, set, stmt, turn>>

\* The answer has arrived, before the link was lost or in spite of it.
Answered(does, s, p) ==
  /\ sent.does = does /\ sent.to = s /\ sent.by = p
  /\ conn.link \in {"ok", "lost"}
  /\ sent' = NoCommand
  /\ UNCHANGED turn

\* A new result set of the statement p, or of a text.
Opened(p, a) == [Absent EXCEPT !.life = "live", !.by = p, !.answer = a]
Made(s, p) ==
  set' = IF sent.answer[1].kind = "error" THEN set
         ELSE [set EXCEPT ![s] = Opened(p, sent.answer)]

\* MysqlConnection::query.
CallQuery(s, a) ==
  /\ Accepts /\ MayRun(a) /\ set[s].life = "none"
  /\ Send(Command("query", s, None, a))

Query(s) ==
  /\ Answered("query", s, None)
  /\ conn' = Announced(conn, sent.answer, "text")
  /\ Made(s, None)
  /\ UNCHANGED stmt

\* MysqlConnection::execute: the result set of query() is destroyed unread.
CallExecute(a) ==
  /\ Accepts /\ MayRun(a) /\ MayExecute(a)
  /\ Send(Command("query", None, None, a))

Execute ==
  /\ Answered("query", None, None)
  /\ conn' = Announced(conn, sent.answer, "text")
  /\ UNCHANGED <<set, stmt>>

CallPrepare(p) ==
  /\ Accepts /\ stmt[p] = "none"
  /\ Kept("finish") => \A s \in OpenSets : Only(s)
  /\ Send(Command("prepare", None, p, <<>>))

Prepare(p) ==
  /\ Answered("prepare", None, p)
  /\ stmt' = [stmt EXCEPT ![p] = "live"]
  /\ UNCHANGED <<conn, set>>

\* MysqlStatement::query and execute.  Unread results of the statement itself
\* are read off first.
CallPrepared(s, p, a) ==
  /\ MayRun(a)
  /\ Kept("finish") => SetsOf(p) = {}
  /\ stmt[p] \in {"live", "rows"}
  /\ Accepts \/ (conn.link = "ok" /\ stmt[p] = "rows" /\ conn.pending = "stmt")
  /\ Send(Command("query", s, p, a))

RunPrepared(s, p) ==
  /\ Answered("query", s, p)
  /\ conn' = Announced(ReadOff(conn), sent.answer, "stmt")
  /\ stmt' = [stmt EXCEPT ![p] = IF sent.answer[1].kind = "rows" THEN "rows" ELSE "live"]

CallQueryPrepared(s, p, a) == set[s].life = "none" /\ CallPrepared(s, p, a)

QueryPrepared(s, p) == RunPrepared(s, p) /\ Made(s, p)

CallExecutePrepared(p, a) == MayExecute(a) /\ CallPrepared(None, p, a)

ExecutePrepared(p) == RunPrepared(None, p) /\ UNCHANGED set

\* No answer: the call comes back with an error.
Unanswered ==
  /\ conn.link = "lost" /\ sent # NoCommand
  /\ sent' = NoCommand
  /\ UNCHANGED <<conn, set, stmt, turn>>

-----------------------------------------------------------------------------
(* SqlQueryResult::next() and SqlStmtResult::next().                       *)

CallNext(s) ==
  /\ Resting
  /\ set[s].life = "live"
  /\ conn.link # "mixed"
  /\ Kept("finish") => ~AtEnd(s)
  /\ turn' = [set |-> s, at |-> IF set[s].res = None THEN "store" ELSE "fetch"]
  /\ UNCHANGED <<conn, set, stmt, sent>>

\* The await that the next() of s is at.
At(s, await) ==
  /\ turn = [set |-> s, at |-> await] /\ conn.link # "mixed"
  /\ UNCHANGED sent

Goto(at) == turn' = [turn EXCEPT !.at = at]
Tell(t)  == turn' = NoTurn /\ set' = [set EXCEPT ![turn.set].told = t]

\* What storing a result can come to: it is read; there is none; an error.
Stores(s) ==
  LET wanted == IF set[s].by = None THEN conn.head # None ELSE stmt[set[s].by] = "rows"
      how    == IF set[s].by = None THEN "text" ELSE "stmt"
  IN IF ~wanted THEN {"nothing"}
     ELSE IF conn.pending # how THEN {"error"}
     ELSE IF conn.link = "lost" THEN {"stored", "error"} ELSE {"stored"}

\* Fault: the row of the result before is not forgotten.
StoredWithOldRow(s) == [set[s] EXCEPT !.res = conn.head]

Stored(s) == [set[s] EXCEPT !.res = conn.head, !.row = 0]

\* storeCurrentResultIfNeeded().
Store(s) ==
  /\ At(s, "store")
  /\ \/ /\ "stored" \in Stores(s)
        /\ conn' = Taken(conn)
        /\ set' = [set EXCEPT ![s] = Stored(s)]
        /\ Goto("fetch")
     \/ /\ "nothing" \in Stores(s)
        /\ Goto("advance")
        /\ UNCHANGED <<conn, set>>
     \/ /\ "error" \in Stores(s)
        /\ conn' = IF conn.link = "lost" THEN ReadOff(conn) ELSE conn
        /\ Tell("error")
  /\ UNCHANGED stmt

\* Fault: the end of a result is taken for the end of the command.
FetchEndsAtOnce(s) ==
  /\ At(s, "fetch")
  /\ IF set[s].row < set[s].res.rows
       THEN /\ set' = [set EXCEPT ![s].row = @ + 1,
                                  ![s].seen = Append(@, <<set[s].res.of, set[s].res.i, set[s].row + 1>>)]
            /\ turn' = NoTurn
       ELSE Tell("end")
  /\ UNCHANGED <<conn, stmt>>

\* fetchRow(): rows come from the stored result, which goes after the last one.
Fetch(s) ==
  /\ At(s, "fetch")
  /\ IF set[s].row < set[s].res.rows
       THEN /\ set' = [set EXCEPT ![s].row = @ + 1,
                                  ![s].seen = Append(@, <<set[s].res.of, set[s].res.i, set[s].row + 1>>)]
            /\ turn' = NoTurn
       ELSE set' = [set EXCEPT ![s].res = None] /\ Goto("advance")
  /\ UNCHANGED <<conn, stmt>>

\* Fault: -1 ("no more results") is not told apart from 0.
AdvanceOn(s) ==
  /\ At(s, "advance")
  /\ IF conn.more = <<>> THEN UNCHANGED conn
     ELSE conn' = Announced(conn, conn.more, IF set[s].by = None THEN "text" ELSE "stmt")
  /\ Goto("store")
  /\ UNCHANGED <<set, stmt>>

\* advanceToNextResult().  A prepared statement asks whether there is one before
\* it looks at the state of the connection.
Advance(s) ==
  LET p   == set[s].by
      how == IF p = None THEN "text" ELSE "stmt"
      synced == conn.pending = "none" \/ (p # None /\ conn.more = <<>>)
  IN /\ At(s, "advance")
     /\ \/ synced /\ conn.more = <<>> /\ Tell("end") /\ UNCHANGED <<conn, stmt>>
        \/ /\ synced /\ conn.more # <<>>
           /\ conn' = Announced(conn, conn.more, how)
           /\ IF Head(conn.more).kind = "error"
                THEN Tell("error") /\ UNCHANGED stmt
                ELSE /\ Goto("store")
                     /\ stmt' = IF p = None THEN stmt
                                ELSE [stmt EXCEPT ![p] = IF Head(conn.more).kind = "rows" THEN "rows" ELSE "live"]
                     /\ UNCHANGED set
        \/ /\ ~synced \/ conn.link = "lost"
           /\ conn' = IF conn.link = "lost" THEN [conn EXCEPT !.more = <<>>] ELSE conn
           /\ Tell("error")
           /\ UNCHANGED stmt

-----------------------------------------------------------------------------
(* Letting go.                                                             *)

\* mysql_stmt_close() reads off what the statement left unread, and may do so
\* with what others did.
Closing(k) == {ReadOff(k)} \cup (IF k.pending = "stmt" THEN {} ELSE {k})
Closed     == \E k \in Closing(conn) : conn' = Called(k)

\* Fault: a result set that is destroyed keeps its stored result.
DestroyKeepsResult(s) ==
  /\ set[s].life = "live" /\ turn.set # s
  /\ Kept("drain") => AtEnd(s) \/ Only(s)
  /\ set' = [set EXCEPT ![s] = [Absent EXCEPT !.row = set[s].row]]
  /\ LET p == set[s].by
     IN IF p # None /\ stmt[p] = "kept" /\ SetsOf(p) = {s}
          THEN MayClose /\ Closed /\ stmt' = [stmt EXCEPT ![p] = "none"]
          ELSE UNCHANGED <<conn, stmt>>
  /\ UNCHANGED <<turn, sent>>

\* ~MysqlResultSet(): nothing is read off the connection, unless it was the last
\* to keep the MYSQL_STMT of a destroyed statement.
Destroy(s) ==
  /\ set[s].life = "live" /\ turn.set # s
  /\ Kept("drain") => AtEnd(s) \/ Only(s)
  /\ set' = [set EXCEPT ![s] = Absent]
  /\ LET p == set[s].by
     IN IF p # None /\ stmt[p] = "kept" /\ SetsOf(p) = {s}
          THEN MayClose /\ Closed /\ stmt' = [stmt EXCEPT ![p] = "none"]
          ELSE UNCHANGED <<conn, stmt>>
  /\ UNCHANGED <<turn, sent>>

\* ~MysqlStatement(): its result sets keep the MYSQL_STMT.
DropStatement(p) ==
  /\ stmt[p] \in {"live", "rows"} /\ sent.by # p
  /\ Kept("drain") => \A s \in SetsOf(p) : AtEnd(s) \/ Only(s)
  /\ IF SetsOf(p) = {}
       THEN MayClose /\ Closed /\ stmt' = [stmt EXCEPT ![p] = "none"]
       ELSE stmt' = [stmt EXCEPT ![p] = "kept"] /\ UNCHANGED conn
  /\ UNCHANGED <<set, turn, sent>>

\* MysqlStatement::reset().
Reset(p) ==
  /\ stmt[p] \in {"live", "rows"} /\ sent.by # p
  /\ Kept("finish") => SetsOf(p) = {}
  /\ conn' = Called(IF stmt[p] = "rows" /\ conn.pending = "stmt" THEN ReadOff(conn) ELSE conn)
  /\ stmt' = [stmt EXCEPT ![p] = "live"]
  /\ UNCHANGED <<set, turn, sent>>

-----------------------------------------------------------------------------
(* The connection.  A client closes it when its statements and result sets *)
(* are gone and does not touch it again; the next one is a new object.     *)

Unused == Resting /\ (\A s \in Sets : set[s].life = "none") /\ (\A p \in Stmts : stmt[p] = "none")

\* "half": SET time_zone failed, and mysql_real_connect() is refused from now on.
Connect ==
  /\ conn.link = "init"
  /\ \E link \in {"ok", "half"} : conn' = [conn EXCEPT !.link = link]
  /\ UNCHANGED <<set, stmt, turn, sent>>

Disconnect ==
  /\ conn.link \notin {"init", "closed"}
  /\ Unused
  /\ conn' = [Unlinked EXCEPT !.link = "closed"]
  /\ UNCHANGED <<set, stmt, turn, sent>>

NewConnection ==
  /\ conn.link = "closed" /\ Resting
  /\ conn' = Unlinked
  /\ UNCHANGED <<set, stmt, turn, sent>>

-----------------------------------------------------------------------------
\* The connector goes on with the call under way.
Resume ==
  \/ \E s \in Sets :
       \/ Store(s) \/ Fetch(s) \/ Advance(s)
       \/ Query(s) \/ \E p \in Stmts : QueryPrepared(s, p)
  \/ \E p \in Stmts : Prepare(p) \/ ExecutePrepared(p)
  \/ Execute \/ Unanswered

Next ==
  \/ \E s \in Sets :
       \/ \E a \in Answers(s) : CallQuery(s, a) \/ \E p \in Stmts : CallQueryPrepared(s, p, a)
       \/ CallNext(s) \/ Destroy(s)
  \/ \E a \in Answers(None) : CallExecute(a) \/ \E p \in Stmts : CallExecutePrepared(p, a)
  \/ \E p \in Stmts : CallPrepare(p) \/ DropStatement(p) \/ Reset(p)
  \/ Resume
  \/ LoseServer \/ Overlap \/ Stray \/ Connect \/ Disconnect \/ NewConnection

Spec == Init /\ [][Next]_vars

\* Whoever has called is resumed.
FairSpec == Spec /\ WF_vars(Resume)

-----------------------------------------------------------------------------
(* Properties.                                                             *)

\* All rows of a command's results, in the order next() is to give them.
RowsOf(s, i) ==
  [r \in 1..(IF i <= Len(set[s].answer) THEN set[s].answer[i].rows ELSE 0) |-> <<s, i, r>>]
AllRows(s) == RowsOf(s, 1) \o RowsOf(s, 2)

\* As long as calls take turns on the connection, a result set gives the rows of
\* its own command, in order and without gaps, while other result sets are read
\* and statements are run and destroyed; when next() says "no more" all rows of
\* all results were given and none of the results was an error.
RowsAreOwnAndAll ==
  conn.link # "mixed" =>
    \A s \in Sets :
      /\ IsPrefix(set[s].seen, AllRows(s))
      /\ set[s].told = "end" =>
           set[s].seen = AllRows(s) /\ \A i \in 1..Len(set[s].answer) : set[s].answer[i].kind # "error"

\* While results are unread the connection refuses every command, so there is a
\* result set, not yet at its end, that will read them.
PendingHasReader ==
  conn.link = "ok" /\ Resting =>
    /\ conn.pending # "none" => conn.head.of \in OpenSets
    /\ \A i \in 1..Len(conn.more) : conn.more[i].of \in OpenSets

\* A call comes back unless another is started over it, however many results
\* without rows next() passes over.
NextReturns == ~Resting ~> (Resting \/ conn.link = "mixed")
=============================================================================
