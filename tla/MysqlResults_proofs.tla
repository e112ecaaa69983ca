------------------------ MODULE MysqlResults_proofs ------------------------
(***************************************************************************)
(* Theorems about MysqlResults, for every number of result sets,           *)
(* statements and rows.                                                    *)
(*                                                                         *)
(* A result set takes its rows from whatever the connection holds when     *)
(* next() is called.  That these are its own rests on how few sets can be  *)
(* waiting for the connection: at most one whose result has not been       *)
(* stored, and no other open set at all beside one whose command has two   *)
(* results.  All of it ends where a call is started over a suspended one:  *)
(* the connection is "mixed" then, and only the types hold.                *)
(***************************************************************************)
EXTENDS MysqlResults, TLAPS, SequenceTheorems

ConnType == [link : Links, pending : Pendings, head : Results \cup {None}, more : Seq(Results)]
SetType  == [life : {"none", "live"}, by : Stmts \cup {None}, answer : Seq(Results),
             res : Results \cup {None}, row : 0..MaxRows, seen : Seq(Rows),
             told : {"none", "end", "error"}]
TurnType == [set : Sets \cup {None}, at : Awaits]
StmtType == {"none", "live", "rows", "kept"}
SentType == [does : {"none", "query", "prepare"}, to : Sets \cup {None},
             by : Stmts \cup {None}, answer : Seq(Results)]

\* The parts of TypeOK.
GoodConn(k) ==
  /\ k \in ConnType
  /\ k.pending # "none" => k.head # None
  /\ k.head # None => k.head.kind = "rows"
GoodSet(r) ==
  /\ r \in SetType
  /\ r.life = "none" => r = Absent
  /\ r.res # None => r.res.kind = "rows" /\ r.row <= r.res.rows
GoodTurn ==
  /\ turn \in TurnType
  /\ turn.set = None <=> turn.at = "none"
  /\ turn.set # None => set[turn.set].life = "live"
  /\ turn.at = "fetch" => set[turn.set].res # None
GoodSent ==
  /\ sent \in SentType
  /\ sent.does = "none" => sent = NoCommand
  /\ sent.does = "query" => sent.answer \in Answers(sent.to)
  /\ sent.to # None => set[sent.to].life = "none"
  /\ turn = NoTurn \/ sent = NoCommand

LEMMA Types ==
  TypeOK <=> /\ GoodConn(conn) /\ set \in [Sets -> SetType] /\ \A s \in Sets : GoodSet(set[s])
             /\ stmt \in [Stmts -> StmtType] /\ GoodTurn /\ GoodSent
  BY DEF TypeOK, GoodConn, GoodSet, GoodTurn, GoodSent, ConnType, SetType, TurnType, StmtType, SentType

LEMMA Fresh ==
  /\ Absent \in SetType /\ GoodSet(Absent) /\ GoodConn(Unlinked) /\ GoodConn(Mixed)
  /\ Mixed.link = "mixed"
  /\ NoCommand \in SentType /\ NoCommand.to = None /\ NoCommand.by = None /\ NoCommand.does = "none"
  /\ NoTurn \in TurnType /\ NoTurn.set = None /\ NoTurn.at = "none"
  <1>1. Absent \in SetType /\ GoodSet(Absent)
    BY RowBound, NoneIsNothing DEF Absent, GoodSet, SetType
  <1>2. GoodConn(Unlinked) /\ GoodConn(Mixed) /\ Mixed.link = "mixed"
    <2>1. <<>> \in Seq(Results)
      OBVIOUS
    <2>2. Mixed = [link |-> "mixed", pending |-> "none", head |-> None, more |-> <<>>]
      BY DEF Mixed, Unlinked
    <2>3. GoodConn(Unlinked)
      BY <2>1 DEF Unlinked, GoodConn, ConnType, Links, Pendings
    <2>4. GoodConn(Mixed) /\ Mixed.link = "mixed"
      BY <2>1, <2>2 DEF GoodConn, ConnType, Links, Pendings
    <2> QED BY <2>3, <2>4
  <1>3. NoTurn \in TurnType /\ NoTurn.set = None /\ NoTurn.at = "none"
    BY DEF NoTurn, TurnType, Awaits
  <1>4. /\ NoCommand \in SentType /\ NoCommand.to = None /\ NoCommand.by = None
        /\ NoCommand.does = "none"
    BY DEF NoCommand, Command, SentType
  <1> QED BY <1>1, <1>2, <1>3, <1>4

\* What a command returns.
LEMMA AnswersAre ==
  ASSUME NEW s \in Sets \cup {None}, NEW a \in Answers(s)
  PROVE  /\ a \in Seq(Results) /\ a # <<>> /\ Len(a) \in 1..2 /\ Head(a) = a[1]
         /\ Tail(a) = (IF Len(a) = 1 THEN <<>> ELSE <<a[2]>>)
         /\ \A i \in 1..Len(a) : /\ a[i] \in Results /\ a[i].of = s /\ a[i].i = i
                                 /\ a[i].kind # "rows" => a[i].rows = 0
         /\ Len(a) = 2 => a[1].kind # "error"
  <1> DEFINE one(i) == {Result(s, i, "ok", 0), Result(s, i, "error", 0)}
                         \cup {Result(s, i, "rows", n) : n \in 0..MaxRows}
  <1>1. ASSUME NEW i \in 1..2, NEW r \in one(i)
        PROVE  r \in Results /\ r.of = s /\ r.i = i /\ (r.kind # "rows" => r.rows = 0)
    BY <1>1, RowBound DEF Result, Results
  <1>2. \/ \E r \in one(1) : a = <<r>>
        \/ \E r \in one(1), q \in one(2) : a = <<r, q>> /\ r.kind # "error"
    BY DEF Answers
  <1> HIDE DEF one
  <1>3. CASE \E r \in one(1) : a = <<r>>
    <2>1. PICK r \in one(1) : a = <<r>>
      BY <1>3
    <2>2. r \in Results /\ r.of = s /\ r.i = 1 /\ (r.kind # "rows" => r.rows = 0)
      BY <1>1
    <2> QED BY <2>1, <2>2
  <1>4. CASE \E r \in one(1), q \in one(2) : a = <<r, q>> /\ r.kind # "error"
    <2>1. PICK r \in one(1), q \in one(2) : a = <<r, q>> /\ r.kind # "error"
      BY <1>4
    <2>2. r \in Results /\ r.of = s /\ r.i = 1 /\ (r.kind # "rows" => r.rows = 0)
      BY <1>1
    <2>3. q \in Results /\ q.of = s /\ q.i = 2 /\ (q.kind # "rows" => q.rows = 0)
      BY <1>1
    <2>4. Len(a) = 2 /\ a[1] = r /\ a[2] = q /\ Head(a) = r /\ Tail(a) = <<q>> /\ a # <<>>
          /\ a \in Seq(Results)
      BY <2>1, <2>2, <2>3
    <2>5. \A i \in 1..2 : i = 1 \/ i = 2
      OBVIOUS
    <2> QED BY <2>1, <2>2, <2>3, <2>4, <2>5
  <1> QED BY <1>2, <1>3, <1>4

\* The connection c announces the first of the results rs.
Announces(c, rs, how) ==
  /\ Head(rs).kind = "rows" => c.pending = how /\ c.head = Head(rs) /\ c.more = Tail(rs)
  /\ Head(rs).kind # "rows" => c.pending = "none" /\ c.head = None
  /\ Head(rs).kind = "ok" => c.more = Tail(rs)
  /\ Head(rs).kind = "error" => c.more = <<>>

\* The connection after the header of a result has been read.
LEMMA AnnouncedIs ==
  ASSUME NEW k, GoodConn(k), NEW rs \in Seq(Results), rs # <<>>, NEW how \in {"text", "stmt"}
  PROVE  /\ GoodConn(Announced(k, rs, how)) /\ Announced(k, rs, how).link = k.link
         /\ Announces(Announced(k, rs, how), rs, how)
  <1>1. Head(rs) \in Results /\ Tail(rs) \in Seq(Results) /\ <<>> \in Seq(Results)
    OBVIOUS
  <1>2. Head(rs).kind \in {"rows", "ok", "error"} /\ Head(rs) # None
    BY <1>1, NoneIsNothing DEF Results
  <1>3. CASE Head(rs).kind = "rows"
    BY <1>1, <1>2, <1>3 DEF Announced, Announces, GoodConn, ConnType, Pendings
  <1>4. CASE Head(rs).kind = "ok"
    BY <1>1, <1>2, <1>4 DEF Announced, Announces, GoodConn, ConnType, Pendings
  <1>5. CASE Head(rs).kind = "error"
    BY <1>1, <1>2, <1>5 DEF Announced, Announces, GoodConn, ConnType, Pendings
  <1> QED BY <1>2, <1>3, <1>4, <1>5

\* What takes results away from the connection.
LEMMA ClearedIs ==
  ASSUME NEW k, GoodConn(k)
  PROVE  /\ GoodConn(Taken(k)) /\ Taken(k).link = k.link /\ Taken(k).pending = "none"
         /\ Taken(k).head = None /\ Taken(k).more = k.more
         /\ GoodConn(ReadOff(k)) /\ ReadOff(k).link = k.link /\ ReadOff(k).pending = "none"
         /\ ReadOff(k).head = k.head /\ ReadOff(k).more = <<>>
         /\ \A q \in Closing(k) : q = ReadOff(k) \/ (q = k /\ k.pending # "stmt")
  <1>1. <<>> \in Seq(Results)
    OBVIOUS
  <1> QED BY <1>1 DEF Taken, ReadOff, Closing, GoodConn, ConnType, Pendings

-----------------------------------------------------------------------------
(* Types.                                                                  *)

\* A step that changes one result set, or none.
OneSet(s, new) ==
  \/ set' = set
  \/ s \in Sets /\ GoodSet(new) /\ set' = [set EXCEPT ![s] = new]

LEMMA TypesKept ==
  ASSUME TypeOK, NEW k, conn' = k, GoodConn(k), stmt' \in [Stmts -> StmtType],
         NEW s, NEW new, OneSet(s, new), GoodTurn', GoodSent'
  PROVE  TypeOK'
  <1>1. set \in [Sets -> SetType] /\ \A t \in Sets : GoodSet(set[t])
    BY Types
  <1>2. set' \in [Sets -> SetType] /\ \A t \in Sets : GoodSet(set'[t])
    <2>1. CASE set' = set
      BY <1>1, <2>1
    <2>2. CASE s \in Sets /\ GoodSet(new) /\ set' = [set EXCEPT ![s] = new]
      <3>1. new \in SetType
        BY <2>2 DEF GoodSet
      <3> QED BY <1>1, <2>2, <3>1
    <2> QED BY <2>1, <2>2 DEF OneSet
  <1>3. GoodConn(conn)'
    BY DEF GoodConn
  <1>4. (\A t \in Sets : GoodSet(set[t]))'
    BY <1>2 DEF GoodSet
  <1> QED BY <1>2, <1>3, <1>4, Types DEF TypeOK, GoodConn, GoodSet, GoodTurn, GoodSent, ConnType, SetType,
             TurnType, StmtType, SentType

\* A result set after a result was stored, and after a row was given.
WithResult(r, res, row) == [r EXCEPT !.res = res, !.row = row]
WithRow(r, row, seen)   == [r EXCEPT !.row = row, !.seen = seen]

LEMMA WithResultIs ==
  ASSUME NEW r \in SetType, NEW res \in Results \cup {None}, NEW row \in 0..MaxRows
  PROVE  LET x == WithResult(r, res, row)
         IN /\ x \in SetType /\ x.res = res /\ x.row = row /\ x.life = r.life /\ x.by = r.by
            /\ x.answer = r.answer /\ x.seen = r.seen /\ x.told = r.told
  BY DEF SetType, WithResult

LEMMA WithRowIs ==
  ASSUME NEW r \in SetType, NEW row \in 0..MaxRows, NEW seen \in Seq(Rows)
  PROVE  LET x == WithRow(r, row, seen)
         IN /\ x \in SetType /\ x.res = r.res /\ x.row = row /\ x.life = r.life /\ x.by = r.by
            /\ x.answer = r.answer /\ x.seen = seen /\ x.told = r.told
  BY DEF SetType, WithRow

LEMMA RestingTurn ==
  ASSUME turn' = NoTurn
  PROVE  GoodTurn'
  BY Fresh DEF GoodTurn

LEMMA RestingSent ==
  ASSUME sent' = NoCommand
  PROVE  GoodSent'
  BY Fresh DEF GoodSent

\* One call at a time, unless the connection is mixed.
LEMMA OneCall ==
  ASSUME TypeOK
  PROVE  /\ turn.set # None => turn # NoTurn /\ sent = NoCommand
         /\ sent # NoCommand => turn = NoTurn /\ turn.set = None
         /\ sent.does # "none" => sent # NoCommand
         /\ sent.to # None => sent # NoCommand
  BY Types, Fresh DEF GoodSent

LEMMA OpenedIs ==
  ASSUME NEW p \in Stmts \cup {None}, NEW a \in Seq(Results)
  PROVE  /\ GoodSet(Opened(p, a)) /\ Opened(p, a).life = "live" /\ Opened(p, a).by = p
         /\ Opened(p, a).answer = a /\ Opened(p, a).res = None /\ Opened(p, a).row = 0
         /\ Opened(p, a).seen = <<>> /\ Opened(p, a).told = "none"
  <1>1. Absent \in SetType /\ Absent.res = None /\ Absent.row = 0 /\ Absent.seen = <<>>
          /\ Absent.told = "none"
    BY Fresh DEF Absent
  <1> HIDE DEF Absent
  <1>2. Opened(p, a) \in SetType
    BY <1>1 DEF Opened, SetType
  <1>3. /\ Opened(p, a).life = "live" /\ Opened(p, a).by = p /\ Opened(p, a).answer = a
        /\ Opened(p, a).res = Absent.res /\ Opened(p, a).row = Absent.row
        /\ Opened(p, a).seen = Absent.seen /\ Opened(p, a).told = Absent.told
    BY <1>1 DEF Opened, SetType
  <1> QED BY <1>1, <1>2, <1>3 DEF GoodSet

\* The set may be there or not, as the first result is an error or not.
Sends(s, p, a) == set' = IF a[1].kind = "error" THEN set ELSE [set EXCEPT ![s] = Opened(p, a)]

\* The command sent, and what its answer does to the connection and to the sets.
LEMMA AnsweredIs ==
  ASSUME TypeOK, NEW s \in Sets \cup {None}, NEW p \in Stmts \cup {None},
         Answered("query", s, p)
  PROVE  /\ sent # NoCommand /\ sent.does = "query" /\ sent.to = s /\ sent.by = p
         /\ sent.answer \in Answers(s) /\ sent.answer \in Seq(Results) /\ sent.answer # <<>>
         /\ turn = NoTurn /\ turn' = NoTurn /\ sent' = NoCommand
         /\ conn.link \in {"ok", "lost"} /\ GoodConn(conn) /\ GoodConn(ReadOff(conn))
         /\ ReadOff(conn).link = conn.link /\ GoodTurn' /\ GoodSent'
  <1>1. /\ sent.does = "query" /\ sent.to = s /\ sent.by = p /\ sent' = NoCommand /\ turn' = turn
        /\ conn.link \in {"ok", "lost"}
    BY DEF Answered
  <1>2. sent # NoCommand /\ turn = NoTurn
    BY <1>1, OneCall
  <1>3. sent.answer \in Answers(s) /\ GoodConn(conn)
    BY <1>1, Types DEF GoodSent
  <1>4. sent.answer \in Seq(Results) /\ sent.answer # <<>>
    BY <1>3, AnswersAre
  <1>5. GoodConn(ReadOff(conn)) /\ ReadOff(conn).link = conn.link
    BY <1>3, ClearedIs
  <1>6. GoodTurn' /\ GoodSent'
    BY <1>1, <1>2, RestingTurn, RestingSent
  <1> QED BY <1>1, <1>2, <1>3, <1>4, <1>5, <1>6

\* What the answer to a text, and to a prepared statement, changes.
TextStep(s)    == /\ conn' = Announced(conn, sent.answer, "text") /\ stmt' = stmt
                  /\ (s = None /\ set' = set) \/ (s \in Sets /\ Sends(s, None, sent.answer))
StmtStep(s, p) == /\ conn' = Announced(ReadOff(conn), sent.answer, "stmt")
                  /\ stmt' = [stmt EXCEPT ![p] = IF sent.answer[1].kind = "rows" THEN "rows" ELSE "live"]
                  /\ (s = None /\ set' = set) \/ (s \in Sets /\ Sends(s, p, sent.answer))

LEMMA TextTypes ==
  ASSUME TypeOK, NEW s \in Sets \cup {None}, Answered("query", s, None), TextStep(s)
  PROVE  TypeOK'
  <1>1. GoodConn(Announced(conn, sent.answer, "text"))
    BY AnsweredIs, AnnouncedIs
  <1>2. sent.answer \in Seq(Results)
    BY AnsweredIs
  <1>3. GoodSet(Opened(None, sent.answer))
    BY <1>2, OpenedIs
  <1>4. OneSet(s, Opened(None, sent.answer))
    BY <1>3 DEF OneSet, TextStep, Sends
  <1>5. GoodTurn' /\ GoodSent'
    BY AnsweredIs
  <1>6. conn' = Announced(conn, sent.answer, "text") /\ stmt' \in [Stmts -> StmtType]
    BY Types DEF TextStep
  <1> QED BY <1>1, <1>4, <1>5, <1>6, TypesKept

LEMMA StmtTypes ==
  ASSUME TypeOK, NEW s \in Sets \cup {None}, NEW p \in Stmts, Answered("query", s, p), StmtStep(s, p)
  PROVE  TypeOK'
  <1>1. GoodConn(Announced(ReadOff(conn), sent.answer, "stmt"))
    BY AnsweredIs, AnnouncedIs
  <1>2. sent.answer \in Seq(Results)
    BY AnsweredIs
  <1>3. GoodSet(Opened(p, sent.answer))
    BY <1>2, OpenedIs
  <1>4. OneSet(s, Opened(p, sent.answer))
    BY <1>3 DEF OneSet, StmtStep, Sends
  <1>5. GoodTurn' /\ GoodSent'
    BY AnsweredIs
  <1>6. conn' = Announced(ReadOff(conn), sent.answer, "stmt") /\ stmt' \in [Stmts -> StmtType]
    BY Types DEF StmtStep, StmtType
  <1> QED BY <1>1, <1>4, <1>5, <1>6, TypesKept

\* Each command's answer is one of the two.
LEMMA AnswerSteps ==
  /\ \A s \in Sets : Query(s) => Answered("query", s, None) /\ TextStep(s)
  /\ Execute => Answered("query", None, None) /\ TextStep(None)
  /\ \A s \in Sets, p \in Stmts : QueryPrepared(s, p) => Answered("query", s, p) /\ StmtStep(s, p)
  /\ \A p \in Stmts : ExecutePrepared(p) => Answered("query", None, p) /\ StmtStep(None, p)
  BY NoneIsNothing DEF Query, Execute, QueryPrepared, ExecutePrepared, RunPrepared, Made, Sends, TextStep,
     StmtStep

LEMMA AnswerTypes ==
  ASSUME TypeOK,
         \/ \E s \in Sets : Query(s) \/ \E p \in Stmts : QueryPrepared(s, p)
         \/ Execute \/ \E p \in Stmts : ExecutePrepared(p)
  PROVE  TypeOK'
  BY AnswerSteps, TextTypes, StmtTypes

\* A command is sent.
LEMMA SendTypes ==
  ASSUME TypeOK, NEW c \in SentType, Send(c), c.does # "none",
         c.does = "query" => c.answer \in Answers(c.to),
         c.to # None => set[c.to].life = "none"
  PROVE  TypeOK'
  <1>1. turn' = NoTurn /\ conn' = conn /\ set' = set /\ stmt' = stmt /\ sent' = c
    BY DEF Send, Resting
  <1>2. GoodSent' /\ GoodTurn'
    BY <1>1, RestingTurn DEF GoodSent
  <1>3. OneSet(None, None)
    BY <1>1 DEF OneSet
  <1> QED BY <1>1, <1>2, <1>3, TypesKept, Types

LEMMA CommandIs ==
  ASSUME NEW does \in {"query", "prepare"}, NEW s \in Sets \cup {None}, NEW p \in Stmts \cup {None},
         NEW a \in Seq(Results)
  PROVE  /\ Command(does, s, p, a) \in SentType /\ Command(does, s, p, a).does = does
         /\ Command(does, s, p, a).to = s /\ Command(does, s, p, a).by = p
         /\ Command(does, s, p, a).answer = a
  BY DEF Command, SentType

\* What each call of a command sends.
Calls(s, p, a) ==
  /\ Send(Command("query", s, p, a))
  /\ MayRun(a) /\ conn.link = "ok"
  /\ s = None => MayExecute(a)
  /\ s # None => set[s].life = "none"

LEMMA CallSteps ==
  /\ \A s \in Sets : \A a \in Answers(s) : CallQuery(s, a) => Calls(s, None, a)
  /\ \A a \in Answers(None) : CallExecute(a) => Calls(None, None, a)
  /\ \A s \in Sets : \A a \in Answers(s), p \in Stmts : CallQueryPrepared(s, p, a) => Calls(s, p, a)
  /\ \A a \in Answers(None), p \in Stmts : CallExecutePrepared(p, a) => Calls(None, p, a)
  BY NoneIsNothing DEF CallQuery, CallExecute, CallQueryPrepared, CallExecutePrepared, CallPrepared, Calls, Accepts

LEMMA CallsTypes ==
  ASSUME TypeOK, NEW s \in Sets \cup {None}, NEW p \in Stmts \cup {None}, NEW a \in Answers(s), Calls(s, p, a)
  PROVE  TypeOK'
  <1>1. a \in Seq(Results)
    BY AnswersAre
  <1>2. PICK c : c = Command("query", s, p, a)
    OBVIOUS
  <1>3. c \in SentType /\ c.does = "query" /\ c.to = s /\ c.answer = a
    BY <1>1, <1>2, CommandIs
  <1>4. Send(c) /\ (s # None => set[s].life = "none")
    BY <1>2 DEF Calls
  <1> QED BY <1>3, <1>4, SendTypes

LEMMA PrepareTypes ==
  ASSUME TypeOK, NEW p \in Stmts, CallPrepare(p) \/ Prepare(p)
  PROVE  TypeOK'
  <1>1. CASE CallPrepare(p)
    <2>0. <<>> \in Seq(Results)
      OBVIOUS
    <2>1. PICK e \in Seq(Results) : e = <<>>
      BY <2>0
    <2>2. PICK c : c = Command("prepare", None, p, e)
      OBVIOUS
    <2>3. c \in SentType /\ c.does = "prepare" /\ c.to = None
      BY <2>1, <2>2 DEF Command, SentType
    <2>4. Send(c)
      BY <1>1, <2>1, <2>2 DEF CallPrepare
    <2> QED BY <2>3, <2>4, SendTypes
  <1>2. CASE Prepare(p)
    <2>1. /\ sent.does = "prepare" /\ turn' = turn /\ sent' = NoCommand /\ conn' = conn /\ set' = set
          /\ stmt' \in [Stmts -> StmtType]
      BY <1>2, Types DEF Prepare, Answered, StmtType
    <2>2. turn' = NoTurn
      BY <2>1, OneCall
    <2>3. OneSet(None, None)
      BY <2>1 DEF OneSet
    <2> QED BY <2>1, <2>2, <2>3, TypesKept, Types, RestingTurn, RestingSent
  <1> QED BY <1>1, <1>2

\* Operations that leave the calls under way, but for what they do to the
\* connector: on a statement, and letting a result set go.
LEMMA CallsStay ==
  ASSUME TypeOK, turn' = turn, sent' = sent, NEW s,
         \A t \in Sets \ {s} : set'[t] = set[t],
         s \in Sets => turn.set # s /\ sent.to # s
  PROVE  GoodTurn' /\ GoodSent'
  <1>1. GoodTurn /\ GoodSent
    BY Types
  <1>2. turn.set # None => set'[turn.set] = set[turn.set]
    BY <1>1 DEF GoodTurn, TurnType
  <1>3. sent.to # None => set'[sent.to] = set[sent.to]
    BY <1>1 DEF GoodSent, SentType
  <1>4. turn.at = "fetch" => turn.set # None
    BY <1>1 DEF GoodTurn
  <1> QED BY <1>1, <1>2, <1>3, <1>4 DEF GoodTurn, GoodSent

\* What a call that does not suspend leaves of the connection.
LEMMA CalledIs ==
  ASSUME NEW k, GoodConn(k)
  PROVE  GoodConn(Called(k)) /\ (Called(k) = k \/ (Called(k) = Mixed /\ ~Resting))
  BY Fresh DEF Called

LEMMA StatementTypes ==
  ASSUME TypeOK, NEW p \in Stmts, DropStatement(p) \/ Reset(p)
  PROVE  TypeOK'
  <1>1. set' = set /\ turn' = turn /\ sent' = sent /\ stmt' \in [Stmts -> StmtType]
    BY Types DEF DropStatement, Reset, StmtType
  <1>2. conn' = conn \/ \E k \in {conn, ReadOff(conn)} \cup Closing(conn) : conn' = Called(k)
    BY DEF DropStatement, Reset, Closed
  <1>3. GoodConn(conn')
    BY <1>2, ClearedIs, CalledIs, Types
  <1>4. OneSet(None, None) /\ GoodTurn' /\ GoodSent'
    BY <1>1, CallsStay, NoneIsNothing DEF OneSet
  <1> QED BY <1>1, <1>3, <1>4, TypesKept

LEMMA DestroyTypes ==
  ASSUME TypeOK, NEW s \in Sets, Destroy(s)
  PROVE  TypeOK'
  <1>1. /\ set' = [set EXCEPT ![s] = Absent] /\ turn' = turn /\ sent' = sent /\ stmt' \in [Stmts -> StmtType]
        /\ set[s].life = "live" /\ turn.set # s
    BY Types DEF Destroy, StmtType
  <1>2. conn' = conn \/ \E k \in Closing(conn) : conn' = Called(k)
    BY DEF Destroy, Closed
  <1>3. GoodConn(conn')
    BY <1>2, ClearedIs, CalledIs, Types
  <1>4. OneSet(s, Absent)
    BY <1>1, Fresh DEF OneSet
  <1>5. sent.to # s /\ \A t \in Sets \ {s} : set'[t] = set[t]
    BY <1>1, NoneIsNothing, Types DEF GoodSent
  <1>6. GoodTurn' /\ GoodSent'
    BY <1>1, <1>5, CallsStay
  <1> QED BY <1>1, <1>3, <1>4, <1>6, TypesKept

\* A call is started over another.
Forgotten(r) == [Absent EXCEPT !.life = r.life, !.by = r.by]

LEMMA ForgottenIs ==
  ASSUME NEW r, GoodSet(r)
  PROVE  GoodSet(Forgotten(r)) /\ Forgotten(r).life = r.life /\ Forgotten(r) \in SetType
  <1>1. /\ r.life \in {"none", "live"} /\ r.by \in Stmts \cup {None}
        /\ r.life = "none" => r.by = Absent.by /\ r.life = Absent.life
    BY DEF GoodSet, SetType
  <1>2. Absent \in SetType /\ Absent.res = None
    BY Fresh DEF Absent
  <1> HIDE DEF Absent
  <1>3. /\ Forgotten(r) \in SetType /\ Forgotten(r).life = r.life /\ Forgotten(r).res = None
        /\ r.life = "none" => Forgotten(r) = Absent
    BY <1>1, <1>2 DEF Forgotten, SetType
  <1> QED BY <1>3 DEF GoodSet

LEMMA OverlapTypes ==
  ASSUME TypeOK, Overlap
  PROVE  TypeOK' /\ conn'.link = "mixed"
  <1>1. /\ conn' = Mixed /\ stmt' = stmt /\ sent' = sent
        /\ turn' = [turn EXCEPT !.at = IF turn.set = None THEN "none" ELSE "store"]
    BY DEF Overlap
  <1>2. set' = [s \in Sets |-> Forgotten(set[s])]
    BY DEF Overlap, Forgotten
  <1>3. /\ set' \in [Sets -> SetType]
        /\ \A s \in Sets : GoodSet(set'[s]) /\ set'[s].life = set[s].life
    BY <1>2, ForgottenIs, Types
  <1>4. GoodTurn /\ GoodSent /\ stmt \in [Stmts -> StmtType]
    BY Types
  <1>5. /\ turn' \in TurnType /\ turn'.set = turn.set
        /\ turn'.at = (IF turn.set = None THEN "none" ELSE "store")
        /\ turn = NoTurn => turn' = NoTurn
    BY <1>1, <1>4 DEF GoodTurn, TurnType, Awaits, NoTurn
  <1>6. GoodTurn'
    <2>1. turn.set # None => set'[turn.set].life = "live"
      BY <1>3, <1>4 DEF GoodTurn, TurnType
    <2> QED BY <1>5, <2>1 DEF GoodTurn
  <1>7. GoodSent'
    <2>1. sent.to # None => set'[sent.to].life = "none"
      BY <1>3, <1>4 DEF GoodSent, SentType
    <2> QED BY <1>1, <1>4, <1>5, <2>1 DEF GoodSent
  <1>8. GoodConn(conn') /\ conn'.link = "mixed"
    BY <1>1, Fresh
  <1>9. (\A t \in Sets : GoodSet(set[t]))'
    BY <1>3 DEF GoodSet
  <1>10. GoodConn(conn)'
    BY <1>8 DEF GoodConn
  <1> QED BY <1>1, <1>3, <1>4, <1>6, <1>7, <1>8, <1>9, <1>10, Types DEF TypeOK, GoodConn, GoodSet, GoodTurn,
             GoodSent, ConnType, SetType, TurnType, StmtType, SentType

LEMMA StrayTypes ==
  ASSUME TypeOK, Stray
  PROVE  TypeOK' /\ conn'.link = "mixed"
  <1>1. /\ conn' = conn /\ stmt' = stmt /\ turn' = NoTurn /\ sent' = NoCommand /\ conn.link = "mixed"
    BY DEF Stray
  <1>2. GoodTurn' /\ GoodSent'
    BY <1>1, RestingTurn, RestingSent
  <1>3. CASE set' = set
    <2>1. OneSet(None, None)
      BY <1>3 DEF OneSet
    <2> QED BY <1>1, <1>2, <2>1, TypesKept, Types
  <1>4. ASSUME NEW s \in Sets, s = sent.to,
               set' = [set EXCEPT ![s] = [@ EXCEPT !.life = "live", !.by = sent.by]]
        PROVE  TypeOK'
    <2> DEFINE new == [set[s] EXCEPT !.life = "live", !.by = sent.by]
    <2>1. sent.by \in Stmts \cup {None} /\ set[s] \in SetType /\ GoodSet(set[s])
      BY Types DEF GoodSent, SentType
    <2>2. new \in SetType /\ new.life = "live" /\ new.res = set[s].res /\ new.row = set[s].row
      BY <2>1 DEF SetType
    <2>3. set' = [set EXCEPT ![s] = new]
      BY <1>4, Types
    <2> HIDE DEF new
    <2>4. OneSet(s, new)
      BY <2>1, <2>2, <2>3 DEF OneSet, GoodSet
    <2> QED BY <1>1, <1>2, <2>4, TypesKept, Types
  <1> QED BY <1>1, <1>3, <1>4 DEF Stray

LEMMA LinkTypes ==
  ASSUME TypeOK, LoseServer \/ Connect \/ Disconnect \/ NewConnection
  PROVE  TypeOK'
  <1>1. UNCHANGED <<set, stmt, turn, sent>>
    BY DEF LoseServer, Connect, Disconnect, NewConnection
  <1>2. GoodConn(conn')
    BY Fresh, Types DEF LoseServer, Connect, Disconnect, NewConnection, GoodConn, ConnType, Links, Unlinked
  <1>3. GoodTurn' /\ GoodSent'
    BY <1>1, Types DEF GoodTurn, GoodSent
  <1>4. OneSet(None, None)
    BY <1>1 DEF OneSet
  <1> QED BY <1>1, <1>2, <1>3, <1>4, TypesKept, Types

\* A command without an answer.
LEMMA UnansweredTypes ==
  ASSUME TypeOK, Unanswered
  PROVE  TypeOK'
  <1>1. conn' = conn /\ set' = set /\ stmt' = stmt /\ turn' = turn /\ sent' = NoCommand
    BY DEF Unanswered
  <1>2. GoodTurn' /\ GoodSent' /\ OneSet(None, None)
    BY <1>1, Types, RestingSent DEF GoodTurn, OneSet
  <1> QED BY <1>1, <1>2, TypesKept, Types

\* The steps of next().
LEMMA CallTypes ==
  ASSUME TypeOK, NEW s \in Sets, CallNext(s)
  PROVE  TypeOK'
  <1>1. GoodTurn'
    BY NoneIsNothing DEF CallNext, GoodTurn, TurnType, Awaits
  <1>2. OneSet(None, None)
    BY DEF OneSet, CallNext
  <1>3. GoodSent'
    BY RestingSent DEF CallNext, Resting
  <1> QED BY <1>1, <1>2, <1>3, TypesKept, Types DEF CallNext

\* next() comes back with this answer.
LEMMA TellTypes ==
  ASSUME TypeOK, NEW s \in Sets, turn.set = s, NEW t \in {"none", "end", "error"}, Tell(t)
  PROVE  OneSet(s, [set[s] EXCEPT !.told = t]) /\ GoodTurn'
  <1>1. GoodSet(set[s]) /\ set[s].life = "live"
    BY Types, NoneIsNothing DEF GoodTurn
  <1>2. GoodSet([set[s] EXCEPT !.told = t])
    BY <1>1 DEF GoodSet, SetType
  <1> QED BY <1>2, RestingTurn DEF Tell, OneSet

\* next() goes on, with the set as new.
LEMMA GotoTypes ==
  ASSUME TypeOK, NEW s \in Sets, turn.set = s, NEW at \in {"store", "fetch", "advance"}, Goto(at),
         NEW new, GoodSet(new), new.life = "live", at = "fetch" => new.res # None,
         set' = [set EXCEPT ![s] = new]
  PROVE  OneSet(s, new) /\ GoodTurn'
  <1>1. turn'.set = s /\ turn'.at = at /\ turn' \in TurnType
    BY Types DEF Goto, GoodTurn, TurnType, Awaits
  <1>2. set'[s] = new
    BY Types
  <1> QED BY <1>1, <1>2, NoneIsNothing DEF OneSet, GoodTurn

\* No command is under way while a next() is.
LEMMA AtSent ==
  ASSUME TypeOK, NEW s \in Sets, NEW at, At(s, at)
  PROVE  turn.set = s /\ turn.at = at /\ sent' = NoCommand /\ conn.link # "mixed" /\ GoodSent'
  <1>1. turn.set = s /\ turn.at = at /\ sent' = sent /\ s # None /\ conn.link # "mixed"
    BY NoneIsNothing DEF At
  <1>2. sent' = NoCommand
    BY <1>1, OneCall
  <1> QED BY <1>1, <1>2, RestingSent

LEMMA StoreTypes ==
  ASSUME TypeOK, NEW s \in Sets, Store(s)
  PROVE  TypeOK'
  <1>1. GoodConn(conn) /\ GoodSet(set[s]) /\ set[s].life = "live" /\ turn.set = s /\ s # None
    BY Types, NoneIsNothing DEF Store, At, GoodTurn
  <1>0. GoodSent'
    BY AtSent DEF Store
  <1>2. stmt' = stmt /\ stmt' \in [Stmts -> StmtType]
    BY Types DEF Store
  <1>3. CASE "stored" \in Stores(s) /\ conn' = Taken(conn) /\ set' = [set EXCEPT ![s] = Stored(s)] /\ Goto("fetch")
    <2>1. conn.pending # "none"
      BY <1>3 DEF Stores
    <2>2. conn.head \in Results /\ conn.head.kind = "rows" /\ 0 <= conn.head.rows /\ conn.head # None
      BY <1>1, <2>1, RowBound DEF GoodConn, ConnType, Results
    <2>3. Stored(s) \in SetType /\ Stored(s).life = "live" /\ Stored(s).res = conn.head /\ Stored(s).row = 0
      <3>1. 0 \in 0..MaxRows /\ conn.head \in Results \cup {None} /\ set[s] \in SetType
        BY <1>1, <2>2, RowBound DEF GoodSet
      <3>2. Stored(s) = WithResult(set[s], conn.head, 0)
        BY DEF Stored, WithResult
      <3>3. PICK r \in SetType : r = set[s]
        BY <3>1
      <3>4. PICK h \in Results \cup {None} : h = conn.head
        BY <3>1
      <3>5. WithResult(r, h, 0) \in SetType
        BY <3>1, WithResultIs
      <3>6. WithResult(r, h, 0).res = h
        BY <3>1, WithResultIs
      <3>7. WithResult(r, h, 0).row = 0
        BY <3>1, WithResultIs
      <3>8. WithResult(r, h, 0).life = r.life
        BY <3>1, WithResultIs
      <3> QED BY <1>1, <3>1, <3>2, <3>3, <3>4, <3>5, <3>6, <3>7, <3>8
    <2>4. GoodSet(Stored(s))
      BY <2>2, <2>3 DEF GoodSet
    <2>5. OneSet(s, Stored(s)) /\ GoodTurn'
      BY <1>1, <1>3, <2>2, <2>3, <2>4, GotoTypes
    <2> QED BY <1>0, <1>1, <1>2, <1>3, <2>5, ClearedIs, TypesKept
  <1>4. CASE Goto("advance") /\ UNCHANGED <<conn, set>>
    <2>1. set' = [set EXCEPT ![s] = set[s]]
      BY <1>4, Types
    <2>2. OneSet(s, set[s]) /\ GoodTurn'
      BY <1>1, <1>4, <2>1, GotoTypes
    <2> QED BY <1>0, <1>1, <1>2, <1>4, <2>2, TypesKept
  <1>5. CASE conn' = (IF conn.link = "lost" THEN ReadOff(conn) ELSE conn) /\ Tell("error")
    <2>1. GoodConn(conn')
      BY <1>1, <1>5, ClearedIs
    <2> QED BY <1>0, <1>1, <1>2, <1>5, <2>1, TellTypes, TypesKept
  <1> QED BY <1>3, <1>4, <1>5 DEF Store

LEMMA FetchTypes ==
  ASSUME TypeOK, NEW s \in Sets, Fetch(s)
  PROVE  TypeOK'
  <1>1. /\ GoodConn(conn) /\ GoodSet(set[s]) /\ set[s].life = "live" /\ turn.set = s /\ s # None
        /\ set[s].res # None
    BY Types, NoneIsNothing DEF Fetch, At, GoodTurn
  <1>0. GoodSent'
    BY AtSent DEF Fetch
  <1>2. conn' = conn /\ stmt' = stmt /\ stmt' \in [Stmts -> StmtType]
    BY Types DEF Fetch
  <1>3. /\ set[s].res \in Results /\ set[s].row \in 0..MaxRows /\ set[s].row <= set[s].res.rows
        /\ set[s].seen \in Seq(Rows) /\ set[s].res.kind = "rows"
    BY <1>1 DEF GoodSet, SetType
  <1>4. CASE set[s].row < set[s].res.rows
    <2> DEFINE row == <<set[s].res.of, set[s].res.i, set[s].row + 1>>
               new == WithRow(set[s], set[s].row + 1, Append(set[s].seen, row))
    <2>1. set' = [set EXCEPT ![s] = new] /\ turn' = NoTurn
      BY <1>4, Types DEF Fetch, WithRow
    <2>2. set[s].row + 1 \in 1..MaxRows /\ set[s].row + 1 <= set[s].res.rows
      BY <1>3, <1>4, RowBound DEF Results
    <2>3. row \in Rows
      BY <1>3, <2>2 DEF Rows, Results
    <2>4. Append(set[s].seen, row) \in Seq(Rows)
      BY <1>3, <2>3
    <2> HIDE DEF row
    <2>5. new \in SetType /\ new.life = "live" /\ new.res = set[s].res /\ new.row = set[s].row + 1
      <3>1. set[s].row + 1 \in 0..MaxRows /\ set[s] \in SetType
        BY <1>1, <2>2, RowBound DEF GoodSet
      <3>2. PICK r \in SetType : r = set[s]
        BY <3>1
      <3>3. PICK n \in 0..MaxRows : n = set[s].row + 1
        BY <3>1
      <3>4. PICK seen \in Seq(Rows) : seen = Append(set[s].seen, row)
        BY <2>4
      <3>5. WithRow(r, n, seen) \in SetType
        BY WithRowIs
      <3>6. WithRow(r, n, seen).life = r.life /\ WithRow(r, n, seen).res = r.res
        BY WithRowIs
      <3>7. WithRow(r, n, seen).row = n
        BY WithRowIs
      <3> QED BY <1>1, <3>2, <3>3, <3>4, <3>5, <3>6, <3>7
    <2> HIDE DEF new
    <2>6. GoodSet(new)
      BY <1>3, <2>2, <2>5 DEF GoodSet
    <2> QED BY <1>0, <1>1, <1>2, <2>1, <2>6, TypesKept, RestingTurn DEF OneSet
  <1>5. CASE ~(set[s].row < set[s].res.rows)
    <2> DEFINE new == [set[s] EXCEPT !.res = None]
    <2>1. set' = [set EXCEPT ![s] = new] /\ Goto("advance")
      BY <1>5, Types DEF Fetch
    <2>2. new.life = "live" /\ GoodSet(new)
      BY <1>1 DEF GoodSet, SetType
    <2> HIDE DEF new
    <2>3. OneSet(s, new) /\ GoodTurn'
      BY <1>1, <2>1, <2>2, GotoTypes
    <2> QED BY <1>0, <1>1, <1>2, <2>3, TypesKept
  <1> QED BY <1>4, <1>5

LEMMA AdvanceTypes ==
  ASSUME TypeOK, NEW s \in Sets, Advance(s)
  PROVE  TypeOK'
  <1>1. GoodConn(conn) /\ turn.set = s /\ s # None /\ set[s].life = "live" /\ GoodSet(set[s])
    BY Types, NoneIsNothing DEF Advance, At, GoodTurn
  <1>0. GoodSent'
    BY AtSent DEF Advance
  <1>2. stmt' \in [Stmts -> StmtType]
    BY Types DEF Advance, StmtType
  <1>3. GoodConn(conn')
    <2>1. CASE conn.more # <<>> /\ \E how \in {"text", "stmt"} : conn' = Announced(conn, conn.more, how)
      <3>1. conn.more \in Seq(Results)
        BY <1>1 DEF GoodConn, ConnType
      <3> QED BY <1>1, <2>1, <3>1, AnnouncedIs
    <2>2. CASE conn' = conn \/ conn' = [conn EXCEPT !.more = <<>>]
      <3>1. <<>> \in Seq(Results)
        OBVIOUS
      <3> QED BY <1>1, <2>2, <3>1 DEF GoodConn, ConnType
    <2> QED BY <2>1, <2>2 DEF Advance
  <1>4. CASE Tell("end") \/ Tell("error")
    BY <1>0, <1>1, <1>2, <1>3, <1>4, TellTypes, TypesKept
  <1>5. CASE Goto("store") /\ set' = set
    <2>1. set' = [set EXCEPT ![s] = set[s]]
      BY <1>5, Types
    <2>2. OneSet(s, set[s]) /\ GoodTurn'
      BY <1>1, <1>5, <2>1, GotoTypes
    <2> QED BY <1>0, <1>1, <1>2, <1>3, <2>2, TypesKept
  <1> QED BY <1>4, <1>5 DEF Advance

\* Every operation as a case of its own.
LEMMA StepIs ==
  ASSUME [Next]_vars
  PROVE  \/ \E s \in Sets : \E a \in Answers(s) : CallQuery(s, a)
         \/ \E s \in Sets : \E a \in Answers(s), p \in Stmts : CallQueryPrepared(s, p, a)
         \/ \E a \in Answers(None) : CallExecute(a)
         \/ \E a \in Answers(None), p \in Stmts : CallExecutePrepared(p, a)
         \/ \E s \in Sets : Query(s) \/ \E p \in Stmts : QueryPrepared(s, p)
         \/ Execute
         \/ \E p \in Stmts : ExecutePrepared(p)
         \/ \E s \in Sets : CallNext(s) \/ Store(s) \/ Fetch(s) \/ Advance(s) \/ Destroy(s)
         \/ \E p \in Stmts : CallPrepare(p) \/ Prepare(p) \/ DropStatement(p) \/ Reset(p)
         \/ Unanswered \/ Overlap \/ Stray
         \/ LoseServer \/ Connect \/ Disconnect \/ NewConnection \/ UNCHANGED vars
  BY Zenon DEF Next, Resume

LEMMA TypeInit == Init => TypeOK
  <1> SUFFICES ASSUME Init PROVE TypeOK
    OBVIOUS
  <1>1. set \in [Sets -> SetType] /\ \A s \in Sets : GoodSet(set[s])
    BY Fresh DEF Init
  <1>2. stmt \in [Stmts -> StmtType]
    BY DEF Init, StmtType
  <1>3. GoodTurn /\ GoodSent
    BY Fresh DEF Init, GoodTurn, GoodSent
  <1> QED BY <1>1, <1>2, <1>3, Fresh, Types DEF Init

LEMMA TypeStep ==
  ASSUME TypeOK, [Next]_vars
  PROVE  TypeOK'
  <1>1. ASSUME NEW s \in Sets, NEW a \in Answers(s), CallQuery(s, a) \/ \E p \in Stmts : CallQueryPrepared(s, p, a)
        PROVE  TypeOK'
    <2>1. Calls(s, None, a) \/ \E p \in Stmts : Calls(s, p, a)
      BY <1>1, CallSteps
    <2> QED BY <2>1, CallsTypes
  <1>2. ASSUME NEW a \in Answers(None), CallExecute(a) \/ \E p \in Stmts : CallExecutePrepared(p, a)
        PROVE  TypeOK'
    <2>1. Calls(None, None, a) \/ \E p \in Stmts : Calls(None, p, a)
      BY <1>2, CallSteps
    <2> QED BY <2>1, CallsTypes
  <1>3. ASSUME NEW s \in Sets, CallNext(s) \/ Store(s) \/ Fetch(s) \/ Advance(s) \/ Destroy(s)
        PROVE  TypeOK'
    BY <1>3, CallTypes, StoreTypes, FetchTypes, AdvanceTypes, DestroyTypes
  <1>4. ASSUME \/ \E s \in Sets : Query(s) \/ \E p \in Stmts : QueryPrepared(s, p)
               \/ Execute \/ \E p \in Stmts : ExecutePrepared(p)
        PROVE  TypeOK'
    BY <1>4, AnswerTypes
  <1>6. CASE \E p \in Stmts : CallPrepare(p) \/ Prepare(p) \/ DropStatement(p) \/ Reset(p)
    BY <1>6, StatementTypes, PrepareTypes
  <1>7. CASE Unanswered \/ Overlap \/ Stray \/ LoseServer \/ Connect \/ Disconnect \/ NewConnection
    BY <1>7, LinkTypes, UnansweredTypes, OverlapTypes, StrayTypes
  <1>8. CASE UNCHANGED vars
    BY <1>8 DEF vars, TypeOK
  <1> QED BY <1>1, <1>2, <1>3, <1>4, <1>6, <1>7, <1>8, StepIs

\* Whatever clients do, only results with columns are announced and stored, a
\* row is fetched from a result that is there and never past its last, and the
\* result set whose next() is under way is alive (sqlresult.cpp, mysql.cpp).
THEOREM MysqlTypeCorrect == Spec => []TypeOK
  <1>1. Init => TypeOK
    BY TypeInit
  <1>2. TypeOK /\ [Next]_vars => TypeOK'
    BY TypeStep
  <1> QED BY <1>1, <1>2, PTL DEF Spec

-----------------------------------------------------------------------------
(* Where result sets are in the results of their command, when clients     *)
(* keep to the rules.                                                      *)

Count(r, i)  == IF i <= Len(r.answer) THEN r.answer[i].rows ELSE 0
Before(r, i) == IF i = 1 THEN 0 ELSE Count(r, 1)
Rest(r, i)   == IF i = 1 THEN Tail(r.answer) ELSE <<>>

\* s has given the first rows of its answer.
GaveOwn(s, r) ==
  /\ Len(r.seen) <= Count(r, 1) + Count(r, 2)
  /\ \A j \in 1..Len(r.seen) :
       r.seen[j] = IF j <= Count(r, 1) THEN <<s, 1, j>> ELSE <<s, 2, j - Count(r, 1)>>
  /\ r.told = "end" => /\ Len(r.seen) = Count(r, 1) + Count(r, 2)
                       /\ \A i \in 1..Len(r.answer) : r.answer[i].kind # "error"
  /\ r.life = "live" => r.answer \in Answers(s) /\ r.answer[1].kind # "error"

\* What makes s ask for its result, as a text or as a statement.
How(s)    == IF set[s].by = None THEN "text" ELSE "stmt"
Wanted(s) == IF set[s].by = None THEN conn.head # None ELSE stmt[set[s].by] = "rows"

\* s reads the rows of its i-th result, waits for it to be stored (or finds that
\* it has no rows), or asks for the one after it.
ReadsAt(s, i) ==
  /\ set[s].res = set[s].answer[i]
  /\ turn.set = s => turn.at = "fetch"
  /\ Len(set[s].seen) = Before(set[s], i) + set[s].row
  /\ ~Single(set[s].answer) => conn.more = Rest(set[s], i)
WaitsAt(s, i) ==
  /\ set[s].res = None
  /\ turn.set = s => turn.at = "store"
  /\ Len(set[s].seen) = Before(set[s], i)
  /\ set[s].answer[i].kind = "ok" => ~Wanted(s) /\ conn.pending = "none" /\ conn.more = Rest(set[s], i)
  /\ set[s].answer[i].kind # "ok" =>
       /\ set[s].answer[i].kind = "rows" /\ Wanted(s)
       /\ \/ conn.pending = How(s) /\ conn.head = set[s].answer[i] /\ conn.more = Rest(set[s], i)
          \/ conn.pending = "none" /\ conn.more = <<>>
PassedAt(s, i) ==
  /\ set[s].res = None /\ turn.set = s /\ turn.at = "advance"
  /\ set[s].answer[i].kind # "error"
  /\ Len(set[s].seen) = Before(set[s], i) + Count(set[s], i)
  /\ ~Single(set[s].answer) => conn.more = Rest(set[s], i)

Progress(s) ==
  s \in OpenSets => \E i \in 1..Len(set[s].answer) : ReadsAt(s, i) \/ WaitsAt(s, i) \/ PassedAt(s, i)

\* At most one set waits for the connection; one whose command has two results
\* is the only open one.
Waits(s) == s \in OpenSets /\ set[s].res = None /\ ~(turn.set = s /\ turn.at = "advance")
Alone ==
  \A s, t \in OpenSets : s = t \/ (Single(set[s].answer) /\ ~(Waits(s) /\ Waits(t)))

\* What is unread is for a set that will read it.
ConnFollows ==
  /\ conn.pending # "none" => conn.head.of \in OpenSets /\ Waits(conn.head.of)
  /\ conn.more # <<>> =>
       \E s \in OpenSets : ~Single(set[s].answer) /\ conn.more = <<set[s].answer[2]>>
  /\ conn.link = "closed" => \A s \in Sets : set[s].life = "none"
  /\ turn.set # None => turn.set \in OpenSets

\* Every set that is open reads the only result of its command.
Calm == \A t \in OpenSets : Only(t)

\* The command under way was one that the rules let be sent, and still is.
SentFits ==
  /\ sent.does = "query" => OpenSets = {} \/ (Single(sent.answer) /\ Calm)
  /\ sent.does = "query" /\ sent.to = None => Single(sent.answer) /\ sent.answer[1].kind # "rows"
  /\ sent.does = "prepare" => Calm

RulesInv ==
  /\ TypeOK /\ conn.link # "mixed"
  /\ Alone /\ ConnFollows /\ SentFits
  /\ \A s \in Sets : GaveOwn(s, set[s]) /\ Progress(s)

AllRules == {"finish", "drain", "plain"} \subseteq Rules

LEMMA AnswerIs ==
  ASSUME NEW s \in Sets, NEW r, r.answer \in Answers(s)
  PROVE  /\ r.answer \in Seq(Results) /\ Len(r.answer) \in {1, 2}
         /\ Count(r, 1) = r.answer[1].rows /\ Count(r, 1) \in Nat /\ Count(r, 2) \in Nat
         /\ Before(r, 1) = 0 /\ Before(r, 2) = Count(r, 1) /\ Rest(r, 2) = <<>>
         /\ Single(r.answer) => Len(r.answer) = 1 /\ Count(r, 2) = 0 /\ Rest(r, 1) = <<>>
         /\ ~Single(r.answer) => Len(r.answer) = 2 /\ Rest(r, 1) = <<r.answer[2]>>
         /\ \A i \in 1..Len(r.answer) :
              /\ r.answer[i] \in Results /\ r.answer[i] # None /\ r.answer[i].of = s /\ r.answer[i].i = i
              /\ r.answer[i].kind # "rows" => r.answer[i].rows = 0
              /\ Count(r, i) = r.answer[i].rows /\ i \in {1, 2}
  <1>1. PICK a \in Answers(s) : a = r.answer
    OBVIOUS
  <1>2. /\ a \in Seq(Results) /\ Len(a) \in {1, 2}
        /\ Tail(a) = (IF Len(a) = 1 THEN <<>> ELSE <<a[2]>>)
        /\ \A i \in 1..Len(a) : /\ a[i] \in Results /\ a[i].of = s /\ a[i].i = i
                                /\ a[i].kind # "rows" => a[i].rows = 0
    BY AnswersAre
  <1>3. \A i \in 1..Len(a) : a[i].rows \in Nat /\ a[i] # None /\ i \in {1, 2}
    BY <1>2, NoneIsNothing, RowBound DEF Results
  <1>4. Count(r, 1) = a[1].rows /\ Count(r, 2) = (IF Len(a) = 1 THEN 0 ELSE a[2].rows)
    BY <1>1, <1>2 DEF Count
  <1>5. Count(r, 1) \in Nat /\ Count(r, 2) \in Nat
    BY <1>2, <1>3, <1>4
  <1> QED BY <1>1, <1>2, <1>3, <1>4, <1>5 DEF Before, Rest, Single, Count

\* A step of s (of no result set, when s is None).
StepOf(s) ==
  /\ \A t \in Sets \ {s} : set'[t] = set[t]
  /\ \/ turn' = turn /\ turn.set # s
     \/ turn.set \in {s, None} /\ turn'.set \in {s, None}

SameResults == conn'.pending = conn.pending /\ conn'.head = conn.head /\ conn'.more = conn.more
NoResults   == conn'.pending = "none" /\ conn'.more = <<>>

LEMMA OthersOpen ==
  ASSUME NEW s, StepOf(s), NEW t \in Sets \ {s}
  PROVE  /\ t \in OpenSets' <=> t \in OpenSets
         /\ t # None => (Waits(t)' <=> Waits(t))
  BY DEF StepOf, OpenSets, AtEnd, Waits

\* A set that reads the only result of its command does not mind the connection.
LEMMA ReaderKept ==
  ASSUME TypeOK, NEW t \in Sets, set'[t] = set[t], t \in OpenSets => Only(t), Progress(t),
         turn' = turn \/ (turn'.set = t => turn'.at = "fetch")
  PROVE  Progress(t)'
  <1> SUFFICES ASSUME t \in OpenSets' PROVE Progress(t)'
    BY DEF Progress
  <1>1. t \in OpenSets /\ Only(t)
    BY DEF OpenSets, AtEnd
  <1>2. PICK i \in 1..Len(set[t].answer) : ReadsAt(t, i) \/ WaitsAt(t, i) \/ PassedAt(t, i)
    BY <1>1 DEF Progress
  <1>3. ReadsAt(t, i)
    BY <1>1, <1>2 DEF Only, WaitsAt, PassedAt
  <1>4. ReadsAt(t, i)' /\ i \in 1..Len(set'[t].answer)
    BY <1>1, <1>3 DEF ReadsAt, Only, Before, Count
  <1> QED BY <1>4 DEF Progress

\* The others stay where they are when a step of s leaves them their results, or
\* reads off what they do not need.
LEMMA OtherKept ==
  ASSUME RulesInv, NEW s, StepOf(s), NEW t \in Sets \ {s}, t # None,
         t \in OpenSets => /\ Wanted(t)' <=> Wanted(t)
                           /\ \/ SameResults
                              \/ NoResults /\ (Single(set[t].answer) \/ (Waits(t) /\ conn.pending # "none"))
  PROVE  Progress(t)'
  <1> SUFFICES ASSUME t \in OpenSets' PROVE Progress(t)'
    BY DEF Progress
  <1>1. t \in OpenSets /\ set'[t] = set[t] /\ (turn' = turn \/ (turn.set # t /\ turn'.set # t))
    BY OthersOpen DEF StepOf
  <1>2. PICK i \in 1..Len(set[t].answer) : ReadsAt(t, i) \/ WaitsAt(t, i) \/ PassedAt(t, i)
    BY <1>1 DEF Progress, RulesInv
  <1>3. set[t].answer \in Answers(t)
    BY <1>1 DEF RulesInv, GaveOwn, OpenSets
  <1>4. /\ Single(set[t].answer) => Rest(set[t], i) = <<>>
        /\ set[t].answer[i] # None
    <2>1. i = 1 \/ i = 2
      BY <1>3, AnswerIs
    <2> QED BY <1>3, <2>1, AnswerIs
  <1>5. Before(set'[t], i) = Before(set[t], i) /\ Rest(set'[t], i) = Rest(set[t], i) /\ How(t)' = How(t)
    BY <1>1 DEF How
  <1>6. CASE ReadsAt(t, i)
    <2>1. ReadsAt(t, i)'
      <3>1. ~Single(set[t].answer) => conn'.more = Rest(set[t], i)
        BY <1>1, <1>4, <1>6 DEF ReadsAt, SameResults, NoResults, Waits
      <3> QED BY <1>1, <1>5, <1>6, <3>1 DEF ReadsAt
    <2> QED BY <1>1, <1>2, <2>1 DEF Progress
  <1>7. CASE WaitsAt(t, i)
    <2>1. WaitsAt(t, i)'
      <3>1. CASE SameResults
        BY <1>1, <1>5, <1>7, <3>1 DEF WaitsAt, SameResults
      <3>2. CASE NoResults /\ (Single(set[t].answer) \/ (Waits(t) /\ conn.pending # "none"))
        BY <1>1, <1>4, <1>5, <1>7, <3>2 DEF WaitsAt, NoResults
      <3> QED BY <1>1, <3>1, <3>2
    <2> QED BY <1>1, <1>2, <2>1 DEF Progress
  <1>8. CASE PassedAt(t, i)
    <2>1. turn.set = t /\ turn' = turn /\ ~Waits(t)
      BY <1>1, <1>8 DEF PassedAt, Waits
    <2>2. ~Single(set[t].answer) => conn'.more = Rest(set[t], i)
      BY <1>1, <1>8, <2>1 DEF PassedAt, SameResults
    <2>3. PassedAt(t, i)'
      BY <1>1, <1>5, <1>8, <2>1, <2>2 DEF PassedAt, Count
    <2> QED BY <1>1, <1>2, <2>3 DEF Progress
  <1> QED BY <1>2, <1>6, <1>7, <1>8

LEMMA AloneKept ==
  ASSUME Alone, NEW s, None \notin Sets, StepOf(s),
         s \in OpenSets' => /\ s \in OpenSets /\ set'[s].answer = set[s].answer
                            /\ Waits(s)' => Waits(s)
  PROVE  Alone'
  <1>1. ASSUME NEW t \in OpenSets'
        PROVE  t \in OpenSets /\ set'[t].answer = set[t].answer /\ (Waits(t)' => Waits(t))
    <2>1. t \in Sets
      BY DEF OpenSets
    <2>2. CASE t = s
      BY <1>1, <2>2
    <2>3. CASE t # s
      BY <1>1, <2>1, <2>3, OthersOpen DEF StepOf
    <2> QED BY <2>2, <2>3
  <1> QED BY <1>1 DEF Alone, Single

LEMMA ConnKept ==
  ASSUME ConnFollows, NEW s, None \notin Sets, StepOf(s), conn'.link = conn.link,
         s \in Sets => set[s].life = "live",
         conn'.pending # "none" => conn.pending # "none" /\ conn'.head = conn.head,
         conn'.more \in {<<>>, conn.more},
         conn'.pending # "none" /\ Waits(s) => Waits(s)',
         conn'.more # <<>> /\ s \in OpenSets /\ ~Single(set[s].answer) =>
           s \in OpenSets' /\ set'[s].answer = set[s].answer,
         turn'.set # None => turn'.set \in OpenSets'
  PROVE  ConnFollows'
  <1>1. (conn.pending # "none" => conn.head.of \in OpenSets /\ Waits(conn.head.of))'
    <2> SUFFICES ASSUME conn'.pending # "none" PROVE (conn.head.of \in OpenSets /\ Waits(conn.head.of))'
      OBVIOUS
    <2>1. PICK t : t = conn.head.of
      OBVIOUS
    <2>2. t = conn'.head.of /\ t \in OpenSets /\ Waits(t) /\ t \in Sets
      BY <2>1 DEF ConnFollows, OpenSets
    <2>3. Waits(t)'
      <3>1. CASE t = s
        BY <2>2, <3>1
      <3>2. CASE t # s
        BY <2>2, <3>2, OthersOpen
      <3> QED BY <3>1, <3>2
    <2> QED BY <2>2, <2>3 DEF Waits
  <1>2. conn'.more # <<>> =>
          \E t \in OpenSets' : ~Single(set'[t].answer) /\ conn'.more = <<set'[t].answer[2]>>
    <2> SUFFICES ASSUME conn'.more # <<>>
                 PROVE  \E t \in OpenSets' : ~Single(set'[t].answer) /\ conn'.more = <<set'[t].answer[2]>>
      OBVIOUS
    <2>1. PICK t \in OpenSets : ~Single(set[t].answer) /\ conn.more = <<set[t].answer[2]>>
      BY DEF ConnFollows
    <2>2. t \in Sets
      BY DEF OpenSets
    <2>3. t \in OpenSets' /\ set'[t].answer = set[t].answer
      BY <2>1, <2>2, OthersOpen DEF StepOf
    <2> QED BY <2>1, <2>3
  <1>3. conn'.link = "closed" => \A t \in Sets : set'[t].life = "none"
    BY DEF ConnFollows, StepOf
  <1> QED BY <1>1, <1>2, <1>3 DEF ConnFollows

\* A command that may be sent may be when fewer sets are open.
LEMMA FitsKept ==
  ASSUME SentFits, sent' = sent,
         \A t \in OpenSets' : t \in OpenSets /\ (Only(t) => Only(t)')
  PROVE  SentFits'
  BY DEF SentFits, Calm, Single

LEMMA NothingSent ==
  ASSUME sent' = NoCommand
  PROVE  SentFits'
  BY Fresh DEF SentFits

\* What is left to show of a step of s.
LEMMA RulesKept ==
  ASSUME RulesInv, [Next]_vars, NEW s, StepOf(s), Alone', ConnFollows',
         conn'.link # "mixed", sent' = NoCommand \/ SentFits',
         \A t \in Sets \ {s} : Progress(t)',
         s \in Sets => GaveOwn(s, set'[s]) /\ Progress(s)'
  PROVE  RulesInv'
  <1>1. TypeOK'
    BY TypeStep DEF RulesInv
  <1>2. ASSUME NEW t \in Sets PROVE GaveOwn(t, set[t])' /\ Progress(t)'
    <2>1. GaveOwn(t, set'[t])
      BY DEF RulesInv, StepOf
    <2>2. GaveOwn(t, set[t])'
      BY <2>1 DEF GaveOwn, Count
    <2>3. Progress(t)'
      OBVIOUS
    <2> QED BY <2>2, <2>3
  <1> QED BY <1>1, <1>2, NothingSent DEF RulesInv

-----------------------------------------------------------------------------
(* The rules and next().                                                   *)

LEMMA NoneIsNoSet == None \notin Sets
  BY NoneIsNothing

\* The set whose next() is under way.
LEMMA TurnIs ==
  ASSUME RulesInv, NEW s \in Sets, turn.set = s
  PROVE  /\ s \in OpenSets /\ set[s].life = "live" /\ set[s].told = "none" /\ set[s].answer \in Answers(s)
         /\ set[s].answer[1].kind # "error" /\ GaveOwn(s, set[s]) /\ GoodSet(set[s])
         /\ \E i \in 1..Len(set[s].answer) : ReadsAt(s, i) \/ WaitsAt(s, i) \/ PassedAt(s, i)
  <1>1. s \in OpenSets
    BY NoneIsNoSet DEF RulesInv, ConnFollows
  <1>2. set[s].told = "none" /\ set[s].life = "live"
    BY <1>1 DEF OpenSets, AtEnd
  <1> QED BY <1>1, <1>2, Types DEF RulesInv, GaveOwn, Progress

LEMMA CallRules ==
  ASSUME RulesInv, AllRules, [Next]_vars, NEW s \in Sets, CallNext(s)
  PROVE  RulesInv'
  <1>1. /\ turn.set = None /\ conn' = conn /\ set' = set /\ stmt' = stmt /\ turn'.set = s
        /\ turn'.at = (IF set[s].res = None THEN "store" ELSE "fetch") /\ s # None
        /\ set[s].life = "live" /\ sent' = NoCommand /\ conn.link # "mixed"
    BY Fresh, NoneIsNoSet DEF CallNext, Resting
  <1>2. s \in OpenSets
    BY DEF CallNext, Kept, AllRules, OpenSets
  <1>3. StepOf(s) /\ s \in OpenSets' /\ (Waits(s)' <=> Waits(s))
    BY <1>1, <1>2 DEF StepOf, OpenSets, AtEnd, Waits
  <1>4. Alone'
    BY <1>1, <1>2, <1>3, AloneKept, NoneIsNoSet DEF RulesInv
  <1>5. ConnFollows'
    BY <1>1, <1>2, <1>3, ConnKept, NoneIsNoSet DEF RulesInv
  <1>6. ASSUME NEW t \in Sets \ {s} PROVE Progress(t)'
    <2>1. SameResults /\ (Wanted(t)' <=> Wanted(t)) /\ t # None
      BY <1>1, NoneIsNoSet DEF SameResults, Wanted
    <2> QED BY <1>3, <2>1, OtherKept
  <1>7. Progress(s)'
    <2>1. PICK i \in 1..Len(set[s].answer) : ReadsAt(s, i) \/ WaitsAt(s, i) \/ PassedAt(s, i)
      BY <1>2 DEF Progress, RulesInv
    <2>2. set[s].answer[i] # None
      BY <1>1, AnswerIs DEF RulesInv, GaveOwn
    <2>3. ReadsAt(s, i)' \/ WaitsAt(s, i)'
      BY <1>1, <2>1, <2>2 DEF ReadsAt, WaitsAt, PassedAt, Before, Rest, Count, How, Wanted
    <2> QED BY <1>1, <2>1, <2>3 DEF Progress
  <1>8. GaveOwn(s, set'[s])
    BY <1>1 DEF RulesInv
  <1> QED BY <1>1, <1>3, <1>4, <1>5, <1>6, <1>7, <1>8, RulesKept

\* next() comes back with "end" or with an error: s is not open any more.
LEMMA TellRules ==
  ASSUME RulesInv, [Next]_vars, NEW s \in Sets, turn.set = s, NEW t \in {"end", "error"}, Tell(t),
         stmt' = stmt, conn'.link = conn.link, conn.link # "mixed", sent' = NoCommand,
         SameResults \/ (NoResults /\ (conn'.head = conn.head \/ ~Single(set[s].answer))),
         conn'.more # <<>> => Single(set[s].answer),
         conn'.pending # "none" => ~Waits(s),
         GaveOwn(s, [set[s] EXCEPT !.told = t])
  PROVE  RulesInv'
  <1>1. /\ set'[s] = [set[s] EXCEPT !.told = t] /\ turn' = NoTurn /\ turn'.set = None
        /\ \A u \in Sets \ {s} : set'[u] = set[u]
    BY Fresh, Types DEF Tell, RulesInv
  <1>2. set'[s].told = t
    BY <1>1, TurnIs DEF GoodSet, SetType
  <1>3. StepOf(s) /\ s \notin OpenSets'
    BY <1>1, <1>2 DEF StepOf, OpenSets, AtEnd
  <1>4. Alone'
    BY <1>3, AloneKept, NoneIsNoSet DEF RulesInv
  <1>5. ConnFollows'
    BY <1>1, <1>3, TurnIs, ConnKept, NoneIsNoSet DEF RulesInv, SameResults, NoResults
  <1>6. ASSUME NEW u \in Sets \ {s} PROVE Progress(u)'
    <2>1. u \in OpenSets => Single(set[u].answer) /\ Single(set[s].answer)
      BY TurnIs DEF RulesInv, Alone
    <2>2. (u \in OpenSets => (Wanted(u)' <=> Wanted(u))) /\ u # None
      BY <1>1, <2>1, NoneIsNoSet DEF Wanted, SameResults
    <2> QED BY <1>3, <2>1, <2>2, OtherKept
  <1>7. Progress(s)'
    BY <1>3 DEF Progress
  <1>8. GaveOwn(s, set'[s])
    <2>1. PICK new : new = [set[s] EXCEPT !.told = t]
      OBVIOUS
    <2>2. GaveOwn(s, new) /\ set'[s] = new
      BY <1>1, <2>1
    <2> QED BY <2>2
  <1> QED BY <1>3, <1>4, <1>5, <1>6, <1>7, <1>8, RulesKept

\* An error is not the end.
LEMMA ErrorGives ==
  ASSUME RulesInv, NEW s \in Sets, turn.set = s
  PROVE  GaveOwn(s, [set[s] EXCEPT !.told = "error"])
  <1> DEFINE new == [set[s] EXCEPT !.told = "error"]
  <1>1. new.told = "error" /\ new.answer = set[s].answer /\ new.seen = set[s].seen /\ new.life = set[s].life
    BY TurnIs DEF GoodSet, SetType
  <1> HIDE DEF new
  <1>2. GaveOwn(s, new)
    BY <1>1, TurnIs DEF GaveOwn, Count
  <1> QED BY <1>2 DEF new

\* After another row of the i-th result.
LEMMA NextRow ==
  ASSUME NEW s \in Sets, NEW r \in SetType, GaveOwn(s, r), r.life = "live", r.told = "none",
         NEW i \in 1..Len(r.answer), r.res = r.answer[i], Len(r.seen) = Before(r, i) + r.row,
         r.row < r.res.rows,
         NEW new, new.answer = r.answer, new.life = "live", new.told = "none",
         new.seen = Append(r.seen, <<s, i, r.row + 1>>)
  PROVE  GaveOwn(s, new) /\ Len(new.seen) = Before(r, i) + (r.row + 1)
  <1>1. r.row \in Nat /\ r.seen \in Seq(Rows) /\ Len(r.seen) \in Nat
    <2>1. r.seen \in Seq(Rows) /\ r.row \in 0..MaxRows
      BY DEF SetType
    <2> QED BY <2>1, RowBound
  <1>2. r.answer \in Answers(s) /\ r.answer[1].kind # "error"
    BY DEF GaveOwn
  <1>3. /\ Count(r, 1) \in Nat /\ Count(r, 2) \in Nat /\ Before(r, 1) = 0 /\ Before(r, 2) = Count(r, 1)
        /\ i \in {1, 2} /\ Count(r, i) = r.res.rows
    BY <1>2, AnswerIs
  <1>4. PICK m : m = Len(r.seen)
    OBVIOUS
  <1>5. /\ Len(new.seen) = m + 1 /\ new.seen[m + 1] = <<s, i, r.row + 1>>
        /\ \A j \in 1..m : new.seen[j] = r.seen[j]
    <2>1. PICK e : e = <<s, i, r.row + 1>>
      OBVIOUS
    <2>2. new.seen = Append(r.seen, e)
      BY <2>1
    <2>3. PICK q \in Seq(Rows) : q = r.seen
      BY <1>1
    <2>4. /\ Len(Append(q, e)) = Len(q) + 1 /\ Append(q, e)[Len(q) + 1] = e
          /\ \A j \in 1..Len(q) : Append(q, e)[j] = q[j]
      BY ONLY q \in Seq(Rows)
    <2> QED BY <1>4, <2>1, <2>2, <2>3, <2>4
  <1>6. Count(new, 1) = Count(r, 1) /\ Count(new, 2) = Count(r, 2)
    BY DEF Count
  <1>7. PICK a, b, k \in Nat : a = Count(r, 1) /\ b = Count(r, 2) /\ k = r.row
    BY <1>1, <1>3
  <1>8. /\ m \in Nat /\ m + 1 <= a + b
        /\ i = 1 => m = k /\ k + 1 <= a
        /\ i = 2 => m = a + k /\ k + 1 <= b
    <2>1. m = Before(r, i) + k /\ k < Count(r, i)
      BY <1>3, <1>4, <1>7
    <2>2. CASE i = 1
      <3>1. m = 0 + k /\ k < a
        BY <1>3, <1>7, <2>1, <2>2
      <3> QED BY <2>2, <3>1
    <2>3. CASE i = 2
      <3>1. m = a + k /\ k < b
        BY <1>3, <1>7, <2>1, <2>3
      <3> QED BY <2>3, <3>1
    <2> QED BY <1>3, <2>2, <2>3
  <1>9. ASSUME NEW j \in 1..(m + 1)
        PROVE  new.seen[j] = IF j <= Count(r, 1) THEN <<s, 1, j>> ELSE <<s, 2, j - Count(r, 1)>>
    <2>1. CASE j \in 1..m
      <3>1. r.seen[j] = IF j <= Count(r, 1) THEN <<s, 1, j>> ELSE <<s, 2, j - Count(r, 1)>>
        BY <1>4, <2>1 DEF GaveOwn
      <3> QED BY <1>5, <2>1, <3>1
    <2>2. CASE j = m + 1
      <3>1. CASE i = 1
        <4>1. j <= a /\ j = k + 1
          BY <1>8, <2>2, <3>1
        <4>2. new.seen[j] = <<s, 1, j>>
          BY <1>5, <1>7, <2>2, <3>1, <4>1
        <4> QED BY <1>7, <4>1, <4>2
      <3>2. CASE i = 2
        <4>1. ~(j <= a) /\ j - a = k + 1
          <5>1. m = a + k /\ j = m + 1 /\ a \in Nat /\ k \in Nat
            BY <1>8, <2>2, <3>2
          <5> QED BY ONLY <5>1
        <4>2. new.seen[j] = <<s, 2, j - a>>
          <5>1. new.seen[m + 1] = <<s, 2, k + 1>>
            BY <1>5, <1>7, <3>2
          <5> QED BY <2>2, <4>1, <5>1
        <4> QED BY <1>7, <4>1, <4>2
      <3> QED BY <1>3, <3>1, <3>2
    <2>3. j \in 1..m \/ j = m + 1
      BY <1>8
    <2> QED BY <2>1, <2>2, <2>3
  <1>10. GaveOwn(s, new)
    <2>1. \A j \in 1..Len(new.seen) :
            new.seen[j] = IF j <= Count(new, 1) THEN <<s, 1, j>> ELSE <<s, 2, j - Count(new, 1)>>
      BY <1>5, <1>6, <1>9
    <2>2. Len(new.seen) <= Count(new, 1) + Count(new, 2)
      BY <1>5, <1>6, <1>7, <1>8
    <2> QED BY <1>2, <2>1, <2>2 DEF GaveOwn
  <1>11. Len(new.seen) = Before(r, i) + (r.row + 1)
    <2>1. m = Before(r, i) + k /\ Before(r, i) \in Nat
      BY <1>3, <1>4, <1>7
    <2> QED BY <1>5, <1>7, <2>1
  <1> QED BY <1>10, <1>11

LEMMA StoreRules ==
  ASSUME RulesInv, AllRules, [Next]_vars, NEW s \in Sets, Store(s)
  PROVE  RulesInv'
  <1>1. /\ turn.set = s /\ turn.at = "store" /\ stmt' = stmt /\ s # None /\ turn.set # None
        /\ sent' = NoCommand /\ conn.link # "mixed"
    BY NoneIsNoSet, AtSent DEF Store, RulesInv
  <1>2. PICK i \in 1..Len(set[s].answer) : WaitsAt(s, i)
    BY <1>1, TurnIs DEF ReadsAt, PassedAt
  <1>3. /\ set[s].answer \in Answers(s) /\ GaveOwn(s, set[s]) /\ set[s].life = "live"
        /\ set[s].told = "none" /\ s \in OpenSets /\ Waits(s) /\ GoodSet(set[s]) /\ set[s] \in SetType
    BY <1>1, <1>2, TurnIs DEF Waits, WaitsAt, GoodSet
  <1>4. ASSUME NEW t \in Sets \ {s}, t \in OpenSets PROVE Only(t) /\ Single(set[t].answer)
    BY <1>1, <1>3, <1>4 DEF RulesInv, Alone, Waits, Only
  <1>5. CASE "stored" \in Stores(s) /\ conn' = Taken(conn) /\ set' = [set EXCEPT ![s] = Stored(s)] /\ Goto("fetch")
    <2>1. conn.pending = How(s) /\ conn.pending # "none"
      BY <1>5 DEF Stores, How
    <2>2. conn.head = set[s].answer[i] /\ conn.more = Rest(set[s], i)
      BY <1>2, <2>1 DEF WaitsAt
    <2>3. conn'.pending = "none" /\ conn'.more = conn.more /\ conn'.link = conn.link
      BY <1>5, ClearedIs, Types DEF RulesInv
    <2>4. turn'.set = s /\ turn'.at = "fetch"
      BY <1>1, <1>5, Types DEF Goto, RulesInv, GoodTurn, TurnType
    <2>5. /\ set'[s].res = conn.head /\ set'[s].row = 0 /\ set'[s].life = "live" /\ set'[s].told = "none"
          /\ set'[s].answer = set[s].answer /\ set'[s].seen = set[s].seen
          /\ \A t \in Sets \ {s} : set'[t] = set[t]
      <3>1. PICK r \in SetType : r = set[s]
        BY <1>3
      <3>2. PICK h \in Results \cup {None} : h = conn.head
        BY Types DEF RulesInv, GoodConn, ConnType
      <3>3. 0 \in 0..MaxRows
        BY RowBound
      <3>4. LET x == WithResult(r, h, 0)
            IN x.res = h /\ x.row = 0 /\ x.life = r.life /\ x.told = r.told /\ x.answer = r.answer /\ x.seen = r.seen
        BY <3>3, WithResultIs
      <3>5. set' = [set EXCEPT ![s] = WithResult(r, h, 0)]
        BY <1>5, <3>1, <3>2 DEF Stored, WithResult
      <3> QED BY <1>3, <3>1, <3>2, <3>4, <3>5, Types DEF RulesInv
    <2>6. StepOf(s) /\ s \in OpenSets' /\ set'[s].answer = set[s].answer
      BY <1>1, <2>4, <2>5 DEF StepOf, OpenSets, AtEnd
    <2>7. Alone'
      BY <1>3, <2>6, AloneKept, NoneIsNoSet DEF RulesInv
    <2>8. ConnFollows'
      BY <1>3, <2>3, <2>4, <2>6, ConnKept, NoneIsNoSet DEF RulesInv
    <2>9. ASSUME NEW t \in Sets \ {s} PROVE Progress(t)'
      BY <1>4, <2>4, <2>5, ReaderKept DEF RulesInv
    <2>10. Progress(s)'
      <3>1. Len(set[s].seen) \in Nat
        BY <1>3 DEF SetType
      <3>2. Before(set[s], i) + 0 = Before(set[s], i)
        BY <1>2, <3>1 DEF WaitsAt
      <3>3. ReadsAt(s, i)'
        BY <1>2, <2>2, <2>3, <2>4, <2>5, <3>2 DEF ReadsAt, WaitsAt, Before, Rest, Count
      <3> QED BY <2>5, <3>3 DEF Progress
    <2>11. GaveOwn(s, set'[s])
      BY <1>3, <2>5 DEF GaveOwn, Count
    <2> QED BY <1>1, <2>3, <2>6, <2>7, <2>8, <2>9, <2>10, <2>11, RulesKept
  <1>6. CASE "nothing" \in Stores(s) /\ Goto("advance") /\ UNCHANGED <<conn, set>>
    <2>1. ~Wanted(s)
      BY <1>6 DEF Stores, Wanted
    <2>2. set[s].answer[i].kind = "ok" /\ conn.pending = "none" /\ conn.more = Rest(set[s], i)
      BY <1>2, <2>1 DEF WaitsAt
    <2>3. turn'.set = s /\ turn'.at = "advance"
      BY <1>1, <1>6, Types DEF Goto, RulesInv, GoodTurn, TurnType
    <2>4. StepOf(s) /\ s \in OpenSets'
      BY <1>1, <1>3, <1>6, <2>3 DEF StepOf, OpenSets, AtEnd
    <2>5. Alone'
      BY <1>3, <1>6, <2>4, AloneKept, NoneIsNoSet DEF RulesInv
    <2>6. ConnFollows'
      BY <1>3, <1>6, <2>2, <2>3, <2>4, ConnKept, NoneIsNoSet DEF RulesInv
    <2>7. ASSUME NEW t \in Sets \ {s} PROVE Progress(t)'
      BY <1>4, <1>6, <2>3, ReaderKept DEF RulesInv
    <2>8. Progress(s)'
      <3>1. Count(set[s], i) = 0
        BY <1>3, <2>2, AnswerIs
      <3>2. Len(set[s].seen) \in Nat
        BY <1>3 DEF SetType
      <3>3. Before(set[s], i) + Count(set[s], i) = Len(set[s].seen)
        BY <1>2, <3>1, <3>2 DEF WaitsAt
      <3>4. PassedAt(s, i)'
        BY <1>2, <1>6, <2>2, <2>3, <3>3 DEF PassedAt, WaitsAt, Before, Rest, Count
      <3> QED BY <1>6, <3>4 DEF Progress
    <2>9. GaveOwn(s, set'[s])
      BY <1>3, <1>6
    <2> QED BY <1>1, <1>6, <2>4, <2>5, <2>6, <2>7, <2>8, <2>9, RulesKept
  <1>7. CASE /\ "error" \in Stores(s)
             /\ conn' = (IF conn.link = "lost" THEN ReadOff(conn) ELSE conn) /\ Tell("error")
    <2>1. /\ conn'.link = conn.link
          /\ SameResults \/ (NoResults /\ conn'.head = conn.head)
      BY <1>7, ClearedIs, Types DEF RulesInv, SameResults, NoResults
    <2>2. conn'.pending = "none" /\ conn'.more = <<>>
      <3>1. CASE conn.link = "lost"
        BY <1>7, <3>1, ClearedIs, Types DEF RulesInv
      <3>2. CASE conn.link # "lost"
        <4>1. Wanted(s) /\ conn.pending # How(s)
          BY <1>7, <3>2 DEF Stores, Wanted, How
        <4> QED BY <1>2, <1>7, <3>2, <4>1 DEF WaitsAt
      <3> QED BY <3>1, <3>2
    <2>3. GaveOwn(s, [set[s] EXCEPT !.told = "error"])
      BY <1>1, ErrorGives
    <2>4. Tell("error")
      BY <1>7
    <2> QED BY <1>1, <2>1, <2>2, <2>3, <2>4, TellRules
  <1> QED BY <1>5, <1>6, <1>7 DEF Store

LEMMA FetchRules ==
  ASSUME RulesInv, AllRules, [Next]_vars, NEW s \in Sets, Fetch(s)
  PROVE  RulesInv'
  <1>1. /\ turn.set = s /\ turn.at = "fetch" /\ stmt' = stmt /\ conn' = conn /\ s # None
        /\ turn.set # None /\ sent' = NoCommand /\ conn.link # "mixed"
    BY NoneIsNoSet, AtSent DEF Fetch, RulesInv
  <1>2. PICK i \in 1..Len(set[s].answer) : ReadsAt(s, i)
    BY <1>1, TurnIs DEF WaitsAt, PassedAt
  <1>3. /\ set[s].answer \in Answers(s) /\ GaveOwn(s, set[s]) /\ set[s].life = "live"
        /\ set[s].told = "none" /\ s \in OpenSets /\ GoodSet(set[s]) /\ set[s] \in SetType
    BY <1>1, TurnIs DEF GoodSet
  <1>4. /\ set[s].res = set[s].answer[i] /\ set[s].res # None /\ set[s].res \in Results
        /\ set[s].res.of = s /\ set[s].res.i = i /\ Count(set[s], i) = set[s].res.rows
        /\ set[s].res.kind = "rows" /\ set[s].row <= set[s].res.rows
    BY <1>2, <1>3, AnswerIs DEF ReadsAt, GoodSet
  <1>5. ~Waits(s)
    BY <1>4 DEF Waits
  <1>6. ASSUME StepOf(s), NEW t \in Sets \ {s} PROVE Progress(t)'
    <2>1. SameResults /\ (Wanted(t)' <=> Wanted(t)) /\ t # None
      BY <1>1, <1>6, NoneIsNoSet DEF StepOf, SameResults, Wanted
    <2> QED BY <1>6, <2>1, OtherKept
  <1>7. set[s].row \in 0..MaxRows /\ set[s].res.rows \in 0..MaxRows /\ set[s].seen \in Seq(Rows)
    BY <1>3, <1>4 DEF SetType, Results
  <1>8. CASE set[s].row < set[s].res.rows
    <2> DEFINE row == <<set[s].res.of, set[s].res.i, set[s].row + 1>>
    <2>1. row \in Rows /\ set[s].row + 1 \in 0..MaxRows /\ row = <<s, i, set[s].row + 1>>
      <3>1. set[s].row + 1 \in 1..MaxRows /\ set[s].row + 1 \in 0..MaxRows
        BY <1>7, <1>8, RowBound
      <3> QED BY <1>4, <3>1 DEF Rows, Results
    <2>2. PICK n \in 0..MaxRows : n = set[s].row + 1
      BY <2>1
    <2>3. PICK seen \in Seq(Rows) : seen = Append(set[s].seen, row)
      <3>1. PICK e \in Rows : e = row
        BY <2>1
      <3>2. PICK q \in Seq(Rows) : q = set[s].seen
        BY <1>7
      <3>3. Append(q, e) \in Seq(Rows)
        BY AppendProperties
      <3> HIDE DEF row
      <3> QED BY <3>1, <3>2, <3>3
    <2>4. PICK r \in SetType : r = set[s]
      BY <1>3
    <2>5. /\ WithRow(r, n, seen).res = r.res /\ WithRow(r, n, seen).row = n /\ WithRow(r, n, seen).seen = seen
          /\ WithRow(r, n, seen).answer = r.answer /\ WithRow(r, n, seen).life = r.life
          /\ WithRow(r, n, seen).told = r.told
      BY WithRowIs
    <2>6. turn' = NoTurn /\ turn'.set = None /\ set' = [set EXCEPT ![s] = WithRow(r, n, seen)]
      BY <1>8, <2>2, <2>3, <2>4, Fresh, Types DEF Fetch, WithRow, RulesInv
    <2>7. /\ set'[s].res = set[s].res /\ set'[s].row = set[s].row + 1 /\ set'[s].answer = set[s].answer
          /\ set'[s].life = "live" /\ set'[s].told = "none" /\ set'[s].seen = Append(set[s].seen, row)
          /\ \A t \in Sets \ {s} : set'[t] = set[t]
      BY <1>3, <2>2, <2>3, <2>4, <2>5, <2>6, Types DEF RulesInv
    <2>8. StepOf(s) /\ s \in OpenSets' /\ ~Waits(s)'
      BY <1>1, <1>4, <2>6, <2>7 DEF StepOf, OpenSets, AtEnd, Waits
    <2>9. Alone'
      BY <1>3, <2>7, <2>8, AloneKept, NoneIsNoSet DEF RulesInv
    <2>10. ConnFollows'
      BY <1>1, <1>3, <1>5, <2>6, <2>7, <2>8, ConnKept, NoneIsNoSet DEF RulesInv
    <2>11. PICK new : new = set'[s]
      OBVIOUS
    <2>12. GaveOwn(s, new) /\ Len(new.seen) = Before(set[s], i) + (set[s].row + 1)
      <3>1. /\ new.answer = set[s].answer /\ new.life = "live" /\ new.told = "none"
            /\ new.seen = Append(set[s].seen, <<s, i, set[s].row + 1>>)
        BY <2>1, <2>7, <2>11
      <3>2. Len(set[s].seen) = Before(set[s], i) + set[s].row
        BY <1>2 DEF ReadsAt
      <3> HIDE DEF row
      <3> QED BY <1>3, <1>4, <1>8, <3>1, <3>2, NextRow
    <2>13. ReadsAt(s, i)'
      BY <1>1, <1>2, <2>6, <2>7, <2>11, <2>12, <1>1 DEF ReadsAt, Before, Rest, Count
    <2>14. Progress(s)'
      BY <2>7, <2>13 DEF Progress
    <2> QED BY <1>1, <1>6, <2>8, <2>9, <2>10, <2>11, <2>12, <2>14, RulesKept
  <1>9. CASE ~(set[s].row < set[s].res.rows)
    <2>1. set' = [set EXCEPT ![s] = [set[s] EXCEPT !.res = None]] /\ turn'.set = s /\ turn'.at = "advance"
      BY <1>1, <1>9, Types DEF Fetch, Goto, RulesInv, GoodTurn, TurnType
    <2>2. /\ set'[s].res = None /\ set'[s].answer = set[s].answer /\ set'[s].life = "live"
          /\ set'[s].told = "none" /\ set'[s].seen = set[s].seen
          /\ \A t \in Sets \ {s} : set'[t] = set[t]
      BY <1>3, <2>1, Types DEF RulesInv, SetType
    <2>3. StepOf(s) /\ s \in OpenSets' /\ ~Waits(s)'
      BY <1>1, <2>1, <2>2 DEF StepOf, OpenSets, AtEnd, Waits
    <2>4. Alone'
      BY <1>3, <2>2, <2>3, AloneKept, NoneIsNoSet DEF RulesInv
    <2>5. ConnFollows'
      BY <1>1, <1>3, <1>5, <2>1, <2>2, <2>3, ConnKept, NoneIsNoSet DEF RulesInv
    <2>6. Len(set[s].seen) = Before(set[s], i) + Count(set[s], i)
      <3>1. set[s].row = set[s].res.rows
        BY <1>4, <1>7, <1>9, RowBound
      <3> QED BY <1>2, <1>4, <3>1 DEF ReadsAt
    <2>7. PassedAt(s, i)'
      BY <1>1, <1>2, <1>4, <2>1, <2>2, <2>6 DEF PassedAt, ReadsAt, Before, Rest, Count
    <2>8. Progress(s)'
      BY <2>2, <2>7 DEF Progress
    <2>9. GaveOwn(s, set'[s])
      BY <1>3, <2>2 DEF GaveOwn, Count
    <2> QED BY <1>1, <1>6, <2>3, <2>4, <2>5, <2>8, <2>9, RulesKept
  <1> QED BY <1>8, <1>9

\* While s asks for its next result, what follows is its own.
LEMMA FollowsOwn ==
  ASSUME RulesInv, NEW s \in Sets, turn.set = s, turn.at = "advance",
         NEW i \in 1..Len(set[s].answer), PassedAt(s, i), conn.more # <<>>
  PROVE  /\ ~Single(set[s].answer) /\ i = 1 /\ Len(set[s].answer) = 2
         /\ conn.more = <<set[s].answer[2]>> /\ conn.pending = "none"
         /\ \A t \in OpenSets : t = s
  <1>1. s \in OpenSets /\ set[s].answer \in Answers(s)
    BY TurnIs
  <1>2. PICK t \in OpenSets : ~Single(set[t].answer) /\ conn.more = <<set[t].answer[2]>>
    BY DEF RulesInv, ConnFollows
  <1>3. t = s
    BY <1>1, <1>2 DEF RulesInv, Alone
  <1>4. \A u \in OpenSets : u = s
    BY <1>1, <1>2, <1>3 DEF RulesInv, Alone
  <1>5. conn.more = Rest(set[s], i)
    BY <1>2, <1>3 DEF PassedAt
  <1>6. i = 1
    <2>1. i \in {1, 2} /\ Rest(set[s], 2) = <<>>
      BY <1>1, AnswerIs
    <2> QED BY <1>5, <2>1
  <1>7. conn.pending = "none"
    <2> SUFFICES ASSUME conn.pending # "none" PROVE FALSE
      OBVIOUS
    <2>1. conn.head.of \in OpenSets /\ Waits(conn.head.of)
      BY DEF RulesInv, ConnFollows
    <2> QED BY <1>4, <2>1 DEF Waits
  <1> QED BY <1>1, <1>2, <1>3, <1>4, <1>6, <1>7, AnswerIs

\* All was given when no result follows.
LEMMA EndGives ==
  ASSUME RulesInv, NEW s \in Sets, turn.set = s, turn.at = "advance",
         NEW i \in 1..Len(set[s].answer), PassedAt(s, i), conn.more = <<>>
  PROVE  GaveOwn(s, [set[s] EXCEPT !.told = "end"])
  <1> DEFINE new == [set[s] EXCEPT !.told = "end"]
  <1>1. new.told = "end" /\ new.answer = set[s].answer /\ new.seen = set[s].seen /\ new.life = "live"
    BY TurnIs DEF GoodSet, SetType
  <1> HIDE DEF new
  <1>2. /\ set[s].answer \in Answers(s) /\ GaveOwn(s, set[s]) /\ set[s].answer[1].kind # "error"
        /\ set[s].life = "live" /\ set[s].answer[i].kind # "error"
        /\ Len(set[s].seen) = Before(set[s], i) + Count(set[s], i)
    BY TurnIs DEF PassedAt
  <1>3. Len(set[s].seen) = Count(set[s], 1) + Count(set[s], 2) /\ i = Len(set[s].answer)
    <2>1. CASE Single(set[s].answer)
      <3>1. i = 1 /\ Count(set[s], 2) = 0 /\ Before(set[s], 1) = 0 /\ Len(set[s].answer) = 1
            /\ Count(set[s], 1) \in Nat
        BY <1>2, <2>1, AnswerIs DEF Single
      <3> QED BY <1>2, <3>1
    <2>2. CASE ~Single(set[s].answer)
      <3>1. i = 2 /\ Before(set[s], 2) = Count(set[s], 1) /\ Len(set[s].answer) = 2
        <4>1. conn.more = Rest(set[s], i)
          BY <2>2 DEF PassedAt
        <4>2. i \in {1, 2} /\ Rest(set[s], 1) = <<set[s].answer[2]>> /\ Len(set[s].answer) = 2
              /\ Before(set[s], 2) = Count(set[s], 1)
          BY <1>2, <2>2, AnswerIs
        <4> QED BY <4>1, <4>2
      <3> QED BY <1>2, <3>1
    <2> QED BY <2>1, <2>2
  <1>4. \A j \in 1..Len(set[s].answer) : set[s].answer[j].kind # "error"
    <2>1. \A j \in 1..Len(set[s].answer) : j \in {1, 2}
      BY <1>2, AnswerIs
    <2>2. \A j \in 1..Len(set[s].answer) : j = 1 \/ j = i
      BY <1>3, <2>1
    <2> QED BY <1>2, <2>2
  <1>5. Count(new, 1) = Count(set[s], 1) /\ Count(new, 2) = Count(set[s], 2)
    BY <1>1 DEF Count
  <1>6. GaveOwn(s, new)
    BY <1>1, <1>2, <1>3, <1>4, <1>5 DEF GaveOwn
  <1> QED BY <1>6 DEF new

LEMMA AdvanceRules ==
  ASSUME RulesInv, AllRules, [Next]_vars, NEW s \in Sets, Advance(s)
  PROVE  RulesInv'
  <1>1. /\ turn.set = s /\ turn.at = "advance" /\ s # None /\ turn.set # None
        /\ sent' = NoCommand /\ conn.link # "mixed"
    BY NoneIsNoSet, AtSent DEF Advance, RulesInv
  <1>2. PICK i \in 1..Len(set[s].answer) : PassedAt(s, i)
    BY <1>1, TurnIs DEF ReadsAt, WaitsAt
  <1>3. /\ set[s].answer \in Answers(s) /\ GaveOwn(s, set[s]) /\ set[s].life = "live"
        /\ set[s].told = "none" /\ s \in OpenSets /\ GoodSet(set[s]) /\ set[s] \in SetType
        /\ ~Waits(s) /\ GoodConn(conn)
    BY <1>1, TurnIs, Types DEF Waits, GoodSet, RulesInv
  <1>4. CASE conn.more = <<>> /\ Tell("end") /\ UNCHANGED <<conn, stmt>>
    <2>1. GaveOwn(s, [set[s] EXCEPT !.told = "end"])
      BY <1>1, <1>2, <1>4, EndGives
    <2>2. SameResults
      BY <1>4 DEF SameResults
    <2>3. Tell("end")
      BY <1>4
    <2> QED BY <1>1, <1>3, <1>4, <2>1, <2>2, <2>3, TellRules
  <1>5. CASE /\ conn.more # <<>> /\ conn' = Announced(conn, conn.more, How(s))
             /\ Head(conn.more).kind = "error" /\ Tell("error") /\ stmt' = stmt
    <2>1. conn'.pending = "none" /\ conn'.more = <<>> /\ conn'.link = conn.link
      <3>1. conn.more \in Seq(Results)
        BY <1>3 DEF GoodConn, ConnType
      <3>2. PICK rs \in Seq(Results), how \in {"text", "stmt"} : rs = conn.more /\ how = How(s)
        BY <3>1 DEF How
      <3>3. conn'.link = conn.link /\ Announces(conn', rs, how)
        BY <1>3, <1>5, <3>2, AnnouncedIs
      <3> QED BY <1>5, <3>2, <3>3 DEF Announces
    <2>2. ~Single(set[s].answer)
      BY <1>1, <1>2, <1>5, FollowsOwn
    <2>3. Tell("error") /\ GaveOwn(s, [set[s] EXCEPT !.told = "error"]) /\ NoResults
      BY <1>1, <1>5, <2>1, ErrorGives DEF NoResults
    <2> QED BY <1>1, <1>5, <2>1, <2>2, <2>3, TellRules
  <1>6. CASE /\ conn.more # <<>> /\ conn' = Announced(conn, conn.more, How(s))
             /\ Head(conn.more).kind # "error" /\ Goto("store") /\ set' = set
             /\ stmt' = IF set[s].by = None THEN stmt
                        ELSE [stmt EXCEPT ![set[s].by] = IF Head(conn.more).kind = "rows" THEN "rows" ELSE "live"]
    <2>1. /\ ~Single(set[s].answer) /\ i = 1 /\ Len(set[s].answer) = 2
          /\ conn.more = <<set[s].answer[2]>> /\ conn.pending = "none" /\ \A t \in OpenSets : t = s
      BY <1>1, <1>2, <1>6, FollowsOwn
    <2>2. PICK a2 \in Results : /\ a2 = set[s].answer[2] /\ a2.of = s
                                /\ Rest(set[s], 2) = <<>> /\ Before(set[s], 2) = Count(set[s], 1)
                                /\ Before(set[s], 1) = 0 /\ Count(set[s], 1) \in Nat
      <3>1. 2 \in 1..Len(set[s].answer)
        BY <2>1
      <3> QED BY <1>3, <3>1, AnswerIs
    <2>3. conn.more \in Seq(Results) /\ Head(conn.more) = a2 /\ Tail(conn.more) = <<>>
          /\ a2.kind \in {"rows", "ok"}
      <3>1. conn.more = <<a2>>
        BY <2>1, <2>2
      <3>2. a2.kind \in {"rows", "ok", "error"}
        BY DEF Results
      <3> QED BY <1>6, <3>1, <3>2
    <2>4. /\ conn'.link = conn.link /\ conn'.more = <<>>
          /\ a2.kind = "rows" => conn'.pending = How(s) /\ conn'.head = a2
          /\ a2.kind = "ok" => conn'.pending = "none" /\ conn'.head = None
      <3>1. How(s) \in {"text", "stmt"}
        BY DEF How
      <3>2. PICK rs \in Seq(Results) : rs = conn.more
        BY <2>3
      <3>3. PICK how \in {"text", "stmt"} : how = How(s)
        BY <3>1
      <3>4. rs # <<>> /\ Head(rs) = a2 /\ Tail(rs) = <<>> /\ conn' = Announced(conn, rs, how)
        BY <1>6, <2>1, <2>3, <3>2, <3>3
      <3>5. conn'.link = conn.link /\ Announces(conn', rs, how)
        BY <1>3, <3>4, AnnouncedIs
      <3> QED BY <2>3, <3>3, <3>4, <3>5 DEF Announces
    <2>5. turn'.set = s /\ turn'.at = "store"
      BY <1>1, <1>6, Types DEF Goto, RulesInv, GoodTurn, TurnType
    <2>6. StepOf(s) /\ OpenSets' = OpenSets /\ set[s].res = None /\ Waits(s)'
      BY <1>1, <1>2, <1>3, <1>6, <2>5 DEF StepOf, OpenSets, AtEnd, Waits, PassedAt
    <2>7. Alone'
      BY <2>1, <2>6 DEF Alone
    <2>8. ConnFollows'
      <3>1. (conn.pending # "none" => conn.head.of \in OpenSets /\ Waits(conn.head.of))'
        <4>1. conn'.pending # "none" => conn'.head.of = s
          BY <2>2, <2>3, <2>4
        <4> QED BY <1>3, <2>6, <4>1 DEF Waits
      <3>2. conn'.link # "closed"
        BY <1>3, <2>4 DEF RulesInv, ConnFollows
      <3> QED BY <1>3, <2>4, <2>5, <2>6, <3>1, <3>2 DEF ConnFollows
    <2>9. ASSUME NEW t \in Sets \ {s} PROVE Progress(t)'
      BY <2>1, <2>6 DEF Progress
    <2>10. Wanted(s)' <=> a2.kind = "rows"
      <3>1. CASE set[s].by = None
        BY <1>6, <2>3, <2>4, <3>1, NoneIsNothing DEF Wanted
      <3>2. CASE set[s].by # None
        <4>1. set[s].by \in Stmts
          BY <1>3, <3>2 DEF SetType
        <4>2. stmt'[set[s].by] = IF a2.kind = "rows" THEN "rows" ELSE "live"
          BY <1>6, <2>3, <3>2, <4>1, Types DEF RulesInv
        <4> QED BY <1>6, <3>2, <4>2 DEF Wanted
      <3> QED BY <3>1, <3>2
    <2>11. Progress(s)'
      <3>1. Len(set[s].seen) = Before(set[s], 2)
        <4>1. Len(set[s].seen) = Before(set[s], 1) + Count(set[s], 1)
          BY <1>2, <2>1 DEF PassedAt
        <4> QED BY <2>2, <4>1
      <3>2. How(s)' = How(s)
        BY <1>6 DEF How
      <3>3. WaitsAt(s, 2)'
        BY <1>6, <2>2, <2>3, <2>4, <2>5, <2>6, <2>10, <3>1, <3>2 DEF WaitsAt, Before, Rest, Count
      <3>4. 2 \in 1..Len(set'[s].answer)
        BY <1>6, <2>1
      <3> QED BY <3>3, <3>4 DEF Progress
    <2>12. GaveOwn(s, set'[s])
      BY <1>3, <1>6
    <2> QED BY <1>1, <2>4, <2>6, <2>7, <2>8, <2>9, <2>11, <2>12, RulesKept
  <1>7. CASE /\ ~(conn.pending = "none" \/ (set[s].by # None /\ conn.more = <<>>)) \/ conn.link = "lost"
             /\ conn' = (IF conn.link = "lost" THEN [conn EXCEPT !.more = <<>>] ELSE conn)
             /\ Tell("error") /\ stmt' = stmt
    <2>1. conn.more # <<>> => conn.pending = "none" /\ ~Single(set[s].answer)
      BY <1>1, <1>2, FollowsOwn
    <2>2. /\ conn'.pending = conn.pending /\ conn'.head = conn.head /\ conn'.link = conn.link
          /\ conn'.more = <<>> \/ (conn'.more = conn.more /\ conn.pending # "none")
      BY <1>3, <1>7 DEF GoodConn, ConnType
    <2>3. SameResults \/ NoResults
      BY <2>1, <2>2 DEF SameResults, NoResults
    <2>4. GaveOwn(s, [set[s] EXCEPT !.told = "error"]) /\ Tell("error")
      BY <1>1, <1>7, ErrorGives
    <2> QED BY <1>1, <1>3, <1>7, <2>1, <2>2, <2>3, <2>4, TellRules
  <1> QED BY <1>4, <1>5, <1>6, <1>7 DEF Advance, How

-----------------------------------------------------------------------------
(* The rules and the other operations.                                     *)

\* A command makes the result set s, or none.
LEMMA CommandRules ==
  ASSUME RulesInv, AllRules, [Next]_vars, NEW s \in Sets, set[s].life = "none", NEW a \in Answers(s),
         OpenSets = {} \/ (Single(a) /\ Calm), NEW p \in Stmts \cup {None}, Sends(s, p, a),
         NEW k, GoodConn(k), k.link \in {"ok", "lost"},
         conn' = Announced(k, a, IF p = None THEN "text" ELSE "stmt"),
         p # None => stmt'[p] = (IF a[1].kind = "rows" THEN "rows" ELSE "live"),
         turn = NoTurn, turn' = NoTurn, sent' = NoCommand
  PROVE  RulesInv'
  <1>1. /\ a \in Seq(Results) /\ a # <<>> /\ Head(a) = a[1] /\ Len(a) \in 1..2
        /\ Tail(a) = (IF Len(a) = 1 THEN <<>> ELSE <<a[2]>>)
        /\ a[1] \in Results /\ a[1].of = s
    <2>1. 1 \in 1..Len(a)
      BY AnswersAre
    <2> QED BY <2>1, AnswersAre
  <1>2. a[1].kind \in {"rows", "ok", "error"}
    BY <1>1 DEF Results
  <1>3. /\ conn'.link \in {"ok", "lost"}
        /\ a[1].kind = "rows" => /\ conn'.pending = (IF p = None THEN "text" ELSE "stmt")
                                 /\ conn'.head = a[1] /\ conn'.more = Tail(a)
        /\ a[1].kind # "rows" => conn'.pending = "none" /\ conn'.head = None
        /\ a[1].kind = "ok" => conn'.more = Tail(a)
        /\ a[1].kind = "error" => conn'.more = <<>>
    <2>1. PICK how \in {"text", "stmt"} : how = (IF p = None THEN "text" ELSE "stmt")
      OBVIOUS
    <2>2. conn'.link = k.link /\ Announces(conn', a, how)
      BY <1>1, <2>1, AnnouncedIs
    <2> QED BY <1>1, <2>1, <2>2 DEF Announces
  <1>4. OpenSets = {} \/ (Single(a) /\ Calm)
    OBVIOUS
  <1>5. StepOf(s) /\ s \notin OpenSets /\ turn.set = None /\ turn'.set = None
    BY Fresh, Types DEF Sends, StepOf, OpenSets, RulesInv
  <1>6. ASSUME NEW t \in Sets \ {s} PROVE Progress(t)'
    <2>1. set'[t] = set[t] /\ (t \in OpenSets => Only(t)) /\ Progress(t) /\ turn'.set # t
      BY <1>4, <1>5, NoneIsNoSet DEF StepOf, Calm, RulesInv
    <2> QED BY <2>1, ReaderKept DEF RulesInv
  <1>7. ASSUME NEW t \in OpenSets', t # s
        PROVE  t \in OpenSets /\ Only(t) /\ Single(a) /\ Single(set'[t].answer) /\ ~Waits(t)'
    <2>1. t \in Sets
      BY DEF OpenSets
    <2>2. t \in OpenSets /\ set'[t] = set[t]
      BY <1>5, <1>7, <2>1, OthersOpen DEF StepOf
    <2> QED BY <1>4, <2>2 DEF Calm, Only, Waits
  <1>8. CASE a[1].kind = "error"
    <2>1. set' = set
      BY <1>8 DEF Sends
    <2>2. Alone'
      BY <1>5, <2>1, AloneKept, NoneIsNoSet DEF RulesInv, OpenSets, AtEnd
    <2>3. ConnFollows'
      BY <1>3, <1>5, <1>8 DEF ConnFollows
    <2>4. Progress(s)' /\ GaveOwn(s, set'[s])
      BY <1>5, <2>1 DEF Progress, RulesInv, OpenSets, AtEnd
    <2> QED BY <1>3, <1>5, <1>6, <2>2, <2>3, <2>4, RulesKept
  <1>9. CASE a[1].kind # "error"
    <2> DEFINE new == Opened(p, a)
    <2>1. set'[s] = new
      BY <1>9, Types DEF Sends, RulesInv
    <2>2. /\ new.life = "live" /\ new.by = p /\ new.answer = a /\ new.res = None
          /\ new.seen = <<>> /\ new.told = "none"
      BY <1>1, OpenedIs
    <2> HIDE DEF new
    <2>3. s \in OpenSets' /\ Waits(s)'
      BY <1>5, <2>1, <2>2, NoneIsNoSet DEF OpenSets, AtEnd, Waits
    <2>4. Single(a) <=> Len(a) = 1
      BY DEF Single
    <2>5. Alone'
      <3> SUFFICES ASSUME NEW t \in OpenSets', NEW u \in OpenSets', t # u
                   PROVE  Single(set'[t].answer) /\ ~(Waits(t)' /\ Waits(u)')
        BY DEF Alone, Single
      <3>1. t # s \/ u # s
        OBVIOUS
      <3> QED BY <1>7, <2>1, <2>2, <3>1
    <2>6. ConnFollows'
      <3>1. (conn.pending # "none" => conn.head.of \in OpenSets /\ Waits(conn.head.of))'
        <4>1. conn'.pending # "none" => conn'.head.of = s
          BY <1>1, <1>3
        <4> QED BY <2>3, <4>1 DEF Waits
      <3>2. conn'.more # <<>> => Len(a) = 2 /\ conn'.more = <<a[2]>>
        BY <1>1, <1>2, <1>3, <1>9
      <3>3. conn'.more # <<>> =>
              \E t \in OpenSets' : ~Single(set'[t].answer) /\ conn'.more = <<set'[t].answer[2]>>
        BY <2>1, <2>2, <2>3, <2>4, <3>2
      <3> QED BY <1>3, <1>5, <3>1, <3>3 DEF ConnFollows, Single
    <2>7. new.answer \in Answers(s) /\ new.answer[1].kind # "error"
      BY <1>9, <2>2
    <2>8. /\ Count(new, 1) \in Nat /\ Count(new, 2) \in Nat /\ Before(new, 1) = 0
          /\ Rest(new, 1) = Tail(a) /\ Len(new.seen) = 0 /\ 1 \in 1..Len(new.answer)
      BY <1>1, <2>2, <2>7, AnswerIs DEF Rest
    <2>9. GaveOwn(s, new)
      <3>1. Len(new.seen) <= Count(new, 1) + Count(new, 2) /\ 1..Len(new.seen) = {}
        BY <2>8
      <3> QED BY <2>2, <2>7, <3>1 DEF GaveOwn
    <2>10. Wanted(s)' <=> a[1].kind = "rows"
      <3>1. a[1].kind = "rows" => conn'.head # None
        BY <1>1, <1>3, NoneIsNothing
      <3>2. CASE p = None
        BY <1>3, <2>1, <2>2, <3>1, <3>2 DEF Wanted
      <3>3. CASE p # None
        BY <2>1, <2>2, <3>3 DEF Wanted
      <3> QED BY <3>2, <3>3
    <2>11. How(s)' = IF p = None THEN "text" ELSE "stmt"
      BY <2>1, <2>2 DEF How
    <2>12. WaitsAt(s, 1)'
      BY <1>2, <1>3, <1>5, <1>9, <2>1, <2>2, <2>8, <2>10, <2>11, NoneIsNoSet DEF WaitsAt
    <2>13. Progress(s)'
      BY <2>1, <2>8, <2>12 DEF Progress
    <2> QED BY <1>3, <1>5, <1>6, <2>1, <2>5, <2>6, <2>9, <2>13, RulesKept
  <1> QED BY <1>8, <1>9

LEMMA TextRules ==
  ASSUME RulesInv, AllRules, [Next]_vars, NEW s \in Sets, Answered("query", s, None), TextStep(s)
  PROVE  RulesInv'
  <1>1. PICK a \in Answers(s) : a = sent.answer
    BY AnsweredIs DEF RulesInv
  <1>2. /\ sent.does = "query" /\ turn = NoTurn /\ turn' = NoTurn /\ sent' = NoCommand /\ GoodConn(conn)
        /\ conn.link \in {"ok", "lost"} /\ sent.to = s
    BY AnsweredIs DEF RulesInv
  <1>3. set[s].life = "none" /\ s # None
    BY <1>2, NoneIsNoSet, Types DEF GoodSent, RulesInv
  <1>4. OpenSets = {} \/ (Single(a) /\ Calm)
    BY <1>1, <1>2 DEF RulesInv, SentFits
  <1>5. Sends(s, None, a) /\ conn' = Announced(conn, a, "text")
    BY <1>1, <1>3 DEF TextStep
  <1> QED BY <1>2, <1>3, <1>4, <1>5, CommandRules

LEMMA StmtRules ==
  ASSUME RulesInv, AllRules, [Next]_vars, NEW s \in Sets, NEW p \in Stmts, Answered("query", s, p),
         StmtStep(s, p)
  PROVE  RulesInv'
  <1>1. PICK a \in Answers(s) : a = sent.answer
    BY AnsweredIs DEF RulesInv
  <1>2. /\ sent.does = "query" /\ turn = NoTurn /\ turn' = NoTurn /\ sent' = NoCommand
        /\ GoodConn(ReadOff(conn)) /\ ReadOff(conn).link \in {"ok", "lost"} /\ sent.to = s
    BY AnsweredIs DEF RulesInv
  <1>3. set[s].life = "none" /\ s # None /\ p # None
    BY <1>2, NoneIsNothing, Types DEF GoodSent, RulesInv
  <1>4. OpenSets = {} \/ (Single(a) /\ Calm)
    BY <1>1, <1>2 DEF RulesInv, SentFits
  <1>5. /\ Sends(s, p, a) /\ conn' = Announced(ReadOff(conn), a, IF p = None THEN "text" ELSE "stmt")
        /\ stmt'[p] = (IF a[1].kind = "rows" THEN "rows" ELSE "live")
    BY <1>1, <1>3, Types DEF StmtStep, RulesInv
  <1> QED BY <1>2, <1>3, <1>4, <1>5, CommandRules

\* A command without a result set, and one that only makes a statement.
LEMMA NoSetRules ==
  ASSUME RulesInv, [Next]_vars, Calm, set' = set, turn = NoTurn, turn' = NoTurn, sent' = NoCommand,
         conn'.link \notin {"closed", "mixed"}, NoResults \/ conn' = conn
  PROVE  RulesInv'
  <1>1. StepOf(None) /\ turn.set = None /\ turn'.set = None
    BY Fresh DEF StepOf
  <1>2. Alone'
    BY <1>1, AloneKept, NoneIsNoSet DEF RulesInv, OpenSets
  <1>3. ConnFollows'
    BY <1>1 DEF RulesInv, ConnFollows, NoResults, OpenSets, AtEnd, Waits
  <1>4. ASSUME NEW t \in Sets \ {None} PROVE Progress(t)'
    BY <1>1, ReaderKept, NoneIsNoSet DEF Calm, RulesInv
  <1> QED BY <1>1, <1>2, <1>3, <1>4, NoneIsNoSet, RulesKept

LEMMA ExecuteRules ==
  ASSUME RulesInv, AllRules, [Next]_vars, NEW a \in Answers(None), Single(a), a[1].kind # "rows", Calm,
         set' = set, turn = NoTurn, turn' = NoTurn, sent' = NoCommand,
         NEW k, GoodConn(k), k.link \in {"ok", "lost"}, NEW how \in {"text", "stmt"},
         conn' = Announced(k, a, how)
  PROVE  RulesInv'
  <1>1. Single(a) /\ a[1].kind # "rows"
    OBVIOUS
  <1>2. /\ a \in Seq(Results) /\ a # <<>> /\ Head(a) = a[1] /\ Tail(a) = <<>> /\ a[1].kind \in {"rows", "ok", "error"}
    <2>1. 1 \in 1..Len(a) /\ Len(a) = 1
      BY <1>1, AnswersAre DEF Single
    <2>2. a[1] \in Results
      BY <2>1, AnswersAre
    <2>3. a \in Seq(Results) /\ a # <<>> /\ Head(a) = a[1] /\ Tail(a) = <<>>
      BY <2>1, AnswersAre
    <2>4. a[1].kind \in {"rows", "ok", "error"}
      BY <2>2 DEF Results
    <2> QED BY <2>3, <2>4
  <1>3. NoResults /\ conn'.link \in {"ok", "lost"}
    <2>1. Head(a).kind \in {"ok", "error"}
      BY <1>1, <1>2
    <2>2. Announced(k, a, how).link = k.link
      BY <1>2, AnnouncedIs
    <2>3. Announced(k, a, how).pending = "none"
      BY <1>2, <2>1, AnnouncedIs DEF Announces
    <2>4. Announced(k, a, how).more = <<>>
      <3>1. CASE Head(a).kind = "ok"
        BY <1>2, <3>1, AnnouncedIs DEF Announces
      <3>2. CASE Head(a).kind = "error"
        BY <1>2, <3>2, AnnouncedIs DEF Announces
      <3> QED BY <2>1, <3>1, <3>2
    <2> QED BY <2>2, <2>3, <2>4 DEF NoResults
  <1> QED BY <1>3, NoSetRules

LEMMA BothExecuteRules ==
  ASSUME RulesInv, AllRules, [Next]_vars, NEW p \in Stmts \cup {None}, Answered("query", None, p),
         (p = None /\ TextStep(None)) \/ (p \in Stmts /\ StmtStep(None, p))
  PROVE  RulesInv'
  <1>1. PICK a \in Answers(None) : a = sent.answer
    BY AnsweredIs DEF RulesInv
  <1>2. /\ sent.does = "query" /\ turn = NoTurn /\ turn' = NoTurn /\ sent' = NoCommand
        /\ GoodConn(conn) /\ GoodConn(ReadOff(conn)) /\ ReadOff(conn).link = conn.link
        /\ conn.link \in {"ok", "lost"} /\ sent.to = None
    BY AnsweredIs DEF RulesInv
  <1>3. Single(a) /\ a[1].kind # "rows" /\ Calm
    BY <1>1, <1>2 DEF RulesInv, SentFits, Calm
  <1>4. set' = set
    BY NoneIsNoSet DEF TextStep, StmtStep
  <1>5. CASE p = None /\ TextStep(None)
    <2>1. conn' = Announced(conn, a, "text")
      BY <1>1, <1>5 DEF TextStep
    <2> QED BY <1>2, <1>3, <1>4, <2>1, ExecuteRules
  <1>6. CASE p \in Stmts /\ StmtStep(None, p)
    <2>1. conn' = Announced(ReadOff(conn), a, "stmt")
      BY <1>1, <1>6 DEF StmtStep
    <2> QED BY <1>2, <1>3, <1>4, <2>1, ExecuteRules
  <1> QED BY <1>5, <1>6

\* The sets and what is unread for them stay as they are.
LEMMA StillRules ==
  ASSUME RulesInv, [Next]_vars, set' = set, turn' = turn, stmt' = stmt, SameResults,
         conn'.link # "mixed", conn'.link = "closed" => conn.link = "closed", SentFits'
  PROVE  RulesInv'
  <1>1. TypeOK'
    BY TypeStep DEF RulesInv
  <1>2. OpenSets' = OpenSets /\ \A s \in Sets : Waits(s)' <=> Waits(s)
    BY DEF OpenSets, AtEnd, Waits
  <1>3. Alone'
    BY <1>2 DEF RulesInv, Alone, Single, OpenSets
  <1>4. ASSUME NEW s \in Sets PROVE GaveOwn(s, set[s])'
    <2>1. GaveOwn(s, set[s])
      BY DEF RulesInv
    <2> QED BY <2>1 DEF GaveOwn, Count
  <1>5. ConnFollows'
    BY <1>2 DEF RulesInv, ConnFollows, SameResults, OpenSets, Waits, AtEnd
  <1>6. ASSUME NEW s \in Sets PROVE Progress(s)'
    <2> SUFFICES ASSUME s \in OpenSets PROVE Progress(s)'
      BY <1>2 DEF Progress
    <2>1. PICK i \in 1..Len(set[s].answer) : ReadsAt(s, i) \/ WaitsAt(s, i) \/ PassedAt(s, i)
      BY DEF Progress, RulesInv
    <2>2. Wanted(s)' = Wanted(s) /\ How(s)' = How(s)
      BY DEF Wanted, How, SameResults
    <2>3. ReadsAt(s, i)' \/ WaitsAt(s, i)' \/ PassedAt(s, i)'
      BY <2>1, <2>2 DEF ReadsAt, WaitsAt, PassedAt, SameResults
    <2> QED BY <2>1, <2>3 DEF Progress
  <1> QED BY <1>1, <1>3, <1>4, <1>5, <1>6 DEF RulesInv

LEMMA CallsRules ==
  ASSUME RulesInv, AllRules, [Next]_vars, NEW s \in Sets \cup {None}, NEW p \in Stmts \cup {None},
         NEW a \in Answers(s), Calls(s, p, a)
  PROVE  RulesInv'
  <1>1. a \in Seq(Results)
    BY AnswersAre
  <1>2. /\ conn' = conn /\ set' = set /\ stmt' = stmt /\ turn' = turn
        /\ sent' = Command("query", s, p, a) /\ conn.link = "ok"
    BY DEF Calls, Send
  <1>3. sent'.does = "query" /\ sent'.to = s /\ sent'.answer = a
    BY <1>2 DEF Command
  <1>4. OpenSets = {} \/ (Single(a) /\ Calm)
    BY <1>2 DEF Calls, MayRun, Kept, AllRules, Calm
  <1>5. s = None => Single(a) /\ a[1].kind # "rows"
    BY <1>2 DEF Calls, MayExecute, Kept, AllRules
  <1>6. OpenSets' = OpenSets /\ (Calm => Calm')
    BY <1>2 DEF OpenSets, AtEnd, Calm, Only, Single
  <1>7. SentFits'
    BY <1>3, <1>4, <1>5, <1>6 DEF SentFits, Single
  <1> QED BY <1>2, <1>7, StillRules DEF SameResults

LEMMA PrepareRules ==
  ASSUME RulesInv, AllRules, [Next]_vars, NEW p \in Stmts, CallPrepare(p) \/ Prepare(p)
  PROVE  RulesInv'
  <1>1. CASE CallPrepare(p)
    <2>1. /\ conn' = conn /\ set' = set /\ stmt' = stmt /\ turn' = turn
          /\ sent' = Command("prepare", None, p, <<>>) /\ conn.link = "ok"
      BY <1>1 DEF CallPrepare, Send, Accepts
    <2>2. sent'.does = "prepare"
      BY <2>1 DEF Command
    <2>3. Calm'
      BY <1>1, <2>1 DEF CallPrepare, Kept, AllRules, OpenSets, AtEnd, Calm, Only, Single
    <2>4. SentFits'
      BY <2>2, <2>3 DEF SentFits
    <2> QED BY <2>1, <2>4, StillRules DEF SameResults
  <1>2. CASE Prepare(p)
    <2>1. /\ sent.does = "prepare" /\ conn' = conn /\ set' = set /\ turn' = turn /\ sent' = NoCommand
          /\ conn.link \in {"ok", "lost"}
      BY <1>2 DEF Prepare, Answered
    <2>2. Calm /\ turn = NoTurn
      BY <2>1, OneCall DEF RulesInv, SentFits
    <2> QED BY <2>1, <2>2, NoSetRules
  <1> QED BY <1>1, <1>2

\* s goes, or stays: what is read off the connection nobody waits for.
LEMMA LetGoRules ==
  ASSUME RulesInv, [Next]_vars, NEW s, turn' = turn, sent' = sent, turn.set # s \/ s = None,
         \/ s \in Sets /\ set[s].life = "live" /\ ~Waits(s) /\ set' = [set EXCEPT ![s] = Absent]
            /\ (s \in OpenSets => Single(set[s].answer))
         \/ s = None /\ set' = set,
         conn'.link = conn.link, conn'.head = conn.head,
         \/ SameResults
         \/ NoResults /\ \A t \in OpenSets : Single(set[t].answer) \/ (Waits(t) /\ conn.pending # "none"),
         \A t \in OpenSets \ {s} : Only(t) \/ set[t].by = None \/ (stmt'[set[t].by] = "rows" <=> stmt[set[t].by] = "rows")
  PROVE  RulesInv'
  <1>1. None \notin Sets /\ conn.link # "mixed"
    BY NoneIsNoSet DEF RulesInv
  <1>2. StepOf(s) /\ s \notin OpenSets' /\ ~Waits(s)
    BY <1>1, Types DEF StepOf, OpenSets, Absent, RulesInv, Waits
  <1>3. Alone'
    BY <1>1, <1>2, AloneKept DEF RulesInv
  <1>4. ConnFollows'
    <2>1. conn'.pending # "none" => conn.pending # "none" /\ conn'.head = conn.head
      BY DEF SameResults, NoResults
    <2>2. conn'.more \in {<<>>, conn.more}
      BY DEF SameResults, NoResults
    <2>3. s \in Sets => set[s].life = "live"
      BY <1>1
    <2>4. s \in OpenSets => Single(set[s].answer)
      BY <1>1 DEF OpenSets
    <2>5. ConnFollows
      BY DEF RulesInv
    <2>6. turn'.set # None => turn'.set \in OpenSets'
      <3> SUFFICES ASSUME turn.set # None PROVE turn.set \in OpenSets'
        OBVIOUS
      <3>1. turn.set \in OpenSets /\ turn.set \in Sets \ {s}
        BY <1>1, <2>5 DEF ConnFollows, OpenSets
      <3> QED BY <1>2, <3>1, OthersOpen
    <2> QED BY <1>1, <1>2, <2>1, <2>2, <2>3, <2>4, <2>5, <2>6, ConnKept
  <1>5. ASSUME NEW t \in Sets \ {s} PROVE Progress(t)'
    <2>1. CASE t \notin OpenSets
      BY <1>2, <2>1, OthersOpen DEF Progress
    <2>2. CASE Only(t)
      BY <1>1, <1>2, <2>2, ReaderKept DEF RulesInv, StepOf
    <2>3. CASE t \in OpenSets /\ ~Only(t)
      <3>1. set'[t] = set[t]
        BY <1>2 DEF StepOf
      <3>2. Wanted(t)' <=> Wanted(t)
        <4>1. CASE set[t].by = None
          BY <3>1, <4>1 DEF Wanted
        <4>2. CASE set[t].by # None
          BY <2>3, <3>1, <4>2 DEF Wanted
        <4> QED BY <4>1, <4>2
      <3> QED BY <1>1, <1>2, <2>3, <3>2, OtherKept
    <2> QED BY <2>1, <2>2, <2>3
  <1>6. s \in Sets => GaveOwn(s, set'[s]) /\ Progress(s)'
    <2> SUFFICES ASSUME s \in Sets PROVE GaveOwn(s, set'[s]) /\ Progress(s)'
      OBVIOUS
    <2>1. set'[s] = Absent
      BY <1>1, Types DEF RulesInv
    <2>2. GaveOwn(s, Absent)
      <3>1. Absent.seen = <<>> /\ Absent.told = "none" /\ Absent.life = "none" /\ Absent.answer = <<>>
        BY DEF Absent
      <3>2. Len(Absent.seen) = 0 /\ 1..Len(Absent.seen) = {} /\ Count(Absent, 1) = 0 /\ Count(Absent, 2) = 0
        BY <3>1 DEF Count
      <3> QED BY <3>1, <3>2 DEF GaveOwn
    <2> QED BY <1>2, <2>1, <2>2 DEF Progress
  <1>7. SentFits'
    <2>1. ASSUME NEW t \in OpenSets' PROVE t \in OpenSets /\ (Only(t) => Only(t)')
      <3>1. t \in Sets \ {s} /\ set'[t] = set[t]
        BY <1>2 DEF OpenSets, StepOf
      <3> QED BY <1>2, <3>1, OthersOpen DEF Only, Single
    <2>2. SentFits
      BY DEF RulesInv
    <2> QED BY <2>1, <2>2, FitsKept
  <1> QED BY <1>1, <1>2, <1>3, <1>4, <1>5, <1>6, <1>7, RulesKept

\* Closing a statement, when every open set has the only result of its command.
LEMMA ClosingIs ==
  ASSUME RulesInv, AllRules, MayClose, conn' \in Closing(conn)
  PROVE  /\ conn'.link = conn.link /\ conn'.head = conn.head
         /\ SameResults \/ (NoResults /\ \A t \in OpenSets : Single(set[t].answer))
  BY ClearedIs, Types DEF RulesInv, AllRules, MayClose, Kept, SameResults, NoResults

\* A statement is closed: the connection takes it, or is mixed.
LEMMA ClosedIs ==
  ASSUME Closed
  PROVE  conn' = Mixed \/ (Resting /\ conn' \in Closing(conn))
  BY DEF Closed, Called

LEMMA DestroyRules ==
  ASSUME RulesInv, AllRules, [Next]_vars, NEW s \in Sets, Destroy(s)
  PROVE  RulesInv' \/ conn'.link = "mixed"
  <1>1. /\ turn' = turn /\ sent' = sent /\ turn.set # s /\ set[s].life = "live"
        /\ set' = [set EXCEPT ![s] = Absent] /\ (AtEnd(s) \/ Only(s))
    BY DEF Destroy, Kept, AllRules, RulesInv
  <1>2. ~Waits(s) /\ (s \in OpenSets => Single(set[s].answer))
    BY <1>1 DEF Waits, OpenSets, Only
  <1>3. turn' = turn /\ sent' = sent /\ (turn.set # s \/ s = None)
    BY <1>1
  <1>4. \/ /\ s \in Sets /\ set[s].life = "live" /\ ~Waits(s) /\ set' = [set EXCEPT ![s] = Absent]
           /\ (s \in OpenSets => Single(set[s].answer))
        \/ s = None /\ set' = set
    BY <1>1, <1>2
  <1>5. CASE UNCHANGED <<conn, stmt>>
    <2>1. conn'.link = conn.link /\ conn'.head = conn.head /\ SameResults
      BY <1>5 DEF SameResults
    <2>2. \A t \in OpenSets \ {s} :
            Only(t) \/ set[t].by = None \/ (stmt'[set[t].by] = "rows" <=> stmt[set[t].by] = "rows")
      BY <1>5
    <2> QED BY <1>3, <1>4, <2>1, <2>2, LetGoRules
  <1>6. CASE /\ set[s].by # None /\ SetsOf(set[s].by) = {s} /\ stmt[set[s].by] = "kept"
             /\ MayClose /\ conn' \in Closing(conn) /\ stmt' = [stmt EXCEPT ![set[s].by] = "none"]
    <2>1. /\ conn'.link = conn.link /\ conn'.head = conn.head
          /\ SameResults \/ (NoResults /\ \A t \in OpenSets : Single(set[t].answer))
      BY <1>6, ClosingIs
    <2>2. ASSUME NEW t \in OpenSets \ {s} PROVE set[t].by = None \/ stmt'[set[t].by] = stmt[set[t].by]
      <3>1. t \in Sets /\ set[t].life = "live"
        BY DEF OpenSets
      <3>2. set[t].by # set[s].by
        BY <1>6, <3>1 DEF SetsOf
      <3> QED BY <1>6, <3>1, <3>2, Types DEF RulesInv, GoodSet, SetType
    <2>3. \A t \in OpenSets \ {s} :
            Only(t) \/ set[t].by = None \/ (stmt'[set[t].by] = "rows" <=> stmt[set[t].by] = "rows")
      BY <2>2
    <2>4. \/ SameResults
          \/ /\ NoResults
             /\ \A t \in OpenSets : Single(set[t].answer) \/ (Waits(t) /\ conn.pending # "none")
      BY <2>1
    <2> QED BY <1>3, <1>4, <2>1, <2>3, <2>4, LetGoRules
  <1>7. \/ UNCHANGED <<conn, stmt>>
        \/ /\ set[s].by # None /\ SetsOf(set[s].by) = {s} /\ stmt[set[s].by] = "kept"
           /\ MayClose /\ Closed /\ stmt' = [stmt EXCEPT ![set[s].by] = "none"]
    BY DEF Destroy
  <1> QED BY <1>5, <1>6, <1>7, ClosedIs, Fresh

LEMMA DropRules ==
  ASSUME RulesInv, AllRules, [Next]_vars, NEW p \in Stmts, DropStatement(p)
  PROVE  RulesInv' \/ conn'.link = "mixed"
  <1>1. /\ turn' = turn /\ sent' = sent /\ set' = set
        /\ \A s \in SetsOf(p) : AtEnd(s) \/ Only(s)
    BY DEF DropStatement, Kept, AllRules, RulesInv
  <1> SUFFICES ASSUME conn' # Mixed PROVE RulesInv'
    BY Fresh
  <1>2. conn' = conn \/ (MayClose /\ conn' \in Closing(conn))
    BY ClosedIs DEF DropStatement
  <1>3. /\ conn'.link = conn.link /\ conn'.head = conn.head
        /\ SameResults \/ (NoResults /\ \A t \in OpenSets : Single(set[t].answer))
    BY <1>2, ClosingIs DEF SameResults
  <1>4. ASSUME NEW t \in OpenSets
        PROVE  Only(t) \/ set[t].by = None \/ stmt'[set[t].by] = stmt[set[t].by]
    <2>1. t \in Sets /\ set[t].life = "live" /\ ~AtEnd(t)
      BY DEF OpenSets
    <2>2. set[t].by = p => Only(t)
      BY <1>1, <2>1 DEF SetsOf
    <2>3. \A q \in Stmts \ {p} : stmt'[q] = stmt[q]
      BY Types DEF DropStatement, RulesInv
    <2> QED BY <2>1, <2>2, <2>3, Types DEF RulesInv, GoodSet, SetType
  <1> QED BY <1>1, <1>3, <1>4, LetGoRules

LEMMA ResetRules ==
  ASSUME RulesInv, AllRules, [Next]_vars, NEW p \in Stmts, Reset(p)
  PROVE  RulesInv' \/ conn'.link = "mixed"
  <1>1. turn' = turn /\ sent' = sent /\ set' = set /\ SetsOf(p) = {}
    BY DEF Reset, Kept, AllRules, RulesInv
  <1> SUFFICES ASSUME conn' # Mixed PROVE RulesInv'
    BY Fresh
  <1>2. conn' = conn \/ (conn.pending = "stmt" /\ conn' = ReadOff(conn))
    BY DEF Reset, Called
  <1>3. /\ conn'.link = conn.link /\ conn'.head = conn.head
        /\ SameResults \/ (NoResults /\ conn.pending # "none")
    BY <1>2, ClearedIs, Types DEF RulesInv, SameResults, NoResults
  <1>4. ASSUME NoResults, conn.pending # "none", NEW t \in OpenSets
        PROVE  Single(set[t].answer) \/ Waits(t)
    <2>1. conn.head.of \in OpenSets /\ Waits(conn.head.of)
      BY <1>4 DEF RulesInv, ConnFollows
    <2> QED BY <2>1 DEF RulesInv, Alone
  <1>5. ASSUME NEW t \in OpenSets
        PROVE  set[t].by = None \/ stmt'[set[t].by] = stmt[set[t].by]
    <2>1. t \in Sets /\ set[t].life = "live"
      BY DEF OpenSets
    <2>2. set[t].by # p
      BY <1>1, <2>1 DEF SetsOf
    <2> QED BY <2>1, <2>2, Types DEF Reset, RulesInv, GoodSet, SetType
  <1> QED BY <1>1, <1>3, <1>4, <1>5, LetGoRules

\* Nothing is there: the connection is a new or a closed one.
Empty ==
  /\ TypeOK /\ conn.link # "mixed" /\ conn.pending = "none" /\ conn.more = <<>>
  /\ turn = NoTurn /\ sent = NoCommand /\ \A s \in Sets : set[s] = Absent

LEMMA EmptyRules == Empty => RulesInv
  <1> SUFFICES ASSUME Empty PROVE RulesInv
    OBVIOUS
  <1>1. turn.set = None /\ sent.does = "none"
    BY Fresh DEF Empty
  <1>2. Absent.seen = <<>> /\ Absent.told = "none" /\ Absent.life = "none" /\ Absent.answer = <<>>
    BY DEF Absent
  <1>3. OpenSets = {}
    BY <1>2 DEF OpenSets, Empty
  <1>4. ASSUME NEW s \in Sets PROVE GaveOwn(s, set[s]) /\ Progress(s)
    <2>1. Len(Absent.seen) = 0 /\ 1..Len(Absent.seen) = {} /\ Count(Absent, 1) = 0 /\ Count(Absent, 2) = 0
      BY <1>2 DEF Count
    <2>2. GaveOwn(s, Absent)
      BY <1>2, <2>1 DEF GaveOwn
    <2> QED BY <1>3, <2>2 DEF Progress, Empty
  <1>5. Alone
    BY <1>3 DEF Alone
  <1>6. ConnFollows
    BY <1>1, <1>2 DEF ConnFollows, Empty
  <1>7. SentFits
    BY <1>1 DEF SentFits
  <1> QED BY <1>4, <1>5, <1>6, <1>7 DEF RulesInv, Empty

LEMMA NewRules ==
  ASSUME TypeOK, TypeOK', Disconnect \/ (NewConnection /\ RulesInv)
  PROVE  RulesInv'
  <1>1. \A s \in Sets : set[s].life = "none"
    BY DEF Disconnect, Unused, NewConnection, RulesInv, ConnFollows
  <1>2. turn = NoTurn /\ sent = NoCommand
    BY DEF Disconnect, Unused, NewConnection, Resting
  <1>3. \A s \in Sets : set[s] = Absent
    BY <1>1, Types DEF GoodSet
  <1>4. /\ set' = set /\ turn' = turn /\ sent' = sent /\ conn'.link # "mixed"
        /\ conn'.pending = "none" /\ conn'.more = <<>>
    BY DEF Disconnect, NewConnection, Unlinked
  <1>5. Absent' = Absent /\ NoTurn' = NoTurn /\ NoCommand' = NoCommand
    BY DEF Absent, NoTurn, NoCommand, Command
  <1>6. Empty'
    BY <1>2, <1>3, <1>4, <1>5 DEF Empty
  <1>7. Empty' => RulesInv'
    BY EmptyRules, PTL
  <1> QED BY <1>6, <1>7

LEMMA LinkRules ==
  ASSUME RulesInv, [Next]_vars,
         LoseServer \/ Connect \/ Disconnect \/ NewConnection \/ Unanswered \/ UNCHANGED vars
  PROVE  RulesInv'
  <1>1. TypeOK /\ TypeOK'
    BY TypeStep DEF RulesInv
  <1>2. CASE Disconnect \/ NewConnection
    BY <1>1, <1>2, NewRules
  <1>3. CASE LoseServer \/ Connect \/ Unanswered \/ UNCHANGED vars
    <2>1. set' = set /\ stmt' = stmt /\ turn' = turn /\ (sent' = sent \/ sent' = NoCommand)
      BY <1>3 DEF LoseServer, Connect, Unanswered, vars
    <2>2. SameResults /\ conn'.link # "mixed" /\ (conn'.link = "closed" => conn.link = "closed")
      BY <1>3, Types DEF LoseServer, Connect, Unanswered, vars, SameResults, RulesInv, GoodConn, ConnType
    <2>3. SentFits'
      <3>1. CASE sent' = NoCommand
        BY <3>1, NothingSent
      <3>2. CASE sent' = sent
        <4>1. \A t \in OpenSets' : t \in OpenSets /\ (Only(t) => Only(t)')
          BY <2>1 DEF OpenSets, AtEnd, Only, Single
        <4>2. SentFits
          BY DEF RulesInv
        <4> QED BY <3>2, <4>1, <4>2, FitsKept
      <3> QED BY <2>1, <3>1, <3>2
    <2> QED BY <2>1, <2>2, <2>3, StillRules
  <1> QED BY <1>2, <1>3

LEMMA RulesInit == Init => RulesInv
  <1> SUFFICES ASSUME Init PROVE RulesInv
    OBVIOUS
  <1>1. TypeOK
    BY TypeInit
  <1>2. Empty
    BY <1>1 DEF Init, Empty, Unlinked
  <1> QED BY <1>2, EmptyRules

LEMMA RulesStep ==
  ASSUME RulesInv, AllRules, [Next]_vars
  PROVE  RulesInv' \/ conn'.link = "mixed"
  <1>1. ASSUME NEW s \in Sets, NEW a \in Answers(s), CallQuery(s, a) \/ \E p \in Stmts : CallQueryPrepared(s, p, a)
        PROVE  RulesInv'
    <2>1. Calls(s, None, a) \/ \E p \in Stmts : Calls(s, p, a)
      BY <1>1, CallSteps
    <2> QED BY <2>1, CallsRules
  <1>2. ASSUME NEW a \in Answers(None), CallExecute(a) \/ \E p \in Stmts : CallExecutePrepared(p, a)
        PROVE  RulesInv'
    <2>1. Calls(None, None, a) \/ \E p \in Stmts : Calls(None, p, a)
      BY <1>2, CallSteps
    <2> QED BY <2>1, CallsRules
  <1>3. ASSUME NEW s \in Sets, CallNext(s) \/ Store(s) \/ Fetch(s) \/ Advance(s)
        PROVE  RulesInv'
    BY <1>3, CallRules, StoreRules, FetchRules, AdvanceRules
  <1>4. ASSUME NEW s \in Sets, Query(s) \/ \E p \in Stmts : QueryPrepared(s, p)
        PROVE  RulesInv'
    BY <1>4, AnswerSteps, TextRules, StmtRules
  <1>5. CASE Execute \/ \E p \in Stmts : ExecutePrepared(p)
    BY <1>5, AnswerSteps, BothExecuteRules
  <1>6. CASE \E p \in Stmts : CallPrepare(p) \/ Prepare(p)
    BY <1>6, PrepareRules
  <1>7. ASSUME NEW s \in Sets, Destroy(s) PROVE RulesInv' \/ conn'.link = "mixed"
    BY <1>7, DestroyRules
  <1>8. CASE \E p \in Stmts : DropStatement(p) \/ Reset(p)
    BY <1>8, DropRules, ResetRules
  <1>9. CASE Overlap \/ Stray
    BY <1>9, OverlapTypes, StrayTypes DEF RulesInv
  <1>10. CASE Unanswered \/ LoseServer \/ Connect \/ Disconnect \/ NewConnection \/ UNCHANGED vars
    BY <1>10, LinkRules
  <1> QED BY <1>1, <1>2, <1>3, <1>4, <1>5, <1>6, <1>7, <1>8, <1>9, <1>10, StepIs

\* A mixed connection is left by disconnecting alone.
LEMMA MixedStep ==
  ASSUME TypeOK, conn.link = "mixed", [Next]_vars
  PROVE  RulesInv' \/ conn'.link = "mixed"
  <1>1. TypeOK'
    BY TypeStep
  <1>2. GoodConn(conn)
    BY Types
  <1>3. CASE Disconnect
    BY <1>1, <1>3, NewRules
  <1>4. CASE (\E s \in Sets : Destroy(s)) \/ \E p \in Stmts : DropStatement(p) \/ Reset(p)
    <2>1. conn' = conn \/ \E k \in {conn, ReadOff(conn)} \cup Closing(conn) : conn' = Called(k)
      BY <1>4 DEF Destroy, DropStatement, Reset, Closed
    <2> QED BY <1>2, <2>1, ClearedIs, Fresh DEF Called
  <1>5. CASE UNCHANGED vars \/ Stray
    BY <1>5 DEF vars, Stray
  <1>6. /\ \A s \in Sets : ~CallNext(s) /\ ~Store(s) /\ ~Fetch(s) /\ ~Advance(s)
        /\ ~Overlap /\ ~Unanswered /\ ~LoseServer /\ ~Connect /\ ~NewConnection
        /\ \A p \in Stmts : ~CallPrepare(p) /\ ~Prepare(p)
    BY DEF CallNext, Store, Fetch, Advance, At, Overlap, Unanswered, LoseServer, Connect, NewConnection,
       CallPrepare, Accepts, Prepare, Answered
  <1>7. \A s \in Sets \cup {None}, p \in Stmts \cup {None} : ~Answered("query", s, p) /\ \A a : ~Calls(s, p, a)
    BY DEF Answered, Calls
  <1>8. /\ \A s \in Sets : ~Query(s) /\ \A p \in Stmts : ~QueryPrepared(s, p)
        /\ ~Execute /\ \A p \in Stmts : ~ExecutePrepared(p)
    BY <1>7, AnswerSteps
  <1>9. /\ \A s \in Sets : \A a \in Answers(s) : ~CallQuery(s, a) /\ \A p \in Stmts : ~CallQueryPrepared(s, p, a)
        /\ \A a \in Answers(None) : ~CallExecute(a) /\ \A p \in Stmts : ~CallExecutePrepared(p, a)
    BY <1>7, CallSteps
  <1> QED BY <1>3, <1>4, <1>5, <1>6, <1>8, <1>9, StepIs

\* Until calls overlap the results are as RulesInv says.
TurnsInv == TypeOK /\ (RulesInv \/ conn.link = "mixed")

LEMMA TurnsStep ==
  ASSUME TurnsInv, AllRules, [Next]_vars
  PROVE  TurnsInv'
  <1>1. TypeOK'
    BY TypeStep DEF TurnsInv
  <1>2. RulesInv' \/ conn'.link = "mixed"
    BY RulesStep, MixedStep DEF TurnsInv
  <1> QED BY <1>1, <1>2 DEF TurnsInv

\* Under the rules, and as long as calls take turns, no result blocks the
\* connection for good: whatever is announced and unread belongs to a result set
\* that is open, so that its next() will take it (until then the connector
\* refuses every command of mysql.cpp as out of sync).
THEOREM UnreadHasReader ==
  ASSUME AllRules
  PROVE  Spec => []PendingHasReader
  <1>1. Init => TurnsInv
    BY RulesInit, TypeInit DEF TurnsInv
  <1>2. TurnsInv /\ [Next]_vars => TurnsInv'
    BY TurnsStep
  <1>3. TurnsInv => PendingHasReader
    <2> SUFFICES ASSUME RulesInv PROVE PendingHasReader
      BY DEF TurnsInv, PendingHasReader
    <2>1. conn.pending # "none" => conn.head.of \in OpenSets
      BY DEF RulesInv, ConnFollows
    <2>2. ASSUME NEW i \in 1..Len(conn.more) PROVE conn.more[i].of \in OpenSets
      <3>1. conn.more # <<>>
        BY <2>2
      <3>2. PICK s \in OpenSets : ~Single(set[s].answer) /\ conn.more = <<set[s].answer[2]>>
        BY <3>1 DEF RulesInv, ConnFollows
      <3>3. s \in Sets /\ set[s].answer \in Answers(s)
        BY DEF OpenSets, RulesInv, GaveOwn
      <3>4. 2 \in 1..Len(set[s].answer)
        BY <3>2, <3>3, AnswerIs
      <3>5. set[s].answer[2].of = s
        BY <3>3, <3>4, AnswerIs
      <3>6. i = 1 /\ conn.more[1] = set[s].answer[2]
        BY <3>2
      <3> QED BY <3>5, <3>6
    <2> QED BY <2>1, <2>2 DEF PendingHasReader
  <1> QED BY <1>1, <1>2, <1>3, PTL DEF Spec

\* The rows that next() is to give, one by one.
LEMMA AllRowsAre ==
  ASSUME NEW s \in Sets, Count(set[s], 1) \in Nat, Count(set[s], 2) \in Nat
  PROVE  /\ Len(AllRows(s)) = Count(set[s], 1) + Count(set[s], 2)
         /\ AllRows(s) \in Seq(Sets \X Nat \X Nat)
         /\ \A j \in 1..Len(AllRows(s)) :
              AllRows(s)[j] = IF j <= Count(set[s], 1) THEN <<s, 1, j>> ELSE <<s, 2, j - Count(set[s], 1)>>
  <1> DEFINE S == Sets \X Nat \X Nat
             first  == RowsOf(s, 1)
             second == RowsOf(s, 2)
             m == Count(set[s], 1)
             n == Count(set[s], 2)
  <1>1. /\ first = [r \in 1..m |-> <<s, 1, r>>] /\ second = [r \in 1..n |-> <<s, 2, r>>]
        /\ m \in Nat /\ n \in Nat
    BY DEF RowsOf, Count
  <1>2. AllRows(s) = first \o second
    BY DEF AllRows
  <1> HIDE DEF first, second, m, n
  <1>3. first \in Seq(S) /\ Len(first) = m /\ second \in Seq(S) /\ Len(second) = n
    BY <1>1
  <1>4. (\A j \in 1..m : first[j] = <<s, 1, j>>) /\ (\A j \in 1..n : second[j] = <<s, 2, j>>)
    BY <1>1
  <1> HIDE DEF S
  <1>5. /\ first \o second \in Seq(S) /\ Len(first \o second) = Len(first) + Len(second)
        /\ \A j \in 1..(Len(first) + Len(second)) :
             (first \o second)[j] = IF j <= Len(first) THEN first[j] ELSE second[j - Len(first)]
    BY <1>3, ConcatProperties
  <1>6. PICK all : all = first \o second
    OBVIOUS
  <1>7. ASSUME NEW j \in 1..(m + n)
        PROVE  all[j] = IF j <= m THEN <<s, 1, j>> ELSE <<s, 2, j - m>>
    <2>1. all[j] = IF j <= m THEN first[j] ELSE second[j - m]
      BY <1>3, <1>5, <1>6
    <2>2. CASE j <= m
      <3>1. j \in 1..m
        BY <1>1, <2>2
      <3> QED BY <1>4, <2>1, <2>2, <3>1
    <2>3. CASE ~(j <= m)
      <3>1. j - m \in 1..n
        BY <1>1, <2>3
      <3> QED BY <1>4, <2>1, <2>3, <3>1
    <2> QED BY <2>2, <2>3
  <1>8. Len(all) = m + n /\ all \in Seq(S)
    BY <1>3, <1>5, <1>6
  <1>9. \A j \in 1..Len(all) : all[j] = IF j <= m THEN <<s, 1, j>> ELSE <<s, 2, j - m>>
    BY <1>7, <1>8
  <1> QED BY <1>2, <1>6, <1>8, <1>9 DEF S, m, n

\* Element by element means as a prefix.
LEMMA PrefixByRow ==
  ASSUME NEW S, NEW T, NEW p \in Seq(S), NEW q \in Seq(T), Len(p) <= Len(q),
         \A j \in 1..Len(p) : p[j] = q[j]
  PROVE  IsPrefix(p, q) /\ (Len(p) = Len(q) => p = q)
  <1>1. Len(p) \in Nat /\ Len(q) \in Nat
    OBVIOUS
  <1>2. p \in Seq(S \cup T) /\ q \in Seq(S \cup T)
    BY SeqMonotonic
  <1>3. SubSeq(p, 1, Len(p)) = p
    BY SubSeqFull
  <1>4. PICK n \in Nat : n = Len(p)
    BY <1>1
  <1>5. \A j \in 1..n : q[j] \in S \cup T
    BY <1>1, <1>2, <1>4
  <1>6. /\ SubSeq(q, 1, n) \in Seq(S \cup T)
        /\ Len(SubSeq(q, 1, n)) = IF 1 <= n THEN n - 1 + 1 ELSE 0
        /\ \A j \in 1..(n - 1 + 1) : SubSeq(q, 1, n)[j] = q[1 + j - 1]
    BY <1>5, SubSeqProperties
  <1>7. Len(SubSeq(q, 1, n)) = n /\ \A j \in 1..n : SubSeq(q, 1, n)[j] = q[j]
    BY <1>6
  <1>8. SubSeq(q, 1, n) = p
    <2>1. \A j \in 1..Len(p) : p[j] = SubSeq(q, 1, n)[j]
      BY <1>4, <1>7
    <2> QED BY <1>2, <1>4, <1>6, <1>7, <2>1, SeqEqual
  <1>9. Len(p) = Len(q) => p = q
    BY <1>2, SeqEqual
  <1> QED BY <1>3, <1>4, <1>8, <1>9 DEF IsPrefix

\* Under the rules, and as long as calls take turns, next() (sqlresult.cpp) gives
\* the rows of its own command only, in order and without gaps, and says "no more" when all rows of all results were given.
THEOREM MysqlRowsAreOwn ==
  ASSUME AllRules
  PROVE  Spec => []RowsAreOwnAndAll
  <1>1. Init => TurnsInv
    BY RulesInit, TypeInit DEF TurnsInv
  <1>2. TurnsInv /\ [Next]_vars => TurnsInv'
    BY TurnsStep
  <1>3. TurnsInv => RowsAreOwnAndAll
    <2> SUFFICES ASSUME RulesInv, NEW s \in Sets
                 PROVE  /\ IsPrefix(set[s].seen, AllRows(s))
                        /\ set[s].told = "end" =>
                             /\ set[s].seen = AllRows(s)
                             /\ \A i \in 1..Len(set[s].answer) : set[s].answer[i].kind # "error"
      BY DEF RowsAreOwnAndAll, TurnsInv
    <2>1. GaveOwn(s, set[s]) /\ set[s].seen \in Seq(Rows)
      BY Types DEF RulesInv, GoodSet, SetType
    <2>2. Count(set[s], 1) \in Nat /\ Count(set[s], 2) \in Nat
      <3>1. CASE set[s].life = "live"
        BY <2>1, <3>1, AnswerIs DEF GaveOwn
      <3>2. CASE set[s].life # "live"
        <4>1. set[s] = Absent
          BY <3>2, Types DEF RulesInv, GoodSet, SetType
        <4>2. set[s].answer = <<>>
          BY <4>1 DEF Absent
        <4> QED BY <4>2 DEF Count
      <3> QED BY <3>1, <3>2
    <2>3. PICK all : all = AllRows(s)
      OBVIOUS
    <2>4. /\ Len(all) = Count(set[s], 1) + Count(set[s], 2) /\ all \in Seq(Sets \X Nat \X Nat)
          /\ \A j \in 1..Len(all) :
               all[j] = IF j <= Count(set[s], 1) THEN <<s, 1, j>> ELSE <<s, 2, j - Count(set[s], 1)>>
      BY <2>2, <2>3, AllRowsAre
    <2>5. Len(set[s].seen) <= Len(all)
      BY <2>1, <2>4 DEF GaveOwn
    <2>6. \A j \in 1..Len(set[s].seen) : set[s].seen[j] = all[j]
      <3>1. \A j \in 1..Len(set[s].seen) : j \in 1..Len(all)
        BY <2>1, <2>4, <2>5
      <3> QED BY <2>1, <2>4, <3>1 DEF GaveOwn
    <2>7. IsPrefix(set[s].seen, all) /\ (Len(set[s].seen) = Len(all) => set[s].seen = all)
      <3>1. PICK p \in Seq(Rows) : p = set[s].seen
        BY <2>1
      <3>2. PICK q \in Seq(Sets \X Nat \X Nat) : q = all
        BY <2>4
      <3>3. Len(p) <= Len(q) /\ \A j \in 1..Len(p) : p[j] = q[j]
        BY <2>5, <2>6, <3>1, <3>2
      <3>4. IsPrefix(p, q) /\ (Len(p) = Len(q) => p = q)
        BY <3>3, PrefixByRow
      <3> QED BY <3>1, <3>2, <3>4
    <2> QED BY <2>1, <2>3, <2>4, <2>7 DEF GaveOwn
  <1> QED BY <1>1, <1>2, <1>3, PTL DEF Spec
=============================================================================
