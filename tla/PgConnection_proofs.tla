------------------------- MODULE PgConnection_proofs -------------------------
(***************************************************************************)
(* Theorems about PgConnection, for every number of clients, result sets,  *)
(* statements and rows.                                                    *)
(*                                                                         *)
(* Nothing in the driver ties a result on the wire to an object.  That     *)
(* every result reaches the set whose command produced it rests on who may *)
(* read: a command in progress has one reader, no command is accepted      *)
(* before it has read the stream off, and no finished set is left whose    *)
(* destructor would read for it.  Given that, what is unread is always the *)
(* rest of the reader's own rows, or a part of it and an error.            *)
(***************************************************************************)
EXTENDS PgConnection, TLAPS, SequenceTheorems, FiniteSetTheorems

Opening == {"prepare", "prepared", "mode", "first", "drain open"}
Reading == {"next", "drain end", "drain error"}

\* The result set of a call is in the state that the call's next step expects.
FindsSet(c) ==
  LET k == call[c]
      s == set[k.set]
  IN /\ k.op \in {"none", "ping", "disconnect"} <=> k.set = None
     /\ k.op = "none" <=> k.at = "none"
     /\ k.op = "ping" <=> k.at = "ping"
     /\ k.op = "disconnect" <=> k.at = "closing"
     /\ k.at \in Opening => k.op \in {"query", "execute"} /\ s.seen = <<>> /\ s.told = "none"
     /\ k.at \in Reading => k.op \in {"execute", "next"}
     /\ k.at \in {"prepare", "prepared"} => k.stmt # None
     /\ k.set # None =>
          /\ s.life = (IF k.op = "next" THEN "live" ELSE "local")
          /\ k.op # "next" \/ k.at # "next" => ~s.ended
          /\ k.at # "next" => s.ready = Null
          /\ k.op = "execute" => s.told = "none"

\* A call works on a set of its own.
CallsOwnSets ==
  /\ \A c, d \in Clients : call[c].set # None /\ call[c].set = call[d].set => c = d
  /\ \A c \in Clients : FindsSet(c)

\* A command in progress is read off by one reader, and until then no set is left
\* that has read its own off.
OneReader ==
  /\ \A a, b \in Readers : a = b
  /\ Readers # {} => conn.busy /\ \A s \in Sets : ~Finished(s)
  /\ conn.link = "ok" /\ conn.busy /\ conn.kind # "prepare" => Readers # {}
  /\ \A c \in Clients : call[c].at \in {"prepare", "prepared"} => conn.kind = "prepare"

\* Nothing of the session is in use.
Unused ==
  /\ \A s \in Sets : set[s].life = "none"
  /\ \A p \in Stmts : stmt[p] # "prepared"

AwayIsQuiet ==
  /\ conn.link = "none" => Unused /\ \A c \in Clients : call[c].op = "none"
  /\ \A d \in Clients :
       call[d].op = "disconnect" => Unused /\ \A c \in Clients \ {d} : call[c].op = "none"

\* A statement that was prepared is known to the session.
PreparedIsNamed ==
  conn.link = "ok" =>
    /\ \A p \in Stmts : stmt[p] = "prepared" => p \in named
    /\ \A c \in Clients :
         /\ call[c].at = "prepared" => call[c].stmt \in named
         /\ call[c].at = "prepare" =>
              /\ conn.queue # <<>>
              /\ Head(conn.queue).kind = "command" => call[c].stmt \in named

SessionInv == TypeOK /\ CallsOwnSets /\ OneReader /\ AwayIsQuiet /\ PreparedIsNamed

\* What is unread is the rest of the rows of set s, of which n have arrived, and
\* how its statement ends; or a part of that and an error.
Rest(s, n) ==
  LET q    == conn.queue
      left == set[s].rows - n
  IN /\ n <= set[s].rows
     /\ q # <<>>
     /\ \A i \in 1..Len(q) :
          /\ i <= left => q[i] = Result("row", s, n + i) \/ q[i].kind \in {"fatal", "gone"}
          /\ i = left + 1 => /\ q[i].kind # "row"
                             /\ q[i].kind \in {"tuples", "command"} => ~set[s].fails
     /\ Len(q) <= left => q[Len(q)].kind \in {"fatal", "gone"}

\* Set s still expects rows of its own.
Streaming(s) ==
  /\ set[s].life # "none" /\ ~set[s].ended
  /\ \A c \in Clients : call[c].set = s => call[c].at \in {"mode", "first", "next"}

\* What set s gave so far: the rows of its own command, and all when it says so.
GaveOwn(s, r) ==
  /\ \A i \in 1..Len(r.seen) : r.seen[i] = Result("row", s, i)
  /\ r.told = "end" => ~r.fails /\ Len(r.seen) = r.rows
  /\ r.ended /\ r.told # "error" => ~r.fails /\ Len(r.seen) = r.rows
  /\ r.ready # Null => r.ready = Result("row", s, 1) /\ r.seen = <<>> /\ ~r.ended
  /\ r.told = "end" => r.ended

Arrived(r) == Len(r.seen) + (IF r.ready = Null THEN 0 ELSE 1)

SetFollows(s) == GaveOwn(s, set[s]) /\ (Streaming(s) => Rest(s, Arrived(set[s])))

CallFollows(c) ==
  call[c].at \in {"drain open", "drain end"} =>
    ~set[call[c].set].fails /\ Len(set[call[c].set].seen) = set[call[c].set].rows

RowsFollow ==
  /\ \A s \in Sets : SetFollows(s)
  /\ \A c \in Clients : CallFollows(c)

-----------------------------------------------------------------------------
(* Types, and what arrives.                                                *)

ConnType == [link : {"none", "half", "ok", "bad"}, busy : BOOLEAN,
             kind : {"none", "query", "prepare", "ping"}, queue : Seq(Results)]
SetType  == [life : {"none", "local", "live"}, ready : Results \cup {Null}, ended : BOOLEAN,
             rows : 0..MaxRows, fails : BOOLEAN, seen : Seq(Results), told : {"none", "end", "error"}]
CallType == [op : Ops, at : Points, set : Sets \cup {None}, stmt : Stmts \cup {None}]

LEMMA Types ==
  ASSUME TypeOK
  PROVE  /\ conn \in ConnType /\ set \in [Sets -> SetType] /\ call \in [Clients -> CallType]
         /\ stmt \in [Stmts -> {"none", "live", "prepared"}] /\ named \subseteq Stmts \cup {None}
         /\ \A c \in Clients : call[c].set # None => call[c].set \in Sets
         /\ None \notin Clients \cup Sets \cup Stmts
  BY NoneIsNothing DEF TypeOK, ConnType, SetType, CallType

LEMMA FreshRecords ==
  Absent \in SetType /\ Closed \in ConnType /\ NoCall \in CallType
  BY RowBound DEF Absent, Closed, NoCall, SetType, ConnType, CallType, Ops, Points, Null, Result

\* A result is none of the two marks that stand for no result.
LEMMA ResultsAreNoMarks ==
  /\ Null \notin Results /\ Lost \notin Results /\ Null # Lost
  /\ Null.kind = "null" /\ Lost.kind = "lost"
  BY DEF Results, Kinds, Null, Lost, Result

\* The rows of the first statement come first, then how it ends.
LEMMA StreamIs ==
  ASSUME NEW s \in Sets, NEW a \in Answers
  PROVE  /\ Stream(s, a) \in Seq(Results) /\ Len(Stream(s, a)) >= a.rows + 1
         /\ \A i \in 1..a.rows : Stream(s, a)[i] = Result("row", s, i)
         /\ Stream(s, a)[a.rows + 1] = Result(a.end, s, 0)
  <1> DEFINE rows == [n \in 1..a.rows |-> Result("row", s, n)]
             end  == <<Result(a.end, s, 0)>>
             more == CASE a.more = "none" -> <<>>
                       [] a.more = "row" -> <<Result("row", s, a.rows + 1), Result("tuples", s, 0)>>
                       [] a.more = "fatal" -> <<Result("fatal", s, 0)>>
  <1>1. /\ a.rows \in 0..MaxRows /\ a.rows \in Nat /\ MaxRows \in Nat
        /\ a.end \in {"tuples", "command", "fatal"} /\ a.more \in {"none", "row", "fatal"}
    BY RowBound DEF Answers
  <1>2. rows \in Seq(Results) /\ Len(rows) = a.rows
    <2>1. \A n \in 1..a.rows : Result("row", s, n) \in Results
      BY <1>1 DEF Result, Results, Kinds
    <2>2. rows \in [1..a.rows -> Results]
      BY <2>1
    <2> QED BY <1>1, <2>2, SeqDef
  <1>3. end \in Seq(Results) /\ Len(end) = 1 /\ end[1] = Result(a.end, s, 0)
    BY <1>1 DEF Result, Results, Kinds
  <1>4. more \in Seq(Results)
    <2>1. Result("row", s, a.rows + 1) \in Results /\ Result("tuples", s, 0) \in Results
          /\ Result("fatal", s, 0) \in Results
      BY <1>1 DEF Result, Results, Kinds
    <2> QED BY <1>1, <2>1
  <1> HIDE DEF rows, end, more
  <1>5. /\ rows \o end \in Seq(Results) /\ Len(rows \o end) = a.rows + 1
        /\ \A i \in 1..a.rows : (rows \o end)[i] = rows[i]
        /\ (rows \o end)[a.rows + 1] = end[1]
    <2>1. /\ rows \o end \in Seq(Results) /\ Len(rows \o end) = Len(rows) + Len(end)
          /\ \A i \in 1..(Len(rows) + Len(end)) :
               (rows \o end)[i] = IF i <= Len(rows) THEN rows[i] ELSE end[i - Len(rows)]
      BY <1>2, <1>3, ConcatProperties
    <2> QED BY <1>1, <1>2, <1>3, <2>1
  <1>6. /\ (rows \o end) \o more \in Seq(Results) /\ Len((rows \o end) \o more) >= a.rows + 1
        /\ \A i \in 1..(a.rows + 1) : ((rows \o end) \o more)[i] = (rows \o end)[i]
    <2> DEFINE first == rows \o end
    <2> HIDE DEF first
    <2>1. first \in Seq(Results) /\ Len(first) = a.rows + 1
      BY <1>5 DEF first
    <2>2. /\ first \o more \in Seq(Results) /\ Len(first \o more) = Len(first) + Len(more)
          /\ \A i \in 1..(Len(first) + Len(more)) :
               (first \o more)[i] = IF i <= Len(first) THEN first[i] ELSE more[i - Len(first)]
      BY <1>4, <2>1, ConcatProperties
    <2>3. Len(more) \in Nat
      BY <1>4
    <2> QED BY <1>1, <2>1, <2>2, <2>3 DEF first
  <1>7. Stream(s, a) = (rows \o end) \o more
    BY DEF Stream, rows, end, more
  <1>8. \A i \in 1..a.rows : rows[i] = Result("row", s, i)
    BY DEF rows
  <1> HIDE DEF rows, end, more
  <1>9. \A i \in 1..a.rows : i \in 1..(a.rows + 1)
    BY <1>1
  <1>10. a.rows + 1 \in 1..(a.rows + 1)
    BY <1>1
  <1> QED BY <1>3, <1>5, <1>6, <1>7, <1>8, <1>9, <1>10

\* What getResult() comes back with: the next result, the closing NULL when there
\* is none, or an error of the connection.
Arrives(r) ==
  /\ \/ r = Null /\ conn.queue = <<>> /\ After(r) = [conn EXCEPT !.busy = FALSE]
     \/ r = Lost /\ conn.link \in {"none", "bad"} /\ After(r) = conn
     \/ /\ r \in Results /\ r \notin {Null, Lost} /\ r.kind \in Kinds \ {"gone"}
        /\ conn.queue # <<>> /\ r = Head(conn.queue)
        /\ After(r) = [conn EXCEPT !.queue = Tail(@)]
  /\ After(r) \in ConnType /\ After(r).link = conn.link /\ After(r).kind = conn.kind

LEMMA ArrivalIs ==
  ASSUME TypeOK, NEW r \in Arrivals
  PROVE  Arrives(r)
  <1>1. conn \in ConnType /\ conn.queue \in Seq(Results)
    BY Types DEF ConnType
  <1>2. CASE r = Lost
    <2>1. conn.link \in {"none", "bad"}
      <3>1. \/ conn.queue = <<>> /\ r = Null
            \/ conn.queue # <<>> /\ r = Head(conn.queue)
            \/ conn.link \in {"none", "bad"}
        BY DEF Arrivals
      <3> QED BY <1>1, <1>2, <3>1, ResultsAreNoMarks, HeadTailProperties
    <2>2. After(r) = conn
      BY <1>2, ResultsAreNoMarks DEF After
    <2> QED BY <1>1, <1>2, <2>1, <2>2 DEF Arrives
  <1>3. CASE r # Lost /\ conn.queue = <<>>
    <2>1. r = Null
      BY <1>3 DEF Arrivals
    <2>2. After(r) = [conn EXCEPT !.busy = FALSE]
      BY <2>1, ResultsAreNoMarks DEF After
    <2> QED BY <1>1, <1>3, <2>1, <2>2 DEF Arrives, ConnType
  <1>4. CASE r # Lost /\ conn.queue # <<>>
    <2>1. r = Head(conn.queue) /\ r.kind # "gone"
      BY <1>4 DEF Arrivals
    <2>2. r \in Results /\ Tail(conn.queue) \in Seq(Results)
      BY <1>1, <1>4, <2>1, HeadTailProperties
    <2>3. r # Null /\ r.kind \in Kinds
      BY <2>2, ResultsAreNoMarks DEF Results
    <2>4. After(r) = [conn EXCEPT !.queue = Tail(@)]
      BY <1>4, <2>3 DEF After
    <2> QED BY <1>1, <1>4, <2>1, <2>2, <2>3, <2>4 DEF Arrives, ConnType
  <1> QED BY <1>2, <1>3, <1>4

LEMMA DrainedIs ==
  ASSUME NEW k \in ConnType
  PROVE  /\ Drained(k) \in ConnType /\ Drained(k).link = k.link /\ Drained(k).kind = k.kind
         /\ k.link = "ok" => ~Drained(k).busy
  <1>1. <<>> \in Seq(Results)
    OBVIOUS
  <1> QED BY <1>1 DEF Drained, ConnType

-----------------------------------------------------------------------------
(* Steps of one call and one set.                                          *)

SetReads(s) == set[s].life # "none" /\ ~set[s].ended

LEMMA ReadersAre ==
  /\ \A s \in Sets : SetReads(s) => s \in Readers
  /\ \A c \in Clients : call[c].op = "ping" => c \in Readers
  /\ \A x \in Readers : \/ x \in Sets /\ SetReads(x)
                        \/ x \in Clients /\ call[x].op = "ping"
  BY DEF Readers, SetReads

\* A step that touches the call of c (or nobody) and set s (or none) alone, and
\* leaves the call where it expects its set to be.
Turn(c, s) ==
  /\ conn' \in ConnType /\ set' \in [Sets -> SetType] /\ call' \in [Clients -> CallType]
  /\ stmt' \in [Stmts -> {"none", "live", "prepared"}] /\ named' \subseteq Stmts \cup {None}
  /\ \A d \in Clients \ {c} : call'[d] = call[d] /\ (call[d].set # None => call[d].set # s)
  /\ \A t \in Sets \ {s} : set'[t] = set[t]
  /\ c \in Clients => call[c].set \in {s, None} /\ call'[c].set \in {s, None} /\ FindsSet(c)'
  /\ s \in Sets => \/ set'[s].life # "local"
                   \/ c \in Clients /\ call'[c].set = s

LEMMA TurnKeepsCalls ==
  ASSUME TypeOK, CallsOwnSets, NEW c, NEW s, s \in Sets \cup {None}, Turn(c, s)
  PROVE  TypeOK' /\ CallsOwnSets'
  <1> USE DEF Turn
  <1>1. ASSUME NEW d \in Clients \ {c} PROVE FindsSet(d)'
    <2>1. FindsSet(d) /\ call'[d] = call[d]
      BY DEF CallsOwnSets
    <2>2. call[d].set # None => set'[call[d].set] = set[call[d].set]
      BY Types
    <2>3. call[d].at \in Opening => call[d].set # None
      BY <2>1, Types DEF FindsSet, Opening
    <2> QED BY <2>1, <2>2, <2>3 DEF FindsSet
  <1>2. \A d, e \in Clients : call'[d].set # None /\ call'[d].set = call'[e].set => d = e
    BY DEF CallsOwnSets
  <1>3. CallsOwnSets'
    BY <1>1, <1>2 DEF CallsOwnSets
  <1>4. ASSUME NEW t \in Sets
        PROVE  set'[t].life = "local" <=> \E d \in Clients : call'[d].set = t /\ call'[d].op # "next"
    <2>1. CASE t = s
      <3>1. \A d \in Clients : call'[d].set = s => FindsSet(d)' /\ call'[d].set # None
        BY <1>3, <2>1, Types DEF CallsOwnSets
      <3>2. \A d \in Clients : call'[d].set = s =>
               set'[s].life = (IF call'[d].op = "next" THEN "live" ELSE "local")
        BY <3>1 DEF FindsSet
      <3> QED BY <2>1, <3>2
    <2>2. CASE t # s
      <3>1. \A d \in Clients : call'[d].set = t <=> call[d].set = t
        BY <2>2, Types
      <3>2. \A d \in Clients : call'[d].set = t => call'[d] = call[d]
        BY <2>2, Types
      <3> QED BY <2>2, <3>1, <3>2 DEF TypeOK
    <2> QED BY <2>1, <2>2
  <1>5. TypeOK'
    BY <1>4 DEF TypeOK, ConnType, SetType, CallType
  <1> QED BY <1>3, <1>5

\* What a call under way excludes.
LEMMA CallIsHere ==
  ASSUME SessionInv, NEW c \in Clients, call[c].op \notin {"none", "disconnect"}
  PROVE  conn.link # "none" /\ \A d \in Clients : call[d].op # "disconnect"
  BY DEF SessionInv, AwayIsQuiet

\* A step of the only reader: the call of c, which reads for set s.
ReaderTurn(c, s) ==
  /\ Turn(c, s)
  /\ call[c].set = s /\ SetReads(s) /\ call'[c].op \notin {"ping", "disconnect"}
  /\ conn'.link = conn.link /\ named' = named
  /\ SetReads(s)' => conn'.busy
  /\ conn.link = "ok" /\ conn'.busy /\ conn'.kind # "prepare" => SetReads(s)'
  /\ call'[c].at \in {"prepare", "prepared"} => conn'.kind = "prepare"
  /\ call'[c].at # "prepare"
  /\ call'[c].at = "prepared" /\ conn.link = "ok" => call'[c].stmt \in named
  /\ \A p \in Stmts : stmt'[p] = "prepared" =>
       stmt[p] = "prepared" \/ (conn.link = "ok" => p \in named)

LEMMA ReaderKeepsSession ==
  ASSUME SessionInv, NEW c \in Clients, NEW s \in Sets, ReaderTurn(c, s)
  PROVE  SessionInv'
  <1> USE DEF SessionInv, ReaderTurn
  <1>1. TypeOK' /\ CallsOwnSets'
    BY TurnKeepsCalls
  <1>2. /\ \A t \in Sets \ {s} : ~SetReads(t) /\ ~Finished(t)
        /\ \A d \in Clients : call[d].op # "ping"
    <2>1. \A x \in Readers : x = s
      BY ReadersAre DEF OneReader
    <2> QED BY <2>1, ReadersAre, ReadersAreApart DEF OneReader
  <1>3. \A d \in Clients \ {c} : call[d].at \notin {"prepare", "prepared"}
    <2>1. ASSUME NEW d \in Clients \ {c}, call[d].at \in {"prepare", "prepared"} PROVE FALSE
      <3>1. FindsSet(d) /\ call[d].set \in Sets \ {s}
        BY <2>1, Types DEF CallsOwnSets, FindsSet, Opening, Turn
      <3>2. SetReads(call[d].set)
        BY <2>1, <3>1, Types DEF FindsSet, SetReads, Opening
      <3> QED BY <1>2, <3>1, <3>2
    <2> QED BY <2>1
  <1>4. conn.link # "none" /\ \A d \in Clients : call[d].op # "disconnect"
    <2>1. call[c].op \notin {"none", "disconnect"}
      BY Types DEF CallsOwnSets, FindsSet
    <2> QED BY <2>1, CallIsHere
  <1>5. OneReader'
    <2>1. \A x \in Readers' : x = s /\ SetReads(s)'
      BY <1>2 DEF Readers, SetReads, Turn
    <2>2. SetReads(s)' => s \in Readers'
      BY DEF Readers, SetReads
    <2>3. Readers' # {} => \A t \in Sets : ~Finished(t)'
      BY <1>2, <2>1 DEF Finished, SetReads, Turn
    <2>4. \A d \in Clients : call'[d].at \in {"prepare", "prepared"} => conn'.kind = "prepare"
      BY <1>3 DEF Turn
    <2> QED BY <2>1, <2>2, <2>3, <2>4 DEF OneReader
  <1>6. AwayIsQuiet'
    BY <1>4 DEF AwayIsQuiet, Turn
  <1>7. PreparedIsNamed'
    BY <1>3 DEF PreparedIsNamed, Turn
  <1> QED BY <1>1, <1>5, <1>6, <1>7

\* A step that changes neither who reads nor what there is to read.
QuietTurn(c, s) ==
  /\ Turn(c, s)
  /\ conn' = conn /\ named' = named
  /\ \A t \in Sets : set'[t].life = set[t].life /\ set'[t].ended = set[t].ended
  /\ \A p \in Stmts : stmt'[p] = "prepared" => stmt[p] = "prepared"
  /\ c \in Clients =>
       /\ conn.link # "none" /\ \A d \in Clients : call[d].op # "disconnect"
       /\ call[c].op # "ping" /\ call'[c].op \notin {"ping", "disconnect"}
       /\ call'[c].at \notin {"prepare", "prepared"}

LEMMA QuietKeepsSession ==
  ASSUME SessionInv, NEW c, NEW s, s \in Sets \cup {None}, QuietTurn(c, s)
  PROVE  SessionInv'
  <1> USE DEF SessionInv, QuietTurn
  <1>1. TypeOK' /\ CallsOwnSets'
    BY TurnKeepsCalls
  <1>2. Readers' = Readers /\ \A t \in Sets : Finished(t)' <=> Finished(t)
    BY DEF Readers, Finished, Turn
  <1>3. \A d \in Clients : call'[d].at \in {"prepare", "prepared"} => call'[d] = call[d]
    BY DEF Turn
  <1>4. OneReader'
    BY <1>2, <1>3 DEF OneReader
  <1>5. AwayIsQuiet'
    BY DEF AwayIsQuiet, Unused, Turn
  <1>6. PreparedIsNamed'
    BY <1>3 DEF PreparedIsNamed
  <1> QED BY <1>1, <1>4, <1>5, <1>6

\* A command is sent, on a connection that nobody reads from.
StartTurn(c, s) ==
  /\ Turn(c, s)
  /\ conn.link = "ok" /\ ~conn.busy /\ \A d \in Clients : call[d].op # "disconnect"
  /\ \A t \in Sets : ~Finished(t)
  /\ conn'.link = "ok" /\ conn'.busy /\ SetReads(s)'
  /\ call'[c].op \in {"query", "execute"} /\ call'[c].at # "prepared"
  /\ call'[c].at = "prepare" =>
       /\ conn'.kind = "prepare"
       /\ conn'.queue # <<>>
       /\ Head(conn'.queue).kind = "command" => call'[c].stmt \in named'
  /\ stmt' = stmt /\ named \subseteq named'

LEMMA StartKeepsSession ==
  ASSUME SessionInv, NEW c \in Clients, NEW s \in Sets, StartTurn(c, s)
  PROVE  SessionInv'
  <1> USE DEF SessionInv, StartTurn
  <1>1. TypeOK' /\ CallsOwnSets'
    BY TurnKeepsCalls
  <1>2. Readers = {} /\ \A t \in Sets : ~SetReads(t)
    BY ReadersAre DEF OneReader
  <1>3. \A d \in Clients \ {c} : call[d].at \notin {"prepare", "prepared"} /\ call[d].op # "ping"
    <2>1. ASSUME NEW d \in Clients \ {c}, call[d].at \in {"prepare", "prepared"} PROVE FALSE
      <3>1. FindsSet(d) /\ call[d].set \in Sets
        BY <2>1, Types DEF CallsOwnSets, FindsSet, Opening
      <3>2. SetReads(call[d].set)
        BY <2>1, <3>1, Types DEF FindsSet, SetReads, Opening
      <3> QED BY <1>2, <3>2, <3>1
    <2> QED BY <1>2, <2>1, ReadersAre
  <1>4. OneReader'
    <2>1. \A x \in Readers' : x = s
      BY <1>2, <1>3 DEF Readers, SetReads, Turn
    <2>2. s \in Readers'
      BY DEF Readers, SetReads
    <2>3. \A t \in Sets : ~Finished(t)'
      BY DEF Finished, SetReads, Turn
    <2>4. \A d \in Clients : call'[d].at \in {"prepare", "prepared"} => conn'.kind = "prepare"
      BY <1>3 DEF Turn
    <2> QED BY <2>1, <2>2, <2>3, <2>4 DEF OneReader
  <1>5. AwayIsQuiet'
    BY DEF AwayIsQuiet, Turn
  <1>6. PreparedIsNamed'
    BY <1>3 DEF PreparedIsNamed, Turn
  <1> QED BY <1>1, <1>4, <1>5, <1>6

LEMMA InitEstablishes == Init => SessionInv
  <1> SUFFICES ASSUME Init PROVE SessionInv
    OBVIOUS
  <1>1. /\ conn = [Closed EXCEPT !.link = "ok"] /\ conn.link = "ok" /\ conn.busy = FALSE
        /\ conn \in ConnType
    BY FreshRecords DEF Init, Closed, ConnType
  <1>2. /\ \A s \in Sets : set[s] = Absent /\ set[s].life = "none"
        /\ \A c \in Clients : call[c] = NoCall /\ call[c].op = "none" /\ call[c].at = "none" /\ call[c].set = None
        /\ \A p \in Stmts : stmt[p] = "none"
    BY DEF Init, Absent, NoCall
  <1>3. TypeOK
    <2>1. set \in [Sets -> SetType] /\ call \in [Clients -> CallType]
      BY FreshRecords DEF Init
    <2>2. \A s \in Sets, c \in Clients : call[c].set # s
      BY <1>2, NoneIsNothing
    <2> QED BY <1>1, <1>2, <2>1, <2>2 DEF TypeOK, Init, ConnType, SetType, CallType
  <1>4. CallsOwnSets
    BY <1>2 DEF CallsOwnSets, FindsSet, Opening, Reading
  <1>5. Readers = {}
    BY <1>2 DEF Readers
  <1>6. OneReader
    BY <1>1, <1>2, <1>5 DEF OneReader
  <1>7. AwayIsQuiet /\ PreparedIsNamed
    BY <1>1, <1>2 DEF AwayIsQuiet, PreparedIsNamed
  <1> QED BY <1>3, <1>4, <1>6, <1>7 DEF SessionInv

\* What is sent for set s.
LEMMA IssueIs ==
  ASSUME NEW k \in ConnType, NEW s \in Sets, NEW p, set \in [Sets -> SetType], Issue(k, s, p)
  PROVE  \E a \in Answers :
           /\ conn' = [k EXCEPT !.busy = TRUE, !.kind = "query", !.queue = Stream(s, a)]
           /\ set' = [set EXCEPT ![s] = [Absent EXCEPT !.life = "local", !.rows = a.rows,
                                                       !.fails = (a.end = "fatal")]]
           /\ [Absent EXCEPT !.life = "local", !.rows = a.rows, !.fails = (a.end = "fatal")] \in SetType
           /\ conn' \in ConnType
  <1>1. PICK a \in Answers :
           /\ conn' = [k EXCEPT !.busy = TRUE, !.kind = "query", !.queue = Stream(s, a)]
           /\ set' = [set EXCEPT ![s] = [Absent EXCEPT !.life = "local", !.rows = a.rows,
                                                       !.fails = (a.end = "fatal")]]
    BY DEF Issue, AnswersTo, Sent
  <1>2. [Absent EXCEPT !.life = "local", !.rows = a.rows, !.fails = (a.end = "fatal")] \in SetType
    BY FreshRecords DEF SetType, Answers
  <1>3. conn' \in ConnType
    BY <1>1, StreamIs DEF ConnType
  <1> QED BY <1>1, <1>2, <1>3

LEMMA CallQuerySession ==
  ASSUME SessionInv, Rules = {"sets", "session"}, NEW c \in Clients, NEW op \in {"query", "execute"},
         NEW s \in Sets, NEW p \in Stmts \cup {None}, CallQuery(c, op, s, p)
  PROVE  SessionInv'
  <1> USE DEF SessionInv
  <1> DEFINE start == [op |-> op, at |-> "mode", set |-> s, stmt |-> p]
  <1>1. /\ call[c] = NoCall /\ conn.link = "ok" /\ ~conn.busy
        /\ (\A d \in Clients : call[d].op # "disconnect") /\ \A t \in Sets : ~Finished(t)
        /\ set[s].life = "none" /\ call' = [call EXCEPT ![c] = start] /\ UNCHANGED <<stmt, named>>
        /\ Issue(conn, s, p) /\ conn \in ConnType
    BY Types DEF CallQuery, MayStart, Start, Idle, Accepts, Leaving
  <1>2. PICK a \in Answers :
          /\ conn' = [conn EXCEPT !.busy = TRUE, !.kind = "query", !.queue = Stream(s, a)]
          /\ set' = [set EXCEPT ![s] = [Absent EXCEPT !.life = "local", !.rows = a.rows,
                                                      !.fails = (a.end = "fatal")]]
          /\ [Absent EXCEPT !.life = "local", !.rows = a.rows, !.fails = (a.end = "fatal")] \in SetType
          /\ conn' \in ConnType
    BY <1>1, Types, IssueIs
  <1> DEFINE new == [Absent EXCEPT !.life = "local", !.rows = a.rows, !.fails = (a.end = "fatal")]
  <1>3. /\ new.life = "local" /\ new.ended = FALSE /\ new.seen = <<>> /\ new.told = "none"
        /\ new.ready = Null
    BY DEF Absent
  <1> HIDE DEF new
  <1>4. /\ set' \in [Sets -> SetType] /\ set'[s] = new /\ \A t \in Sets \ {s} : set'[t] = set[t]
    BY <1>2, Types DEF new
  <1>5. /\ call' \in [Clients -> CallType] /\ call'[c] = start
        /\ \A d \in Clients \ {c} : call'[d] = call[d]
    BY <1>1, Types DEF CallType, Ops, Points
  <1>6. \A d \in Clients : call[d].set # None => call[d].set # s
    BY <1>1 DEF CallsOwnSets, FindsSet
  <1>7. FindsSet(c)'
    BY <1>3, <1>4, <1>5, Types DEF FindsSet, Opening, Reading
  <1>8. Turn(c, s)
    BY <1>1, <1>2, <1>4, <1>5, <1>6, <1>7, Types DEF Turn, NoCall
  <1>9. conn'.link = "ok" /\ conn'.busy
    BY <1>1, <1>2 DEF ConnType
  <1>10. StartTurn(c, s)
    BY <1>1, <1>3, <1>4, <1>5, <1>8, <1>9 DEF StartTurn, SetReads
  <1> QED BY <1>10, StartKeepsSession

LEMMA CallPrepareSession ==
  ASSUME SessionInv, Rules = {"sets", "session"}, NEW c \in Clients, NEW op \in {"query", "execute"},
         NEW s \in Sets, NEW p \in Stmts \cup {None}, CallPrepare(c, op, s, p)
  PROVE  SessionInv'
  <1> USE DEF SessionInv
  <1> DEFINE start == [op |-> op, at |-> "prepare", set |-> s, stmt |-> p]
             new == [Absent EXCEPT !.life = "local"]
  <1>1. /\ call[c] = NoCall /\ conn.link = "ok" /\ ~conn.busy
        /\ (\A d \in Clients : call[d].op # "disconnect") /\ \A t \in Sets : ~Finished(t)
        /\ set[s].life = "none" /\ call' = [call EXCEPT ![c] = start] /\ stmt' = stmt
        /\ p # None /\ set' = [set EXCEPT ![s] = new]
    BY DEF CallPrepare, MayStart, Start, Idle, Accepts, Leaving
  <1>2. PICK end \in {"command", "fatal"} :
          /\ conn' = [conn EXCEPT !.busy = TRUE, !.kind = "prepare", !.queue = <<Result(end, s, 0)>>]
          /\ end = "command" => p \in named'
          /\ named \subseteq named' /\ named' \subseteq Stmts \cup {None}
    BY Types DEF CallPrepare, Sent
  <1>3. /\ new.life = "local" /\ new.ended = FALSE /\ new.seen = <<>> /\ new.told = "none"
        /\ new.ready = Null /\ new \in SetType
    BY FreshRecords DEF Absent, SetType
  <1> HIDE DEF new
  <1>4. /\ set' \in [Sets -> SetType] /\ set'[s] = new /\ \A t \in Sets \ {s} : set'[t] = set[t]
    BY <1>1, <1>3, Types
  <1>5. /\ call' \in [Clients -> CallType] /\ call'[c] = start
        /\ \A d \in Clients \ {c} : call'[d] = call[d]
    BY <1>1, Types DEF CallType, Ops, Points
  <1>6. \A d \in Clients : call[d].set # None => call[d].set # s
    BY <1>1 DEF CallsOwnSets, FindsSet
  <1>7. FindsSet(c)'
    BY <1>1, <1>3, <1>4, <1>5, Types DEF FindsSet, Opening, Reading
  <1>8. /\ conn' \in ConnType /\ conn'.link = "ok" /\ conn'.busy /\ conn'.kind = "prepare"
        /\ conn'.queue # <<>> /\ Head(conn'.queue).kind = end
    <2>1. Result(end, s, 0) \in Results /\ Result(end, s, 0).kind = end
      BY RowBound DEF Result, Results, Kinds
    <2>2. <<Result(end, s, 0)>> \in Seq(Results) /\ Head(<<Result(end, s, 0)>>) = Result(end, s, 0)
      BY <2>1
    <2> QED BY <1>1, <1>2, <2>1, <2>2, Types DEF ConnType
  <1>9. Turn(c, s)
    BY <1>1, <1>2, <1>4, <1>5, <1>6, <1>7, <1>8, Types DEF Turn, NoCall
  <1>10. StartTurn(c, s)
    BY <1>1, <1>2, <1>3, <1>4, <1>5, <1>8, <1>9 DEF StartTurn, SetReads
  <1> QED BY <1>10, StartKeepsSession

LEMMA CallNextSession ==
  ASSUME SessionInv, NEW c \in Clients, NEW s \in Sets, CallNext(c, s)
  PROVE  SessionInv'
  <1> USE DEF SessionInv
  <1> DEFINE start == [op |-> "next", at |-> "next", set |-> s, stmt |-> None]
  <1>1. /\ call[c] = NoCall /\ set[s].life = "live" /\ \A d \in Clients : call[d].set # s
        /\ call' = [call EXCEPT ![c] = start] /\ UNCHANGED <<conn, set, stmt, named>>
    BY DEF CallNext, Start, Idle, InUse
  <1>2. /\ call' \in [Clients -> CallType] /\ call'[c] = start
        /\ \A d \in Clients \ {c} : call'[d] = call[d]
    BY <1>1, Types DEF CallType, Ops, Points
  <1>3. FindsSet(c)'
    BY <1>1, <1>2, Types DEF FindsSet, Opening, Reading
  <1>4. Turn(c, s)
    BY <1>1, <1>2, <1>3, Types DEF Turn, NoCall
  <1>5. conn.link # "none" /\ \A d \in Clients : call[d].op # "disconnect"
    BY <1>1 DEF AwayIsQuiet, Unused
  <1>6. QuietTurn(c, s)
    BY <1>1, <1>2, <1>4, <1>5 DEF QuietTurn, NoCall
  <1> QED BY <1>6, QuietKeepsSession

\* A call without a set starts or ends.
LEMMA NoSetTurn ==
  ASSUME SessionInv, NEW c \in Clients, NEW k, k \in CallType, call[c].set = None, k.set = None,
         call' = [call EXCEPT ![c] = k], UNCHANGED <<set, stmt>>,
         conn' \in ConnType, named' \subseteq Stmts \cup {None},
         <<k.op, k.at>> \in {<<"none", "none">>, <<"ping", "ping">>, <<"disconnect", "closing">>}
  PROVE  /\ TypeOK' /\ CallsOwnSets'
         /\ call'[c] = k /\ \A d \in Clients \ {c} : call'[d] = call[d]
  <1> USE DEF SessionInv
  <1>1. /\ call' \in [Clients -> CallType] /\ call'[c] = k
        /\ \A d \in Clients \ {c} : call'[d] = call[d]
    BY Types
  <1>2. FindsSet(c)'
    BY <1>1 DEF FindsSet, Opening, Reading
  <1>3. Turn(c, None)
    BY <1>1, <1>2, Types DEF Turn
  <1> QED BY <1>1, <1>3, TurnKeepsCalls

LEMMA CallPingSession ==
  ASSUME SessionInv, Rules = {"sets", "session"}, NEW c \in Clients, CallPing(c)
  PROVE  SessionInv'
  <1> USE DEF SessionInv
  <1> DEFINE k == [op |-> "ping", at |-> "ping", set |-> None, stmt |-> None]
             rows == <<Result("row", None, 1), Result("tuples", None, 0)>>
  <1>1. /\ call[c] = NoCall /\ conn.link = "ok" /\ ~conn.busy
        /\ (\A d \in Clients : call[d].op # "disconnect") /\ \A t \in Sets : ~Finished(t)
        /\ call' = [call EXCEPT ![c] = k] /\ UNCHANGED <<set, stmt, named>>
        /\ conn' = [conn EXCEPT !.busy = TRUE, !.kind = "ping", !.queue = rows]
    BY DEF CallPing, MayStart, Start, Idle, Accepts, Leaving, Sent
  <1>2. rows \in Seq(Results)
    <2>1. Result("row", None, 1) \in Results /\ Result("tuples", None, 0) \in Results
      BY RowBound DEF Result, Results, Kinds
    <2> QED BY <2>1
  <1> HIDE DEF rows
  <1>3. conn' \in ConnType /\ conn'.link = "ok" /\ conn'.busy
    BY <1>1, <1>2, Types DEF ConnType
  <1>4. k \in CallType
    BY DEF CallType, Ops, Points
  <1>5. /\ TypeOK' /\ CallsOwnSets'
        /\ call'[c] = k /\ \A d \in Clients \ {c} : call'[d] = call[d]
    <2>1. call[c].set = None
      BY <1>1 DEF NoCall
    <2> HIDE DEF k
    <2>2. k.set = None /\ <<k.op, k.at>> = <<"ping", "ping">>
      BY DEF k
    <2> QED BY <1>1, <1>3, <1>4, <2>1, <2>2, Types, NoSetTurn
  <1>6. Readers = {} /\ (\A t \in Sets : ~SetReads(t)) /\ \A d \in Clients : call[d].op # "ping"
    BY <1>1, ReadersAre DEF OneReader
  <1>7. \A d \in Clients : call[d].at \notin {"prepare", "prepared"}
    <2>1. ASSUME NEW d \in Clients, call[d].at \in {"prepare", "prepared"} PROVE FALSE
      <3>1. FindsSet(d) /\ call[d].set \in Sets
        BY <2>1, Types DEF CallsOwnSets, FindsSet, Opening
      <3>2. SetReads(call[d].set)
        BY <2>1, <3>1, Types DEF FindsSet, SetReads, Opening
      <3> QED BY <1>6, <3>2, <3>1
    <2> QED BY <2>1
  <1>8. OneReader'
    <2>1. (\A x \in Readers' : x = c) /\ c \in Readers'
      BY <1>1, <1>5, <1>6 DEF Readers, SetReads
    <2> QED BY <1>1, <1>3, <1>5, <1>7, <2>1 DEF OneReader, Finished
  <1>9. AwayIsQuiet' /\ PreparedIsNamed'
    BY <1>1, <1>3, <1>5, <1>7 DEF AwayIsQuiet, PreparedIsNamed
  <1> QED BY <1>5, <1>8, <1>9

\* ping() stops reading: it was the only reader.
LEMMA ReturnPingSession ==
  ASSUME SessionInv, NEW c \in Clients, ReturnPing(c)
  PROVE  SessionInv'
  <1> USE DEF SessionInv
  <1>1. /\ call[c].op = "ping" /\ call[c].set = None /\ call' = [call EXCEPT ![c] = NoCall]
        /\ UNCHANGED <<set, stmt, named>>
    BY DEF ReturnPing, Hangup, CallsOwnSets, FindsSet
  <1>2. /\ conn' \in ConnType /\ conn'.link = conn.link /\ conn'.kind = conn.kind
        /\ conn.link = "ok" => ~conn'.busy
    <2>1. PICK r \in Arrivals :
             conn' = IF r = Lost THEN conn ELSE [conn EXCEPT !.busy = FALSE, !.queue = <<>>]
      BY DEF ReturnPing
    <2>2. r = Lost => conn.link # "ok"
      BY ArrivalIs, ResultsAreNoMarks DEF Arrives
    <2>3. <<>> \in Seq(Results)
      OBVIOUS
    <2> QED BY <2>1, <2>2, <2>3, Types DEF ConnType
  <1>3. /\ TypeOK' /\ CallsOwnSets'
        /\ call'[c] = NoCall /\ \A d \in Clients \ {c} : call'[d] = call[d]
    <2>1. NoCall.set = None /\ <<NoCall.op, NoCall.at>> = <<"none", "none">>
      BY DEF NoCall
    <2> QED BY <1>1, <1>2, <2>1, FreshRecords, Types, NoSetTurn
  <1>4. (\A t \in Sets : ~SetReads(t)) /\ \A d \in Clients \ {c} : call[d].op # "ping"
    BY <1>1, ReadersAre, ReadersAreApart DEF OneReader
  <1>5. \A d \in Clients : call'[d].at \notin {"prepare", "prepared"}
    <2>1. ASSUME NEW d \in Clients, call'[d].at \in {"prepare", "prepared"} PROVE FALSE
      <3>1. call'[d] = call[d]
        BY <1>3, <2>1 DEF NoCall
      <3>2. FindsSet(d) /\ call[d].set \in Sets
        BY <2>1, <3>1, Types DEF CallsOwnSets, FindsSet, Opening
      <3>3. SetReads(call[d].set)
        BY <2>1, <3>1, <3>2, Types DEF FindsSet, SetReads, Opening
      <3> QED BY <1>4, <3>2, <3>3
    <2> QED BY <2>1
  <1>6. OneReader'
    <2>1. Readers' = {}
      BY <1>1, <1>3, <1>4 DEF Readers, SetReads, NoCall
    <2> QED BY <1>2, <1>5, <2>1 DEF OneReader
  <1>7. conn.link # "none" /\ \A d \in Clients : call[d].op # "disconnect"
    BY <1>1, CallIsHere
  <1>8. AwayIsQuiet' /\ PreparedIsNamed'
    BY <1>1, <1>2, <1>3, <1>5, <1>7 DEF AwayIsQuiet, PreparedIsNamed, NoCall
  <1> QED BY <1>3, <1>6, <1>8

\* When nobody uses the session nobody reads from it.
LEMMA QuietHasNoReader ==
  ASSUME SessionInv, NEW d, \A c \in Clients \ {d} : call[c].op = "none",
         \A s \in Sets : set[s].life = "none",
         d \in Clients => call[d].op \in {"none", "disconnect"}
  PROVE  /\ Readers = {} /\ (\A s \in Sets : ~Finished(s))
         /\ \A c \in Clients : call[c].at \notin {"prepare", "prepared"}
  BY DEF SessionInv, CallsOwnSets, FindsSet, Readers, Finished

LEMMA DisconnectSession ==
  ASSUME SessionInv, Rules = {"sets", "session"}, NEW c \in Clients,
         CallDisconnect(c) \/ ReturnDisconnect(c)
  PROVE  SessionInv'
  <1> USE DEF SessionInv
  <1>1. CASE CallDisconnect(c)
    <2> DEFINE k == [op |-> "disconnect", at |-> "closing", set |-> None, stmt |-> None]
    <2>1. /\ \A d \in Clients : call[d].op = "none" /\ call[d].set = None
          /\ \A s \in Sets : set[s].life = "none"
          /\ \A p \in Stmts : stmt[p] = "none"
          /\ conn.link # "none" /\ call' = [call EXCEPT ![c] = k]
          /\ UNCHANGED <<conn, set, stmt, named>>
      BY <1>1 DEF CallDisconnect, Quiet, Idle, NoCall, Start
    <2>2. k \in CallType
      BY DEF CallType, Ops, Points
    <2>3. k.set = None /\ k.op = "disconnect" /\ k.at = "closing"
      OBVIOUS
    <2> HIDE DEF k
    <2>4. /\ TypeOK' /\ CallsOwnSets'
          /\ call'[c] = k /\ \A d \in Clients \ {c} : call'[d] = call[d]
      <3>1. conn' \in ConnType /\ named' \subseteq Stmts \cup {None}
        BY <2>1, Types
      <3> QED BY <2>1, <2>2, <2>3, <3>1, NoSetTurn
    <2>5. Readers = {} /\ \A d \in Clients : call[d].at \notin {"prepare", "prepared"}
      BY <2>1, QuietHasNoReader
    <2>6. OneReader'
      <3>1. Readers' = {}
        BY <2>1, <2>3, <2>4 DEF Readers
      <3> QED BY <2>1, <2>3, <2>4, <2>5, <3>1 DEF OneReader
    <2>7. AwayIsQuiet'
      BY <2>1, <2>3, <2>4 DEF AwayIsQuiet, Unused
    <2>8. PreparedIsNamed'
      BY <2>1, <2>3, <2>4, <2>5 DEF PreparedIsNamed
    <2> QED BY <2>4, <2>6, <2>7, <2>8
  <1>2. CASE ReturnDisconnect(c)
    <2>1. /\ call[c].at = "closing" /\ call[c].op = "disconnect" /\ call[c].set = None
          /\ UNCHANGED <<set, stmt>>
      BY <1>2 DEF ReturnDisconnect, CallsOwnSets, FindsSet
    <2>2. /\ \A d \in Clients \ {c} : call[d].op = "none"
          /\ \A s \in Sets : set[s].life = "none"
          /\ \A p \in Stmts : stmt[p] # "prepared"
      BY <2>1 DEF AwayIsQuiet, Unused
    <2>3. Readers = {} /\ \A d \in Clients : call[d].at \notin {"prepare", "prepared"}
      BY <2>1, <2>2, QuietHasNoReader
    <2>4. PICK r \in Arrivals :
            IF r \in {Null, Lost}
              THEN conn' = Closed /\ named' = {} /\ call' = [call EXCEPT ![c] = NoCall]
              ELSE conn' = After(r) /\ UNCHANGED <<named, call>>
      BY <1>2 DEF ReturnDisconnect, Hangup
    <2>5. CASE r \in {Null, Lost}
      <3>1. /\ TypeOK' /\ CallsOwnSets'
            /\ call'[c] = NoCall /\ \A d \in Clients \ {c} : call'[d] = call[d]
        <4>1. NoCall.set = None /\ <<NoCall.op, NoCall.at>> = <<"none", "none">>
          BY DEF NoCall
        <4>2. conn' \in ConnType /\ named' \subseteq Stmts \cup {None}
          BY <2>4, <2>5, FreshRecords
        <4> QED BY <2>1, <2>4, <2>5, <4>1, <4>2, FreshRecords, NoSetTurn
      <3>2. OneReader'
        <4>1. Readers' = {}
          BY <2>1, <2>2, <3>1 DEF Readers, NoCall
        <4> QED BY <2>3, <2>4, <2>5, <3>1, <4>1 DEF OneReader, NoCall, Closed
      <3>3. AwayIsQuiet' /\ PreparedIsNamed'
        BY <2>1, <2>2, <2>4, <2>5, <3>1 DEF AwayIsQuiet, Unused, PreparedIsNamed, NoCall, Closed
      <3> QED BY <3>1, <3>2, <3>3
    <2>6. CASE r \notin {Null, Lost}
      <3>1. /\ conn' \in ConnType /\ conn'.link = conn.link /\ conn'.kind = conn.kind
            /\ conn'.busy = conn.busy /\ UNCHANGED <<set, stmt, named, call>>
        BY <2>1, <2>4, <2>6, ArrivalIs, Types DEF Arrives, ConnType
      <3>2. TypeOK' /\ CallsOwnSets'
        BY <3>1 DEF TypeOK, ConnType, CallsOwnSets, FindsSet
      <3>3. OneReader' /\ AwayIsQuiet' /\ PreparedIsNamed'
        BY <2>3, <3>1 DEF OneReader, AwayIsQuiet, Unused, PreparedIsNamed, Readers, Finished
      <3> QED BY <3>2, <3>3
    <2> QED BY <2>5, <2>6
  <1> QED BY <1>1, <1>2

\* What is unread after the server was lost: a part of it, and one result more.
LostAfter(n, last, q) ==
  /\ q \in Seq(Results) /\ Len(q) = n + 1
  /\ \A i \in 1..n : q[i] = conn.queue[i]
  /\ q[n + 1] = Result(last, None, 0)

LEMMA LoseServerIs ==
  ASSUME TypeOK, LoseServer
  PROVE  /\ conn.link = "ok" /\ conn' \in ConnType /\ conn'.link = "bad"
         /\ conn'.busy = conn.busy /\ conn'.kind = conn.kind
         /\ named' = {} /\ UNCHANGED <<set, stmt, call>>
         /\ \/ ~conn.busy
            \/ \E n \in 0..Len(conn.queue), last \in {"fatal", "gone"} : LostAfter(n, last, conn'.queue)
  <1>1. /\ conn.link = "ok" /\ named' = {} /\ UNCHANGED <<set, stmt, call>>
        /\ conn \in ConnType /\ conn.queue \in Seq(Results) /\ conn.busy \in BOOLEAN
    BY Types DEF LoseServer, ConnType
  <1>2. PICK n \in 0..Len(conn.queue), last \in {"fatal", "gone"} :
          conn' = [conn EXCEPT
                     !.link = "bad",
                     !.queue = IF conn.busy THEN SubSeq(@, 1, n) \o <<Result(last, None, 0)>> ELSE @]
    BY DEF LoseServer
  <1> DEFINE q == SubSeq(conn.queue, 1, n) \o <<Result(last, None, 0)>>
  <1>3. LostAfter(n, last, q)
    <2>1. /\ Len(conn.queue) \in Nat /\ n \in Nat /\ n <= Len(conn.queue)
          /\ \A i \in 1..n : i \in 1..Len(conn.queue)
      BY <1>1
    <2>2. Result(last, None, 0) \in Results
      BY RowBound DEF Result, Results, Kinds
    <2>3. /\ SubSeq(conn.queue, 1, n) \in Seq(Results) /\ Len(SubSeq(conn.queue, 1, n)) = n
          /\ \A i \in 1..n : SubSeq(conn.queue, 1, n)[i] = conn.queue[i]
      BY <1>1, <2>1, SubSeqProperties
    <2> QED BY <2>1, <2>2, <2>3, AppendProperties DEF LostAfter
  <1> HIDE DEF q
  <1>4. CASE conn.busy
    <2>1. conn' = [conn EXCEPT !.link = "bad", !.queue = q]
      BY <1>2, <1>4 DEF q
    <2> QED BY <1>1, <1>3, <2>1 DEF ConnType, LostAfter
  <1>5. CASE ~conn.busy
    <2>1. conn' = [conn EXCEPT !.link = "bad"]
      BY <1>1, <1>2, <1>5 DEF ConnType
    <2> QED BY <1>1, <1>5, <2>1 DEF ConnType
  <1> QED BY <1>1, <1>4, <1>5

LEMMA LinkSession ==
  ASSUME SessionInv, Rules = {"sets", "session"}, LoseServer \/ Connect \/ SyncRollback
  PROVE  SessionInv'
  <1> USE DEF SessionInv
  <1>1. CASE LoseServer
    <2>1. /\ conn.link = "ok" /\ conn' \in ConnType /\ conn'.link = "bad"
          /\ conn'.busy = conn.busy /\ conn'.kind = conn.kind
          /\ named' = {} /\ UNCHANGED <<set, stmt, call>>
      BY <1>1, LoseServerIs
    <2>2. TypeOK' /\ CallsOwnSets'
      BY <2>1 DEF TypeOK, ConnType, CallsOwnSets, FindsSet
    <2>3. OneReader' /\ AwayIsQuiet' /\ PreparedIsNamed'
      BY <2>1 DEF OneReader, AwayIsQuiet, Unused, PreparedIsNamed, Readers, Finished
    <2> QED BY <2>2, <2>3
  <1>2. ASSUME NEW k \in ConnType, conn' = k, k.link = "ok" => ~k.busy,
               UNCHANGED <<set, stmt, named, call>>,
               \A d \in Clients : call[d].op = "none", \A s \in Sets : set[s].life = "none",
               conn.link = "none" \/ k.link = conn.link
        PROVE  SessionInv'
    <2>1. Readers = {} /\ \A d \in Clients : call[d].at \notin {"prepare", "prepared"}
      BY <1>2, QuietHasNoReader
    <2>2. TypeOK' /\ CallsOwnSets'
      BY <1>2 DEF TypeOK, ConnType, CallsOwnSets, FindsSet
    <2>3. OneReader'
      BY <1>2, <2>1 DEF OneReader, Readers
    <2>4. AwayIsQuiet' /\ PreparedIsNamed'
      BY <1>2, <2>1 DEF AwayIsQuiet, Unused, PreparedIsNamed
    <2> QED BY <2>2, <2>3, <2>4
  <1>3. CASE Connect
    <2>1. PICK link \in {"ok", "half"} : conn' = [Closed EXCEPT !.link = link]
      BY <1>3 DEF Connect
    <2>2. conn' \in ConnType /\ ~conn'.busy
      BY <2>1, FreshRecords DEF Closed, ConnType
    <2>3. conn.link = "none" /\ UNCHANGED <<set, stmt, named, call>>
      BY <1>3 DEF Connect
    <2>4. /\ \A d \in Clients : call[d].op = "none"
          /\ \A s \in Sets : set[s].life = "none"
      BY <2>3 DEF AwayIsQuiet, Unused
    <2> QED BY <1>2, <2>2, <2>3, <2>4
  <1>4. CASE SyncRollback
    <2>1. /\ conn.link = "ok" /\ conn' = Drained(conn) /\ UNCHANGED <<set, stmt, named, call>>
          /\ \A d \in Clients : call[d].op = "none"
          /\ \A s \in Sets : set[s].life = "none"
      BY <1>4 DEF SyncRollback, Quiet, Idle, NoCall
    <2> QED BY <1>2, <2>1, DrainedIs, Types
  <1> QED BY <1>1, <1>3, <1>4

\* The set that is destroyed has been read off, and nobody else reads; or it was
\* the reader itself.
LEMMA DestroySession ==
  ASSUME SessionInv, NEW s \in Sets, Destroy(s)
  PROVE  SessionInv'
  <1> USE DEF SessionInv
  <1>1. /\ set[s].life = "live" /\ \A d \in Clients : call[d].set # s
        /\ conn' = Drained(conn) /\ set' = [set EXCEPT ![s] = Absent] /\ UNCHANGED <<stmt, named, call>>
    BY DEF Destroy, InUse
  <1>2. /\ set' \in [Sets -> SetType] /\ set'[s] = Absent /\ \A t \in Sets \ {s} : set'[t] = set[t]
        /\ Absent.life = "none"
    BY <1>1, Types, FreshRecords DEF Absent
  <1>3. /\ conn' \in ConnType /\ conn'.link = conn.link /\ conn'.kind = conn.kind
        /\ conn.link = "ok" => ~conn'.busy
    BY <1>1, DrainedIs, Types
  <1>4. TypeOK' /\ CallsOwnSets'
    <2>1. Turn(None, s)
      BY <1>1, <1>2, <1>3, Types DEF Turn
    <2> QED BY <2>1, TurnKeepsCalls
  <1>5. Readers \subseteq {s}
    <2>1. CASE set[s].ended
      BY <1>1, <2>1 DEF OneReader, Finished
    <2>2. CASE ~set[s].ended
      BY <1>1, <2>2, ReadersAre DEF OneReader, SetReads
    <2> QED BY <2>1, <2>2
  <1>6. \A d \in Clients : call[d].at \notin {"prepare", "prepared"}
    <2>1. ASSUME NEW d \in Clients, call[d].at \in {"prepare", "prepared"} PROVE FALSE
      <3>1. FindsSet(d) /\ call[d].set \in Sets \ {s}
        BY <1>1, <2>1, Types DEF CallsOwnSets, FindsSet, Opening
      <3>2. SetReads(call[d].set)
        BY <2>1, <3>1, Types DEF FindsSet, SetReads, Opening
      <3> QED BY <1>5, <3>1, <3>2, ReadersAre
    <2> QED BY <2>1
  <1>7. OneReader'
    <2>1. Readers' = {}
      <3>1. \A d \in Clients : call[d].op # "ping"
        BY <1>5, ReadersAre, ReadersAreApart
      <3>2. \A t \in Sets \ {s} : ~SetReads(t)
        BY <1>5, ReadersAre
      <3> QED BY <1>1, <1>2, <3>1, <3>2 DEF Readers, SetReads
    <2> QED BY <1>1, <1>3, <1>6, <2>1 DEF OneReader
  <1>8. conn.link # "none" /\ \A d \in Clients : call[d].op # "disconnect"
    BY <1>1 DEF AwayIsQuiet, Unused
  <1>9. AwayIsQuiet' /\ PreparedIsNamed'
    BY <1>1, <1>3, <1>6, <1>8 DEF AwayIsQuiet, PreparedIsNamed
  <1> QED BY <1>4, <1>7, <1>9

LEMMA StatementSession ==
  ASSUME SessionInv, NEW p \in Stmts, Prepare(p) \/ DropStatement(p)
  PROVE  SessionInv'
  <1> USE DEF SessionInv
  <1>1. /\ UNCHANGED <<conn, set, call>>
        /\ stmt' \in [Stmts -> {"none", "live", "prepared"}] /\ stmt'[p] # "prepared"
        /\ \A q \in Stmts \ {p} : stmt'[q] = stmt[q]
        /\ named' \subseteq Stmts \cup {None} /\ \A q \in Stmts \ {p} : q \in named => q \in named'
        /\ named' = named \/ \A d \in Clients : call[d].stmt # p
    BY Types DEF Prepare, DropStatement
  <1>2. TypeOK' /\ CallsOwnSets'
    BY <1>1 DEF TypeOK, CallsOwnSets, FindsSet
  <1>3. OneReader' /\ AwayIsQuiet'
    BY <1>1 DEF OneReader, Readers, Finished, AwayIsQuiet, Unused
  <1>4. ASSUME NEW d \in Clients, call[d].at \in {"prepare", "prepared"}, call[d].stmt \in named
        PROVE  call[d].stmt \in named'
    <2>1. call[d].stmt \in Stmts
      BY <1>4, Types DEF CallsOwnSets, FindsSet
    <2> QED BY <1>1, <1>4, <2>1
  <1>5. PreparedIsNamed'
    BY <1>1, <1>4 DEF PreparedIsNamed
  <1> QED BY <1>2, <1>3, <1>5

\* The set that a call under way works on.
LEMMA WorkIs ==
  ASSUME SessionInv, NEW c \in Clients, call[c].at \in Opening \cup Reading
  PROVE  /\ call[c].set \in Sets /\ call[c].op \in {"query", "execute", "next"}
         /\ set[call[c].set] \in SetType /\ call[c] \in CallType /\ conn \in ConnType
         /\ FindsSet(c)
         /\ set[call[c].set].life = (IF call[c].op = "next" THEN "live" ELSE "local")
         /\ call[c].op # "next" \/ call[c].at # "next" => ~set[call[c].set].ended
         /\ ~set[call[c].set].ended => SetReads(call[c].set) /\ conn.busy
         /\ conn.link # "none" /\ \A d \in Clients : call[d].op # "disconnect"
  <1> USE DEF SessionInv
  <1> DEFINE s == call[c].set
  <1>1. /\ FindsSet(c) /\ call[c].op \in {"query", "execute", "next"} /\ s # None
        /\ conn \in ConnType /\ call[c] \in CallType
    BY Types DEF CallsOwnSets, FindsSet, Opening, Reading
  <1>2. s \in Sets /\ set[s] \in SetType
    BY <1>1, Types
  <1>3. /\ set[s].life = (IF call[c].op = "next" THEN "live" ELSE "local")
        /\ call[c].op # "next" \/ call[c].at # "next" => ~set[s].ended
    BY <1>1 DEF FindsSet
  <1>4. ~set[s].ended => SetReads(s) /\ conn.busy
    BY <1>2, <1>3, ReadersAre DEF SetReads, OneReader
  <1> QED BY <1>1, <1>2, <1>3, <1>4, CallIsHere

\* What the statements are keeps to what the session knows.
KeepsNames ==
  /\ named' = named
  /\ stmt' \in [Stmts -> {"none", "live", "prepared"}]
  /\ \A p \in Stmts : stmt'[p] = "prepared" =>
       stmt[p] = "prepared" \/ (conn.link = "ok" => p \in named)

\* The call of c gives its set this state, and goes on like this.
Leaves(c, k, new, next) ==
  /\ conn' = k /\ k \in ConnType /\ k.link = conn.link
  /\ set' = [set EXCEPT ![call[c].set] = new] /\ new \in SetType
  /\ call' = [call EXCEPT ![c] = next] /\ next \in CallType
  /\ (next = NoCall /\ new.life # "local") \/ next.set = call[c].set
  /\ FindsSet(c)'
  /\ KeepsNames

LEMMA LeavesTurn ==
  ASSUME SessionInv, NEW c \in Clients, call[c].at \in Opening \cup Reading,
         NEW k, NEW new, NEW next, Leaves(c, k, new, next)
  PROVE  /\ Turn(c, call[c].set) /\ call'[c] = next /\ set'[call[c].set] = new
         /\ \A t \in Sets \ {call[c].set} : set'[t] = set[t]
  <1> USE DEF SessionInv
  <1> DEFINE s == call[c].set
  <1>1. s \in Sets /\ s # None
    BY WorkIs, Types
  <1>2. /\ set' \in [Sets -> SetType] /\ set'[s] = new /\ \A t \in Sets \ {s} : set'[t] = set[t]
    BY <1>1, Types DEF Leaves
  <1>3. /\ call' \in [Clients -> CallType] /\ call'[c] = next
        /\ \A d \in Clients \ {c} : call'[d] = call[d]
    BY Types DEF Leaves
  <1>4. \A d \in Clients \ {c} : call[d].set # s
    BY <1>1 DEF CallsOwnSets
  <1>5. next.set \in {s, None}
    BY DEF Leaves, NoCall
  <1>6. conn' \in ConnType /\ stmt' \in [Stmts -> {"none", "live", "prepared"}]
        /\ named' \subseteq Stmts \cup {None}
    BY Types DEF Leaves, KeepsNames
  <1>7. new.life # "local" \/ next.set = s
    BY DEF Leaves
  <1> QED BY <1>1, <1>2, <1>3, <1>4, <1>5, <1>6, <1>7 DEF Turn, Leaves

\* The reader's call leaves a connection that is busy as long as it reads.
LEMMA ReaderLeaves ==
  ASSUME SessionInv, NEW c \in Clients, call[c].at \in Opening \cup Reading,
         NEW k, NEW new, NEW next, Leaves(c, k, new, next),
         SetReads(call[c].set), next.op \notin {"ping", "disconnect"},
         new.life # "none" /\ ~new.ended => k.busy,
         conn.link = "ok" /\ k.busy /\ k.kind # "prepare" => new.life # "none" /\ ~new.ended,
         next.at # "prepare",
         next.at = "prepared" => k.kind = "prepare" /\ (conn.link = "ok" => next.stmt \in named)
  PROVE  SessionInv'
  <1>0. PICK s : s = call[c].set
    OBVIOUS
  <1>1. /\ Turn(c, s) /\ call'[c] = next /\ set'[s] = new /\ s \in Sets
    BY <1>0, LeavesTurn, WorkIs
  <1>2. conn' = k /\ k.link = conn.link /\ KeepsNames
    BY DEF Leaves
  <1>3. SetReads(s)' <=> new.life # "none" /\ ~new.ended
    BY <1>1 DEF SetReads
  <1>4. call[c].set = s /\ SetReads(s)
    BY <1>0
  <1>5. ReaderTurn(c, s)
    BY <1>1, <1>2, <1>3, <1>4 DEF ReaderTurn, KeepsNames
  <1> QED BY <1>1, <1>5, ReaderKeepsSession

\* The call changes neither what is read nor who reads.
LEMMA QuietLeaves ==
  ASSUME SessionInv, NEW c \in Clients, call[c].at \in Opening \cup Reading,
         NEW new, NEW next, Leaves(c, conn, new, next), UNCHANGED stmt,
         new.life = set[call[c].set].life, new.ended = set[call[c].set].ended,
         next.op \notin {"ping", "disconnect"}, next.at \notin {"prepare", "prepared"}
  PROVE  SessionInv'
  <1>0. PICK s : s = call[c].set
    OBVIOUS
  <1>1. /\ Turn(c, s) /\ call'[c] = next /\ set'[s] = new /\ s \in Sets
        /\ \A t \in Sets \ {s} : set'[t] = set[t]
    BY <1>0, LeavesTurn, WorkIs
  <1>2. conn' = conn /\ named' = named /\ stmt' = stmt
    BY DEF Leaves, KeepsNames
  <1>3. call[c].op # "ping" /\ conn.link # "none" /\ \A d \in Clients : call[d].op # "disconnect"
    BY WorkIs
  <1>4. QuietTurn(c, s)
    BY <1>0, <1>1, <1>2, <1>3 DEF QuietTurn
  <1> QED BY <1>1, <1>4, QuietKeepsSession

\* The call fails, and leaves at most the rest of a failed PREPARE behind.
LEMMA FailsSession ==
  ASSUME SessionInv, NEW c \in Clients, call[c].at \in Opening, NEW k \in ConnType, FailUnbuilt(c, k),
         k.link = conn.link, conn.link = "ok" /\ k.busy => k.kind = "prepare", KeepsNames
  PROVE  SessionInv'
  <1>1. SetReads(call[c].set)
    BY WorkIs DEF FindsSet, Opening
  <1>2. /\ NoCall.op = "none" /\ NoCall.at = "none" /\ NoCall.set = None
        /\ Absent.life = "none"
    BY DEF NoCall, Absent
  <1>3. call' = [call EXCEPT ![c] = NoCall] /\ call'[c] = NoCall
    BY Types DEF SessionInv, FailUnbuilt, Hangup
  <1>4. FindsSet(c)'
    BY <1>2, <1>3 DEF FindsSet, Opening, Reading
  <1>5. Leaves(c, k, Absent, NoCall)
    BY <1>2, <1>3, <1>4, FreshRecords DEF Leaves, FailUnbuilt
  <1> HIDE DEF KeepsNames, FailUnbuilt
  <1> QED BY <1>1, <1>2, <1>5, ReaderLeaves

Hops == {<<"prepare", "prepared">>, <<"prepared", "prepared">>, <<"mode", "first">>,
         <<"first", "drain open">>, <<"drain open", "drain open">>,
         <<"next", "drain end">>, <<"drain end", "drain end">>,
         <<"next", "drain error">>, <<"drain error", "drain error">>}

\* The call reads a result and is where it was or one await further.
LEMMA HopSession ==
  ASSUME SessionInv, NEW c \in Clients, NEW at, <<call[c].at, at>> \in Hops,
         call' = [call EXCEPT ![c].at = at], UNCHANGED <<set, stmt, named>>,
         conn' \in ConnType, conn'.link = conn.link, conn'.kind = conn.kind, conn'.busy = conn.busy,
         ~set[call[c].set].ended, set[call[c].set].ready = Null,
         at = "prepared" /\ conn.link = "ok" => call[c].stmt \in named
  PROVE  SessionInv'
  <1> DEFINE next == [call[c] EXCEPT !.at = at]
  <1>1. call[c].at \in Opening \cup Reading /\ at \in Points \ {"none", "prepare", "ping", "closing"}
        /\ (at \in Opening => call[c].at \in Opening) /\ (at \in Reading => call[c].at \in Reading)
        /\ (at = "prepared" => call[c].at \in {"prepare", "prepared"}) /\ at # "next"
    BY DEF Hops, Opening, Reading, Points
  <1>2. SetReads(call[c].set) /\ conn.busy /\ FindsSet(c) /\ call[c].set \in Sets /\ call[c] \in CallType
        /\ call[c].op \in {"query", "execute", "next"}
    BY <1>1, WorkIs
  <1>3. /\ next.op = call[c].op /\ next.at = at /\ next.set = call[c].set /\ next.stmt = call[c].stmt
        /\ next \in CallType
    BY <1>1, <1>2 DEF CallType
  <1>4. call' = [call EXCEPT ![c] = next] /\ call'[c] = next
    BY <1>2, Types DEF SessionInv
  <1> HIDE DEF next
  <1>5. FindsSet(c)'
    BY <1>1, <1>2, <1>3, <1>4 DEF FindsSet, Opening, Reading
  <1>6. set' = [set EXCEPT ![call[c].set] = set[call[c].set]] /\ set[call[c].set] \in SetType
    BY <1>2, Types DEF SessionInv
  <1>7. KeepsNames
    BY Types DEF KeepsNames, SessionInv
  <1>8. Leaves(c, conn', set[call[c].set], next)
    BY <1>3, <1>4, <1>5, <1>6, <1>7 DEF Leaves
  <1>9. at = "prepared" => conn.kind = "prepare"
    BY <1>1 DEF SessionInv, OneReader
  <1>10. next.op \notin {"ping", "disconnect"} /\ next.at # "prepare"
    BY <1>1, <1>2, <1>3
  <1>11. set[call[c].set].life # "none"
    BY <1>2 DEF SetReads
  <1> HIDE DEF KeepsNames
  <1>12. PICK k, new : k = conn' /\ new = set[call[c].set]
    OBVIOUS
  <1>13. Leaves(c, k, new, next)
    BY <1>8, <1>12
  <1>14. /\ new.life # "none" /\ ~new.ended /\ k.busy /\ k.kind = conn.kind
    BY <1>2, <1>11, <1>12
  <1> QED BY <1>1, <1>2, <1>3, <1>9, <1>10, <1>13, <1>14, ReaderLeaves

LEMMA ReturnPrepareSession ==
  ASSUME SessionInv, NEW c \in Clients, ReturnPrepare(c)
  PROVE  SessionInv'
  <1>1. /\ call[c].at = "prepare" /\ UNCHANGED <<stmt, named>> /\ conn.kind = "prepare"
        /\ ~set[call[c].set].ended /\ set[call[c].set].ready = Null /\ KeepsNames
    <2>1. call[c].at = "prepare" /\ UNCHANGED <<stmt, named>>
      BY DEF ReturnPrepare
    <2>2. conn.kind = "prepare" /\ KeepsNames
      BY <2>1, Types DEF SessionInv, OneReader, KeepsNames
    <2>3. ~set[call[c].set].ended /\ set[call[c].set].ready = Null
      BY <2>1, WorkIs DEF FindsSet, Opening
    <2> QED BY <2>1, <2>2, <2>3
  <1>2. PICK r \in Arrivals :
          IF r.kind = "command"
            THEN conn' = After(r) /\ call' = [call EXCEPT ![c].at = "prepared"] /\ UNCHANGED set
            ELSE FailUnbuilt(c, After(r))
    BY DEF ReturnPrepare, Goto
  <1>3. Arrives(r)
    BY ArrivalIs DEF SessionInv
  <1>4. CASE r.kind = "command"
    <2>1. conn.queue # <<>> /\ r = Head(conn.queue) /\ conn' = [conn EXCEPT !.queue = Tail(@)]
          /\ conn' \in ConnType
      BY <1>2, <1>3, <1>4, ResultsAreNoMarks DEF Arrives
    <2>2. conn'.link = conn.link /\ conn'.kind = conn.kind /\ conn'.busy = conn.busy
      BY <2>1, Types DEF SessionInv, ConnType
    <2>3. conn.link = "ok" => call[c].stmt \in named
      BY <1>1, <1>4, <2>1 DEF SessionInv, PreparedIsNamed
    <2>4. <<call[c].at, "prepared">> \in Hops
      BY <1>1 DEF Hops
    <2> QED BY <1>1, <1>2, <1>4, <2>1, <2>2, <2>3, <2>4, HopSession
  <1>5. CASE r.kind # "command"
    <2>1. FailUnbuilt(c, After(r))
      BY <1>2, <1>5
    <2>2. After(r) \in ConnType /\ After(r).link = conn.link /\ After(r).kind = "prepare"
      BY <1>1, <1>3 DEF Arrives
    <2>3. call[c].at \in Opening
      BY <1>1 DEF Opening
    <2> QED BY <1>1, <2>1, <2>2, <2>3, FailsSession
  <1> QED BY <1>4, <1>5

LEMMA ReturnPreparedSession ==
  ASSUME SessionInv, NEW c \in Clients, ReturnPrepared(c)
  PROVE  SessionInv'
  <1>1. /\ call[c].at = "prepared" /\ named' = named /\ conn.kind = "prepare"
        /\ ~set[call[c].set].ended /\ set[call[c].set].ready = Null
        /\ conn.link = "ok" => call[c].stmt \in named
        /\ call[c].stmt # None /\ call[c].op \in {"query", "execute"} /\ call[c].set \in Sets
        /\ call[c] \in CallType
    <2>1. call[c].at = "prepared" /\ named' = named
      BY DEF ReturnPrepared
    <2>2. conn.kind = "prepare" /\ (conn.link = "ok" => call[c].stmt \in named)
      BY <2>1 DEF SessionInv, OneReader, PreparedIsNamed
    <2>3. /\ ~set[call[c].set].ended /\ set[call[c].set].ready = Null /\ call[c].stmt # None
          /\ call[c].op \in {"query", "execute"} /\ call[c].set \in Sets /\ call[c] \in CallType
      BY <2>1, WorkIs DEF FindsSet, Opening
    <2> QED BY <2>1, <2>2, <2>3
  <1>2. PICK r \in Arrivals :
          IF r \notin {Null, Lost}
            THEN conn' = After(r) /\ UNCHANGED <<set, stmt, call>>
            ELSE /\ stmt' = [stmt EXCEPT ![call[c].stmt] = "prepared"]
                 /\ IF Accepts(After(r))
                      THEN /\ Issue(After(r), call[c].set, call[c].stmt)
                           /\ call' = [call EXCEPT ![c].at = "mode"]
                      ELSE FailUnbuilt(c, After(r))
    BY DEF ReturnPrepared, Goto
  <1>3. Arrives(r) /\ After(r) \in ConnType /\ After(r).link = conn.link /\ After(r).kind = "prepare"
    BY <1>1, ArrivalIs DEF SessionInv, Arrives
  <1>4. CASE r \notin {Null, Lost}
    <2>1. conn' = [conn EXCEPT !.queue = Tail(@)] /\ conn' \in ConnType /\ UNCHANGED <<set, stmt, call>>
      BY <1>2, <1>3, <1>4 DEF Arrives
    <2>2. conn'.link = conn.link /\ conn'.kind = conn.kind /\ conn'.busy = conn.busy
      BY <2>1, Types DEF SessionInv, ConnType
    <2>3. <<call[c].at, "prepared">> \in Hops
      BY <1>1 DEF Hops
    <2>4. call' = [call EXCEPT ![c].at = "prepared"]
      <3>1. call[c] = [call[c] EXCEPT !.at = "prepared"]
        BY <1>1 DEF CallType
      <3> QED BY <2>1, <3>1, Types DEF SessionInv
    <2> QED BY <1>1, <2>1, <2>2, <2>3, <2>4, HopSession
  <1>5. CASE r \in {Null, Lost}
    <2>1. KeepsNames
      BY <1>1, <1>2, <1>5, Types DEF SessionInv, KeepsNames
    <2>2. call[c].at \in Opening
      BY <1>1 DEF Opening
    <2>3. CASE ~Accepts(After(r))
      <3>1. FailUnbuilt(c, After(r))
        BY <1>2, <1>5, <2>3
      <3> QED BY <1>3, <2>1, <2>2, <3>1, FailsSession
    <2>4. CASE Accepts(After(r))
      <3> DEFINE next == [call[c] EXCEPT !.at = "mode"]
      <3>1. PICK a \in Answers :
              /\ conn' = [After(r) EXCEPT !.busy = TRUE, !.kind = "query", !.queue = Stream(call[c].set, a)]
              /\ set' = [set EXCEPT ![call[c].set] = [Absent EXCEPT !.life = "local", !.rows = a.rows,
                                                                   !.fails = (a.end = "fatal")]]
              /\ [Absent EXCEPT !.life = "local", !.rows = a.rows, !.fails = (a.end = "fatal")] \in SetType
              /\ conn' \in ConnType
        BY <1>1, <1>2, <1>3, <1>5, <2>4, Types, IssueIs DEF SessionInv
      <3>2. PICK new : new = [Absent EXCEPT !.life = "local", !.rows = a.rows, !.fails = (a.end = "fatal")]
        OBVIOUS
      <3>3. /\ new.life = "local" /\ new.ended = FALSE /\ new.seen = <<>> /\ new.told = "none"
            /\ new.ready = Null /\ new \in SetType /\ set' = [set EXCEPT ![call[c].set] = new]
        BY <3>1, <3>2 DEF Absent
      <3>4. /\ next.op = call[c].op /\ next.at = "mode" /\ next.set = call[c].set
            /\ next.stmt = call[c].stmt /\ next \in CallType
        BY <1>1 DEF CallType, Points
      <3>5. call' = [call EXCEPT ![c] = next] /\ call'[c] = next /\ set'[call[c].set] = new
        BY <1>1, <1>2, <1>5, <2>4, <3>3, Types DEF SessionInv
      <3> HIDE DEF next
      <3>6. FindsSet(c)'
        BY <1>1, <3>3, <3>4, <3>5, Types DEF FindsSet, Opening, Reading, SessionInv
      <3>7. PICK k : k = conn'
        OBVIOUS
      <3>8. k.link = conn.link /\ k.busy /\ k \in ConnType
        BY <1>3, <3>1, <3>7 DEF ConnType
      <3>9. Leaves(c, k, new, next)
        BY <2>1, <3>3, <3>4, <3>5, <3>6, <3>7, <3>8 DEF Leaves
      <3>10. SetReads(call[c].set) /\ next.op \notin {"ping", "disconnect"}
        BY <1>1, <2>2, <3>4, WorkIs
      <3> HIDE DEF KeepsNames
      <3> QED BY <2>2, <3>3, <3>4, <3>8, <3>9, <3>10, ReaderLeaves
    <2> QED BY <2>3, <2>4
  <1> QED BY <1>4, <1>5

LEMMA ReturnFlushedSession ==
  ASSUME SessionInv, NEW c \in Clients, ReturnFlushed(c)
  PROVE  SessionInv'
  <1>1. /\ call[c].at = "mode" /\ UNCHANGED <<stmt, named>> /\ KeepsNames
        /\ ~set[call[c].set].ended /\ set[call[c].set].ready = Null /\ conn \in ConnType
        /\ call[c].at \in Opening
    <2>1. call[c].at = "mode" /\ UNCHANGED <<stmt, named>> /\ call[c].at \in Opening
      BY DEF ReturnFlushed, Opening
    <2>2. KeepsNames
      BY <2>1, Types DEF SessionInv, KeepsNames
    <2>3. ~set[call[c].set].ended /\ set[call[c].set].ready = Null /\ conn \in ConnType
      BY <2>1, WorkIs DEF FindsSet
    <2> QED BY <2>1, <2>2, <2>3
  <1>2. CASE call' = [call EXCEPT ![c].at = "first"] /\ UNCHANGED <<conn, set>>
    <2>1. <<call[c].at, "first">> \in Hops
      BY <1>1 DEF Hops
    <2> QED BY <1>1, <1>2, <2>1, HopSession
  <1>3. CASE (conn.link # "ok" \/ ~conn.busy) /\ FailUnbuilt(c, conn)
    BY <1>1, <1>3, FailsSession
  <1> QED BY <1>2, <1>3 DEF ReturnFlushed, Goto

\* next() or execute() is done reading: k is what it leaves of the connection.
Ends(c, k, new) ==
  /\ k \in ConnType /\ k.link = conn.link
  /\ new \in SetType /\ new.life = set[call[c].set].life
  /\ ~new.ended => k.busy
  /\ conn.link = "ok" /\ k.busy /\ k.kind # "prepare" => ~new.ended

LEMMA FinishSession ==
  ASSUME SessionInv, NEW c \in Clients, call[c].at \in Opening \cup Reading,
         ~set[call[c].set].ended, NEW k, NEW new, NEW told \in {"end", "error"},
         Ends(c, k, new), Finish(c, k, new, told), KeepsNames
  PROVE  SessionInv'
  <1> DEFINE final == [new EXCEPT !.told = IF @ = "none" THEN told ELSE @]
             gone  == [final EXCEPT !.life = "none"]
  <1>1. /\ final \in SetType /\ gone \in SetType /\ gone.life = "none"
        /\ final.life = new.life /\ final.ended = new.ended
    BY DEF Ends, SetType
  <1>2. SetReads(call[c].set) /\ FindsSet(c) /\ call[c].op \in {"query", "execute", "next"}
        /\ set[call[c].set].life = (IF call[c].op = "next" THEN "live" ELSE "local")
    BY WorkIs
  <1>3. /\ NoCall.op = "none" /\ NoCall.at = "none" /\ NoCall.set = None /\ NoCall \in CallType
    BY FreshRecords DEF NoCall
  <1>4. call' = [call EXCEPT ![c] = NoCall] /\ call'[c] = NoCall
    BY Types DEF SessionInv, Finish, Hangup
  <1>5. FindsSet(c)'
    BY <1>3, <1>4 DEF FindsSet, Opening, Reading
  <1>6. CASE call[c].op = "next"
    <2>1. conn' = k /\ set' = [set EXCEPT ![call[c].set] = final]
      BY <1>6 DEF Finish
    <2> HIDE DEF final
    <2>2. final.life = "live"
      BY <1>1, <1>2, <1>6 DEF Ends
    <2>3. Leaves(c, k, final, NoCall)
      BY <1>1, <1>3, <1>4, <1>5, <2>1, <2>2 DEF Leaves, Ends
    <2> HIDE DEF KeepsNames
    <2> QED BY <1>1, <1>2, <1>3, <2>2, <2>3, ReaderLeaves DEF Ends
  <1>7. CASE call[c].op # "next"
    <2>1. conn' = Drained(k) /\ set' = [set EXCEPT ![call[c].set] = gone]
      BY <1>7 DEF Finish
    <2>2. Drained(k) \in ConnType /\ Drained(k).link = conn.link /\ (conn.link = "ok" => ~Drained(k).busy)
      BY DrainedIs DEF Ends
    <2> HIDE DEF gone
    <2>3. Leaves(c, Drained(k), gone, NoCall)
      BY <1>1, <1>3, <1>4, <1>5, <2>1, <2>2 DEF Leaves
    <2> HIDE DEF KeepsNames
    <2> QED BY <1>1, <1>2, <1>3, <2>2, <2>3, ReaderLeaves
  <1> QED BY <1>6, <1>7

LEMMA OpenedSession ==
  ASSUME SessionInv, NEW c \in Clients, call[c].at \in {"first", "drain open"},
         NEW k, NEW new, Ends(c, k, new), Opened(c, k, new), KeepsNames,
         new.told = "none"
  PROVE  SessionInv'
  <1>1. /\ call[c].at \in Opening \cup Reading /\ ~set[call[c].set].ended /\ FindsSet(c)
        /\ SetReads(call[c].set) /\ call[c].op \in {"query", "execute"} /\ call[c] \in CallType
        /\ set[call[c].set].life = "local" /\ call[c].set \in Sets
    BY WorkIs DEF FindsSet, Opening
  <1>2. CASE call[c].op = "query"
    <2> DEFINE open == [new EXCEPT !.life = "live"]
    <2>1. conn' = k /\ set' = [set EXCEPT ![call[c].set] = open] /\ call' = [call EXCEPT ![c] = NoCall]
      BY <1>2 DEF Opened, Hangup
    <2>2. open \in SetType /\ open.life = "live" /\ open.ended = new.ended
      BY DEF Ends, SetType
    <2>3. NoCall.op = "none" /\ NoCall.at = "none" /\ NoCall.set = None /\ NoCall \in CallType
      BY FreshRecords DEF NoCall
    <2>4. call'[c] = NoCall
      BY <2>1, Types DEF SessionInv
    <2>5. FindsSet(c)'
      BY <2>3, <2>4 DEF FindsSet, Opening, Reading
    <2> HIDE DEF open
    <2>6. Leaves(c, k, open, NoCall)
      BY <2>1, <2>2, <2>3, <2>5 DEF Leaves, Ends
    <2> HIDE DEF KeepsNames
    <2> QED BY <1>1, <2>2, <2>3, <2>6, ReaderLeaves DEF Ends
  <1>3. CASE call[c].op = "execute" /\ new.ended
    <2>1. Finish(c, k, new, "end")
      BY <1>3 DEF Opened
    <2> HIDE DEF KeepsNames
    <2> QED BY <1>1, <2>1, FinishSession
  <1>4. CASE call[c].op = "execute" /\ ~new.ended
    <2> DEFINE next == [call[c] EXCEPT !.at = "next"]
    <2>1. conn' = k /\ set' = [set EXCEPT ![call[c].set] = new] /\ call' = [call EXCEPT ![c] = next]
      BY <1>4 DEF Opened, Goto
    <2>2. /\ next.op = "execute" /\ next.at = "next" /\ next.set = call[c].set
          /\ next.stmt = call[c].stmt /\ next \in CallType
      BY <1>1, <1>4 DEF CallType, Points
    <2> HIDE DEF next
    <2>3. call'[c] = next /\ set'[call[c].set] = new
      BY <1>1, <2>1, Types DEF SessionInv
    <2>4. new.life = "local"
      BY <1>1 DEF Ends
    <2>5. FindsSet(c)'
      BY <1>1, <1>4, <2>2, <2>3, <2>4, Types DEF FindsSet, Opening, Reading, SessionInv
    <2>6. Leaves(c, k, new, next)
      BY <2>1, <2>2, <2>5 DEF Leaves, Ends
    <2> HIDE DEF KeepsNames
    <2> QED BY <1>1, <1>4, <2>2, <2>4, <2>6, ReaderLeaves DEF Ends
  <1> QED BY <1>1, <1>2, <1>3, <1>4

\* What a reader finds when it reads: its own call, and results of one of these kinds.
LEMMA ReadIs ==
  ASSUME SessionInv, NEW c \in Clients, call[c].at \in Opening \cup Reading,
         ~set[call[c].set].ended, NEW r \in Arrivals
  PROVE  /\ r = Null \/ r = Lost \/ (r \notin {Null, Lost} /\ r.kind \in {"row", "tuples", "command", "fatal"})
         /\ After(r) \in ConnType /\ After(r).link = conn.link /\ After(r).kind = conn.kind
         /\ r # Null => After(r).busy
         /\ r = Null => ~After(r).busy
         /\ r = Lost => conn.link # "ok"
  <1>1. Arrives(r) /\ conn.busy /\ conn \in ConnType
    BY ArrivalIs, WorkIs DEF SessionInv
  <1>2. CASE r = Null
    BY <1>1, <1>2, ResultsAreNoMarks DEF Arrives, ConnType
  <1>3. CASE r = Lost
    BY <1>1, <1>3, ResultsAreNoMarks DEF Arrives
  <1>4. CASE r \notin {Null, Lost}
    <2>1. After(r) = [conn EXCEPT !.queue = Tail(@)] /\ r.kind \in Kinds \ {"gone"} /\ After(r) \in ConnType
      BY <1>1, <1>4 DEF Arrives
    <2> QED BY <1>1, <1>4, <2>1 DEF Kinds, ConnType, Arrives
  <1> QED BY <1>2, <1>3, <1>4

LEMMA ReturnFirstSession ==
  ASSUME SessionInv, NEW c \in Clients, ReturnFirst(c)
  PROVE  SessionInv'
  <1>1. /\ call[c].at = "first" /\ UNCHANGED <<stmt, named>> /\ KeepsNames
        /\ ~set[call[c].set].ended /\ set[call[c].set].ready = Null
        /\ set[call[c].set] \in SetType /\ set[call[c].set].told = "none"
        /\ call[c].at \in Opening
    <2>1. call[c].at = "first" /\ UNCHANGED <<stmt, named>> /\ call[c].at \in Opening
      BY DEF ReturnFirst, Opening
    <2>2. KeepsNames
      BY <2>1, Types DEF SessionInv, KeepsNames
    <2> QED BY <2>1, <2>2, WorkIs DEF FindsSet
  <1>2. PICK old : old = set[call[c].set]
    OBVIOUS
  <1>3. PICK r \in Arrivals :
          CASE r = Null -> Opened(c, After(r), [old EXCEPT !.ended = TRUE])
            [] r.kind = "row" -> Opened(c, After(r), [old EXCEPT !.ready = r])
            [] r.kind \in {"tuples", "command"} ->
                 conn' = After(r) /\ call' = [call EXCEPT ![c].at = "drain open"] /\ UNCHANGED set
            [] r.kind \in {"lost", "fatal"} -> FailUnbuilt(c, Drained(After(r)))
    BY <1>2 DEF ReturnFirst, Goto
  <1>4. /\ r = Null \/ r = Lost \/ (r \notin {Null, Lost} /\ r.kind \in {"row", "tuples", "command", "fatal"})
        /\ After(r) \in ConnType /\ After(r).link = conn.link /\ After(r).kind = conn.kind
        /\ r # Null => After(r).busy
        /\ r = Null => ~After(r).busy
        /\ r = Lost => conn.link # "ok"
    BY <1>1, ReadIs
  <1>5. CASE r = Null
    <2>1. PICK new : new = [old EXCEPT !.ended = TRUE]
      OBVIOUS
    <2>2. Opened(c, After(r), new)
      BY <1>3, <1>5, <2>1, ResultsAreNoMarks
    <2>3. new.told = "none" /\ new.ended = TRUE /\ new \in SetType /\ new.life = old.life
      BY <1>1, <1>2, <2>1 DEF SetType
    <2>4. Ends(c, After(r), new)
      BY <1>2, <1>4, <1>5, <2>3 DEF Ends
    <2> HIDE DEF KeepsNames
    <2> QED BY <1>1, <2>2, <2>3, <2>4, OpenedSession
  <1>6. CASE r # Null /\ r.kind = "row"
    <2>1. PICK new : new = [old EXCEPT !.ready = r]
      OBVIOUS
    <2>2. Opened(c, After(r), new)
      BY <1>3, <1>6, <2>1
    <2>3. r \in Results
      BY <1>6, ArrivalIs, ResultsAreNoMarks DEF SessionInv, Arrives
    <2>4. new.told = "none" /\ ~new.ended /\ new \in SetType /\ new.life = old.life
      BY <1>1, <1>2, <2>1, <2>3 DEF SetType
    <2>5. Ends(c, After(r), new)
      BY <1>2, <1>4, <1>6, <2>4 DEF Ends
    <2> HIDE DEF KeepsNames
    <2> QED BY <1>1, <2>2, <2>4, <2>5, OpenedSession
  <1>7. CASE r # Null /\ r.kind \in {"tuples", "command"}
    <2>1. conn' = After(r) /\ call' = [call EXCEPT ![c].at = "drain open"] /\ UNCHANGED set
      BY <1>3, <1>7
    <2>2. <<call[c].at, "drain open">> \in Hops
      BY <1>1 DEF Hops
    <2>3. conn.busy = TRUE /\ conn'.busy = TRUE
      BY <1>1, <1>4, <1>7, <2>1, WorkIs DEF ConnType
    <2> QED BY <1>1, <1>4, <2>1, <2>2, <2>3, HopSession
  <1>8. CASE r # Null /\ r.kind \in {"lost", "fatal"}
    <2>1. FailUnbuilt(c, Drained(After(r)))
      BY <1>3, <1>8
    <2>2. /\ Drained(After(r)) \in ConnType /\ Drained(After(r)).link = conn.link
          /\ conn.link = "ok" => ~Drained(After(r)).busy
      BY <1>4, DrainedIs
    <2> HIDE DEF KeepsNames
    <2> QED BY <1>1, <2>1, <2>2, FailsSession
  <1> QED BY <1>4, <1>5, <1>6, <1>7, <1>8, ResultsAreNoMarks

\* A row is handed over: the call ends, or reads the next one.
LEMMA DeliverSession ==
  ASSUME SessionInv, NEW c \in Clients, call[c].at = "next", NEW new \in SetType, NEW r \in Results,
         Deliver(c, new, r), UNCHANGED <<stmt, named>>, conn' \in ConnType, conn'.link = conn.link,
         new.life = set[call[c].set].life, new.ended = set[call[c].set].ended,
         new.told = set[call[c].set].told,
         conn' = conn \/ (~new.ended /\ conn'.busy)
  PROVE  SessionInv'
  <1> DEFINE full == [new EXCEPT !.seen = Append(@, r)]
  <1>1. /\ full \in SetType /\ full.life = new.life /\ full.ended = new.ended /\ full.told = new.told
    <2>1. new.seen \in Seq(Results)
      BY DEF SetType
    <2>2. Append(new.seen, r) \in Seq(Results)
      BY <2>1, AppendProperties
    <2> QED BY <2>2 DEF SetType
  <1>2. /\ call[c].at \in Opening \cup Reading /\ FindsSet(c) /\ call[c].set \in Sets
        /\ call[c] \in CallType /\ call[c].op \in {"execute", "next"} /\ KeepsNames
    <2>1. call[c].at \in Opening \cup Reading
      BY DEF Reading
    <2>2. FindsSet(c) /\ call[c].set \in Sets /\ call[c] \in CallType /\ call[c].op \in {"execute", "next"}
      BY <2>1, WorkIs DEF FindsSet, Reading
    <2>3. KeepsNames
      BY Types DEF KeepsNames, SessionInv
    <2> QED BY <2>1, <2>2, <2>3
  <1> DEFINE next == IF call[c].op = "next" THEN NoCall ELSE call[c]
  <1>3. /\ set' = [set EXCEPT ![call[c].set] = full] /\ call' = [call EXCEPT ![c] = next]
        /\ call'[c] = next /\ set'[call[c].set] = full
    <2>1. set' = [set EXCEPT ![call[c].set] = full]
      BY DEF Deliver
    <2>2. set \in [Sets -> SetType] /\ call \in [Clients -> CallType]
      BY Types DEF SessionInv
    <2>3. call' = [call EXCEPT ![c] = next]
      <3>1. CASE call[c].op = "next"
        BY <3>1 DEF Deliver, Hangup
      <3>2. CASE call[c].op # "next"
        BY <2>2, <3>2 DEF Deliver
      <3> QED BY <3>1, <3>2
    <2> HIDE DEF full, next
    <2> QED BY <1>2, <2>1, <2>2, <2>3
  <1>4. /\ next \in CallType
        /\ (next = NoCall /\ call[c].op = "next") \/ (next = call[c] /\ call[c].op = "execute")
        /\ NoCall.op = "none" /\ NoCall.at = "none" /\ NoCall.set = None
    <2>1. NoCall \in CallType /\ NoCall.op = "none" /\ NoCall.at = "none" /\ NoCall.set = None
      BY FreshRecords DEF NoCall
    <2> QED BY <1>2, <2>1
  <1> HIDE DEF full, next
  <1>5. FindsSet(c)'
    <2>1. CASE next = NoCall
      BY <1>3, <1>4, <2>1 DEF FindsSet, Opening, Reading
    <2>2. CASE next = call[c] /\ call[c].op = "execute"
      <3>1. call'[c] = call[c] /\ set'[call[c].set] = full
        BY <1>3, <2>2
      <3> QED BY <1>1, <1>2, <2>2, <3>1 DEF FindsSet, Opening, Reading
    <2> QED BY <1>4, <2>1, <2>2
  <1>6. full.life # "local" \/ next.set = call[c].set
    BY <1>1, <1>2, <1>4 DEF FindsSet
  <1>7. next.op \notin {"ping", "disconnect"} /\ next.at \notin {"prepare", "prepared"}
    BY <1>2, <1>4
  <1>8. next = NoCall \/ next.set = call[c].set
    BY <1>4
  <1>9. CASE conn' = conn
    <2>1. Leaves(c, conn, full, next)
      BY <1>1, <1>2, <1>3, <1>4, <1>5, <1>6, <1>8, <1>9 DEF Leaves
    <2> QED BY <1>1, <1>2, <1>7, <2>1, QuietLeaves
  <1>10. CASE ~new.ended /\ conn'.busy
    <2>1. PICK k : k = conn'
      OBVIOUS
    <2>2. Leaves(c, k, full, next)
      BY <1>1, <1>2, <1>3, <1>4, <1>5, <1>6, <1>8, <2>1 DEF Leaves
    <2>3. SetReads(call[c].set)
      BY <1>2, <1>10, WorkIs
    <2>4. full.life # "none"
      BY <1>1, <2>3 DEF SetReads
    <2> HIDE DEF KeepsNames
    <2> QED BY <1>1, <1>2, <1>7, <1>10, <2>1, <2>2, <2>3, <2>4, ReaderLeaves
  <1> QED BY <1>9, <1>10

LEMMA ReturnNextSession ==
  ASSUME SessionInv, NEW c \in Clients, ReturnNext(c)
  PROVE  SessionInv'
  <1>1. /\ call[c].at = "next" /\ UNCHANGED <<stmt, named>> /\ KeepsNames
        /\ call[c].at \in Opening \cup Reading /\ FindsSet(c) /\ call[c].set \in Sets
        /\ set[call[c].set] \in SetType /\ conn \in ConnType /\ call[c].op \in {"execute", "next"}
    <2>1. call[c].at = "next" /\ UNCHANGED <<stmt, named>> /\ call[c].at \in Opening \cup Reading
      BY DEF ReturnNext, Reading
    <2>2. KeepsNames
      BY <2>1, Types DEF SessionInv, KeepsNames
    <2> QED BY <2>1, <2>2, WorkIs DEF FindsSet, Reading
  <1>2. PICK old : old = set[call[c].set]
    OBVIOUS
  <1>3. CASE old.ready # Null
    <2>1. PICK new : new = [old EXCEPT !.ready = Null]
      OBVIOUS
    <2>2. Deliver(c, new, old.ready) /\ conn' = conn
      BY <1>2, <1>3, <2>1 DEF ReturnNext
    <2>3. /\ new \in SetType /\ new.life = old.life /\ new.ended = old.ended /\ new.told = old.told
          /\ old.ready \in Results
      BY <1>1, <1>2, <1>3, <2>1 DEF SetType
    <2> HIDE DEF KeepsNames
    <2> QED BY <1>1, <1>2, <2>2, <2>3, DeliverSession
  <1>4. CASE old.ready = Null /\ old.ended
    <2> DEFINE final == [old EXCEPT !.told = IF @ = "none" THEN "end" ELSE @]
    <2>1. call[c].op = "next"
      BY <1>1, <1>2, <1>4, Types DEF FindsSet, SessionInv
    <2>2. /\ conn' = conn /\ set' = [set EXCEPT ![call[c].set] = final]
          /\ call' = [call EXCEPT ![c] = NoCall]
      BY <1>2, <1>4, <2>1 DEF ReturnNext, Finish, Hangup
    <2>3. final \in SetType /\ final.life = old.life /\ final.ended = old.ended /\ final.life = "live"
      BY <1>1, <1>2, <2>1, Types DEF SetType, FindsSet, SessionInv
    <2>4. NoCall.op = "none" /\ NoCall.at = "none" /\ NoCall.set = None /\ NoCall \in CallType
      BY FreshRecords DEF NoCall
    <2>5. call'[c] = NoCall
      BY <2>2, Types DEF SessionInv
    <2>6. FindsSet(c)'
      BY <2>4, <2>5 DEF FindsSet, Opening, Reading
    <2> HIDE DEF final
    <2>7. Leaves(c, conn, final, NoCall)
      BY <1>1, <2>2, <2>3, <2>4, <2>6 DEF Leaves
    <2> HIDE DEF KeepsNames
    <2> QED BY <1>1, <1>2, <2>3, <2>4, <2>7, QuietLeaves
  <1>5. CASE old.ready = Null /\ ~old.ended
    <2>1. PICK r \in Arrivals :
            CASE r = Lost -> Finish(c, After(r), old, "error")
              [] r = Null -> Finish(c, After(r), [old EXCEPT !.ended = TRUE], "end")
              [] r.kind = "row" -> conn' = After(r) /\ Deliver(c, old, r)
              [] r.kind \in {"tuples", "command"} ->
                   conn' = After(r) /\ call' = [call EXCEPT ![c].at = "drain end"] /\ UNCHANGED set
              [] r.kind = "fatal" ->
                   conn' = After(r) /\ call' = [call EXCEPT ![c].at = "drain error"] /\ UNCHANGED set
      BY <1>2, <1>5 DEF ReturnNext, Goto
    <2>2. /\ r = Null \/ r = Lost \/ (r \notin {Null, Lost} /\ r.kind \in {"row", "tuples", "command", "fatal"})
          /\ After(r) \in ConnType /\ After(r).link = conn.link /\ After(r).kind = conn.kind
          /\ r # Null => After(r).busy
          /\ r = Null => ~After(r).busy
          /\ r = Lost => conn.link # "ok"
      BY <1>1, <1>2, <1>5, ReadIs
    <2>3. CASE r = Lost
      <3>1. Finish(c, After(r), old, "error")
        BY <2>1, <2>3, ResultsAreNoMarks
      <3>2. Ends(c, After(r), old)
        BY <1>1, <1>2, <1>5, <2>2, <2>3, ResultsAreNoMarks DEF Ends
      <3> HIDE DEF KeepsNames
      <3> QED BY <1>1, <1>2, <1>5, <3>1, <3>2, FinishSession
    <2>4. CASE r = Null
      <3>1. PICK new : new = [old EXCEPT !.ended = TRUE]
        OBVIOUS
      <3>2. Finish(c, After(r), new, "end")
        BY <2>1, <2>4, <3>1, ResultsAreNoMarks
      <3>3. new \in SetType /\ new.life = old.life /\ new.ended = TRUE
        BY <1>1, <1>2, <3>1 DEF SetType
      <3>4. Ends(c, After(r), new)
        BY <1>2, <2>2, <2>4, <3>3 DEF Ends
      <3> HIDE DEF KeepsNames
      <3> QED BY <1>1, <1>2, <1>5, <3>2, <3>4, FinishSession
    <2>5. CASE r \notin {Null, Lost} /\ r.kind = "row"
      <3>1. conn' = After(r) /\ Deliver(c, old, r)
        BY <2>1, <2>5
      <3>2. r \in Results
        BY <2>5, ArrivalIs DEF SessionInv, Arrives
      <3> QED BY <1>1, <1>2, <1>5, <2>2, <2>5, <3>1, <3>2, DeliverSession
    <2>6. CASE r \notin {Null, Lost} /\ r.kind # "row"
      <3>1. PICK at \in {"drain end", "drain error"} :
              conn' = After(r) /\ call' = [call EXCEPT ![c].at = at] /\ UNCHANGED set
        BY <2>1, <2>2, <2>6
      <3>2. <<call[c].at, at>> \in Hops
        BY <1>1, <3>1 DEF Hops
      <3>3. conn.busy = TRUE /\ conn'.busy = TRUE
        BY <1>1, <1>2, <1>5, <2>2, <2>6, <3>1, WorkIs DEF ConnType
      <3> QED BY <1>1, <1>2, <1>5, <2>2, <3>1, <3>2, <3>3, HopSession
    <2> QED BY <2>2, <2>3, <2>4, <2>5, <2>6
  <1> QED BY <1>3, <1>4, <1>5

LEMMA DrainSession ==
  ASSUME SessionInv, NEW c \in Clients, Drain(c)
  PROVE  SessionInv'
  <1>1. /\ call[c].at \in {"drain open", "drain end", "drain error"}
        /\ UNCHANGED <<stmt, named>> /\ KeepsNames
        /\ call[c].at \in Opening \cup Reading /\ FindsSet(c)
        /\ set[call[c].set] \in SetType /\ ~set[call[c].set].ended /\ set[call[c].set].ready = Null
    <2>1. /\ call[c].at \in {"drain open", "drain end", "drain error"}
          /\ UNCHANGED <<stmt, named>> /\ call[c].at \in Opening \cup Reading
      BY DEF Drain, Opening, Reading
    <2>2. KeepsNames
      BY <2>1, Types DEF SessionInv, KeepsNames
    <2>3. /\ FindsSet(c) /\ set[call[c].set] \in SetType /\ ~set[call[c].set].ended
          /\ call[c].set # None
      BY <2>1, WorkIs, Types DEF SessionInv
    <2>4. set[call[c].set].ready = Null
      BY <2>1, <2>3 DEF FindsSet
    <2> QED BY <2>1, <2>2, <2>3, <2>4
  <1>2. PICK new : new = [set[call[c].set] EXCEPT !.ended = TRUE]
    OBVIOUS
  <1>3. PICK r \in Arrivals :
          \/ r \notin {Null, Lost} /\ conn' = After(r) /\ UNCHANGED <<set, call>>
          \/ /\ r \in {Null, Lost}
             /\ CASE call[c].at = "drain open" -> Opened(c, After(r), new)
                  [] call[c].at = "drain end" -> Finish(c, After(r), new, "end")
                  [] call[c].at = "drain error" -> Finish(c, After(r), new, "error")
    BY <1>2 DEF Drain, DrainStops, Ending
  <1>4. /\ After(r) \in ConnType /\ After(r).link = conn.link /\ After(r).kind = conn.kind
        /\ r # Null => After(r).busy
        /\ r = Null => ~After(r).busy
        /\ r = Lost => conn.link # "ok"
    BY <1>1, ReadIs
  <1>5. CASE r \notin {Null, Lost} /\ conn' = After(r) /\ UNCHANGED <<set, call>>
    <2>1. conn.busy = TRUE /\ conn'.busy = TRUE
      BY <1>1, <1>4, <1>5, WorkIs DEF ConnType
    <2>2. <<call[c].at, call[c].at>> \in Hops
      BY <1>1 DEF Hops
    <2>3. call' = [call EXCEPT ![c].at = call[c].at]
      <3>1. call[c] = [call[c] EXCEPT !.at = call[c].at]
        BY <1>1, WorkIs DEF CallType
      <3> QED BY <1>5, <3>1, Types DEF SessionInv
    <2>4. PICK at : at = call[c].at
      OBVIOUS
    <2>5. at # "prepared" /\ call' = [call EXCEPT ![c].at = at] /\ <<call[c].at, at>> \in Hops
      BY <1>1, <2>2, <2>3, <2>4
    <2> QED BY <1>1, <1>4, <1>5, <2>1, <2>5, HopSession
  <1>6. CASE /\ r \in {Null, Lost}
             /\ CASE call[c].at = "drain open" -> Opened(c, After(r), new)
                  [] call[c].at = "drain end" -> Finish(c, After(r), new, "end")
                  [] call[c].at = "drain error" -> Finish(c, After(r), new, "error")
    <2>1. new \in SetType /\ new.life = set[call[c].set].life /\ new.ended /\ new.told = set[call[c].set].told
      BY <1>1, <1>2 DEF SetType
    <2>2. Ends(c, After(r), new)
      BY <1>4, <1>6, <2>1, ResultsAreNoMarks DEF Ends
    <2>3. CASE call[c].at = "drain open"
      <3>1. Opened(c, After(r), new)
        BY <1>6, <2>3
      <3>2. new.told = "none"
        BY <1>1, <2>1, <2>3 DEF FindsSet, Opening
      <3> HIDE DEF KeepsNames
      <3> QED BY <1>1, <2>2, <2>3, <3>1, <3>2, OpenedSession
    <2>4. CASE call[c].at # "drain open"
      <3>1. PICK told \in {"end", "error"} : Finish(c, After(r), new, told)
        BY <1>1, <1>6, <2>4
      <3> HIDE DEF KeepsNames
      <3> QED BY <1>1, <2>2, <3>1, FinishSession
    <2> QED BY <2>3, <2>4
  <1> QED BY <1>3, <1>5, <1>6

LEMMA SessionStep ==
  ASSUME SessionInv, Rules = {"sets", "session"}, [Next]_vars
  PROVE  SessionInv'
  <1>1. CASE UNCHANGED vars
    BY <1>1 DEF vars, SessionInv, TypeOK, CallsOwnSets, FindsSet, OneReader, Readers, Finished,
                AwayIsQuiet, Unused, PreparedIsNamed
  <1>2. ASSUME NEW c \in Clients,
               \/ \E op \in {"query", "execute"}, s \in Sets, p \in Stmts \cup {None} :
                    CallQuery(c, op, s, p) \/ CallPrepare(c, op, s, p)
               \/ \E s \in Sets : CallNext(c, s)
               \/ CallPing(c) \/ CallDisconnect(c)
               \/ Resume(c)
        PROVE  SessionInv'
    <2>1. ASSUME NEW op \in {"query", "execute"}, NEW s \in Sets, NEW p \in Stmts \cup {None},
                 CallQuery(c, op, s, p) \/ CallPrepare(c, op, s, p)
          PROVE  SessionInv'
      BY <2>1, CallQuerySession, CallPrepareSession
    <2>2. ASSUME NEW s \in Sets, CallNext(c, s) PROVE SessionInv'
      BY <2>2, CallNextSession
    <2>3. CASE CallPing(c) \/ CallDisconnect(c)
      BY <2>3, CallPingSession, DisconnectSession
    <2>4. CASE Resume(c)
      BY <2>4, ReturnPrepareSession, ReturnPreparedSession, ReturnFlushedSession, ReturnFirstSession,
         ReturnNextSession, DrainSession, ReturnPingSession, DisconnectSession DEF Resume
    <2> QED BY <1>2, <2>1, <2>2, <2>3, <2>4
  <1>3. ASSUME NEW s \in Sets, Destroy(s) PROVE SessionInv'
    BY <1>3, DestroySession
  <1>4. ASSUME NEW p \in Stmts, Prepare(p) \/ DropStatement(p) PROVE SessionInv'
    BY <1>4, StatementSession
  <1>5. CASE SyncRollback \/ Connect \/ LoseServer
    BY <1>5, LinkSession
  <1> QED BY <1>1, <1>2, <1>3, <1>4, <1>5 DEF Next

\* The believed state of the session, from there being one reader at most.
LEMMA OneReaderBelieved ==
  ASSUME SessionInv
  PROVE  SessionAsBelieved
  <1>1. Cardinality(Readers) <= 1
    <2>1. CASE Readers = {}
      BY <2>1, FS_EmptySet
    <2>2. CASE Readers # {}
      <3>1. PICK a : a \in Readers
        BY <2>2
      <3>2. Readers = {a}
        BY <3>1 DEF SessionInv, OneReader
      <3> QED BY <3>2, FS_Singleton
    <2> QED BY <2>1, <2>2
  <1> QED BY <1>1 DEF SessionInv, OneReader, PreparedIsNamed, SessionAsBelieved

\* As long as finished result sets are destroyed before the next command and the
\* session is not changed under its users, every variable keeps its type: a local
\* result set is that of one call under way.
THEOREM PgTypeCorrect ==
  ASSUME Rules = {"sets", "session"}
  PROVE  Spec => []TypeOK
  <1>1. Init => SessionInv
    BY InitEstablishes
  <1>2. SessionInv /\ [Next]_vars => SessionInv'
    BY SessionStep
  <1>3. SessionInv => TypeOK
    BY DEF SessionInv
  <1> QED BY <1>1, <1>2, <1>3, PTL DEF Spec

\* Under the same rules the driver's objects and the session agree: one reader at
\* most is attached to the stream of results (getResult, postgres.cpp:625-640, reads
\* for whoever asks), a command in progress has one unless it was a PREPARE that
\* failed, and PREPARE is skipped only for statements the session knows.
THEOREM SessionIsAsBelieved ==
  ASSUME Rules = {"sets", "session"}
  PROVE  Spec => []SessionAsBelieved
  <1>1. Init => SessionInv
    BY InitEstablishes
  <1>2. SessionInv /\ [Next]_vars => SessionInv'
    BY SessionStep
  <1>3. SessionInv => SessionAsBelieved
    BY OneReaderBelieved
  <1> QED BY <1>1, <1>2, <1>3, PTL DEF Spec

-----------------------------------------------------------------------------
(* The rows of each set are its own.                                       *)

\* The next result for set s, of which n have arrived.
LEMMA RestHead ==
  ASSUME TypeOK, NEW s \in Sets, NEW n \in Nat, Rest(s, n), NEW r, r = Head(conn.queue)
  PROVE  /\ conn.queue # <<>>
         /\ r.kind = "row" => r = Result("row", s, n + 1) /\ n + 1 <= set[s].rows
         /\ r.kind \in {"tuples", "command"} => n = set[s].rows /\ ~set[s].fails
  <1> DEFINE left == set[s].rows - n
  <1>1. /\ conn.queue \in Seq(Results) /\ conn.queue # <<>> /\ set[s].rows \in Nat
        /\ n <= set[s].rows /\ left \in Nat /\ left + n = set[s].rows
    BY Types, RowBound DEF Rest, ConnType, SetType
  <1>2. Len(conn.queue) \in Nat /\ Len(conn.queue) >= 1 /\ r = conn.queue[1]
    BY <1>1
  <1>3. /\ 1 <= left => r = Result("row", s, n + 1) \/ r.kind \in {"fatal", "gone"}
        /\ 1 = left + 1 => r.kind # "row" /\ (r.kind \in {"tuples", "command"} => ~set[s].fails)
    BY <1>2 DEF Rest
  <1>4. Result("row", s, n + 1).kind = "row"
    BY DEF Result
  <1> HIDE DEF left
  <1>5. left = 0 \/ 1 <= left
    BY <1>1
  <1> QED BY <1>1, <1>3, <1>4, <1>5

\* A row has been read: what is unread is the rest after it.
LEMMA RestTail ==
  ASSUME TypeOK, NEW s \in Sets, NEW n \in Nat, Rest(s, n), Head(conn.queue).kind = "row",
         conn'.queue = Tail(conn.queue),
         set'[s].rows = set[s].rows, set'[s].fails = set[s].fails
  PROVE  Rest(s, n + 1)'
  <1> DEFINE q == conn.queue
             left == set[s].rows - n
  <1>1. /\ q \in Seq(Results) /\ q # <<>> /\ set[s].rows \in Nat /\ left \in Nat
        /\ n + 1 <= set[s].rows /\ set[s].rows - (n + 1) = left - 1 /\ left >= 1
    <2>1. q \in Seq(Results) /\ set[s].rows \in Nat
      BY Types, RowBound DEF ConnType, SetType
    <2>2. q # <<>> /\ n + 1 <= set[s].rows
      BY RestHead
    <2> QED BY <2>1, <2>2
  <1>2. /\ Len(q) \in Nat /\ Len(q) >= 1 /\ Len(Tail(q)) = Len(q) - 1 /\ Tail(q) \in Seq(Results)
        /\ \A i \in 1..Len(Tail(q)) : Tail(q)[i] = q[i + 1] /\ i + 1 \in 1..Len(q)
        /\ q[1] = Head(q)
    BY <1>1
  <1>3. \A i \in 1..Len(q) :
          /\ i <= left => q[i] = Result("row", s, n + i) \/ q[i].kind \in {"fatal", "gone"}
          /\ i = left + 1 => q[i].kind # "row" /\ (q[i].kind \in {"tuples", "command"} => ~set[s].fails)
    BY DEF Rest
  <1>4. Len(q) <= left => q[Len(q)].kind \in {"fatal", "gone"}
    BY DEF Rest
  <1>5. Len(q) >= 2
    <2>1. Len(q) = 1 => q[1].kind \in {"fatal", "gone"}
      BY <1>1, <1>4
    <2>2. q[1].kind = "row"
      BY <1>2
    <2>3. Len(q) # 1
      BY <2>1, <2>2
    <2>4. Len(q) \in Nat /\ Len(q) >= 1
      BY <1>2
    <2>5. \A l \in Nat : l >= 1 /\ l # 1 => l >= 2
      OBVIOUS
    <2> QED BY ONLY <2>3, <2>4, <2>5
  <1>6. PICK p, m : p = Tail(q) /\ m = left - 1
    OBVIOUS
  <1> HIDE DEF q, left
  <1>7. /\ Len(p) = Len(q) - 1 /\ p # <<>>
        /\ \A i \in 1..Len(p) :
             /\ i <= m => p[i] = Result("row", s, (n + 1) + i) \/ p[i].kind \in {"fatal", "gone"}
             /\ i = m + 1 => p[i].kind # "row" /\ (p[i].kind \in {"tuples", "command"} => ~set[s].fails)
        /\ Len(p) <= m => p[Len(p)].kind \in {"fatal", "gone"}
    <2>1. Len(p) = Len(q) - 1 /\ p # <<>>
      <3>1. Len(p) = Len(q) - 1 /\ Len(p) >= 1
        BY <1>2, <1>5, <1>6
      <3>2. Len(<<>>) = 0
        OBVIOUS
      <3> QED BY <3>1, <3>2
    <2>2. ASSUME NEW i \in 1..Len(p)
          PROVE  /\ i <= m => p[i] = Result("row", s, (n + 1) + i) \/ p[i].kind \in {"fatal", "gone"}
                 /\ i = m + 1 => p[i].kind # "row" /\ (p[i].kind \in {"tuples", "command"} => ~set[s].fails)
      <3>1. p[i] = q[i + 1] /\ i + 1 \in 1..Len(q) /\ i \in Nat
        BY <1>2, <1>6
      <3>2. (i <= m => i + 1 <= left) /\ (i = m + 1 => i + 1 = left + 1) /\ n + (i + 1) = (n + 1) + i
        BY <1>1, <1>6, <3>1
      <3>3. q[i + 1] = Result("row", s, n + (i + 1)) => q[i + 1] = Result("row", s, (n + 1) + i)
        BY <3>2
      <3> QED BY <1>3, <3>1, <3>2, <3>3
    <2>3. Len(p) <= m => p[Len(p)].kind \in {"fatal", "gone"}
      <3>1. Len(p) \in 1..Len(p) /\ p[Len(p)] = q[Len(q)]
        <4>1. Len(p) \in 1..Len(p) /\ Len(p) + 1 = Len(q)
          BY <1>2, <1>5, <2>1
        <4> QED BY <1>2, <1>6, <4>1
      <3>2. Len(p) <= m => Len(q) <= left
        BY <1>1, <1>2, <1>6, <2>1
      <3> QED BY <1>4, <3>1, <3>2
    <2> QED BY <2>1, <2>2, <2>3
  <1>8. conn'.queue = p
    BY <1>6 DEF q
  <1>9. set'[s].rows - (n + 1) = m /\ n + 1 <= set'[s].rows
    BY <1>1, <1>6
  <1> QED BY <1>7, <1>8, <1>9 DEF Rest

\* The server was lost: a part of the rest, and an error.
LEMMA RestLost ==
  ASSUME TypeOK, NEW s \in Sets, NEW n \in Nat, Rest(s, n), set' = set,
         NEW m \in 0..Len(conn.queue), NEW last \in {"fatal", "gone"}, LostAfter(m, last, conn'.queue)
  PROVE  Rest(s, n)'
  <1> DEFINE left == set[s].rows - n
  <1>1. /\ conn.queue \in Seq(Results) /\ Len(conn.queue) \in Nat /\ left \in Nat /\ n <= set[s].rows
        /\ m \in Nat /\ m <= Len(conn.queue)
    BY Types, RowBound DEF ConnType, SetType, Rest
  <1>2. PICK p : p = conn'.queue
    OBVIOUS
  <1>3. /\ p \in Seq(Results) /\ Len(p) = m + 1 /\ p[m + 1].kind = last
        /\ \A i \in 1..m : p[i] = conn.queue[i] /\ i \in 1..Len(conn.queue)
    BY <1>1, <1>2 DEF LostAfter, Result
  <1>4. \A i \in 1..Len(conn.queue) :
          /\ i <= left => conn.queue[i] = Result("row", s, n + i) \/ conn.queue[i].kind \in {"fatal", "gone"}
          /\ i = left + 1 => conn.queue[i].kind # "row"
                             /\ (conn.queue[i].kind \in {"tuples", "command"} => ~set[s].fails)
    BY DEF Rest
  <1> HIDE DEF left
  <1>5. ASSUME NEW i \in 1..Len(p)
        PROVE  /\ i <= left => p[i] = Result("row", s, n + i) \/ p[i].kind \in {"fatal", "gone"}
               /\ i = left + 1 => p[i].kind # "row" /\ (p[i].kind \in {"tuples", "command"} => ~set[s].fails)
    <2>1. CASE i = m + 1
      BY <1>3, <2>1
    <2>2. CASE i # m + 1
      <3>1. i \in 1..m
        BY <1>1, <1>3, <2>2
      <3> QED BY <1>3, <1>4, <3>1
    <2> QED BY <2>1, <2>2
  <1>6. p # <<>> /\ p[Len(p)].kind \in {"fatal", "gone"}
    BY <1>1, <1>3
  <1>7. set'[s].rows - n = left /\ n <= set'[s].rows /\ set'[s].fails = set[s].fails
    BY <1>1 DEF left
  <1> QED BY <1>2, <1>5, <1>6, <1>7 DEF Rest

\* A step that touches the call of c (or nobody) and set s (or none) alone.
Touches(c, s) ==
  /\ \A d \in Clients \ {c} : call'[d] = call[d] /\ (call[d].set # None => call[d].set # s)
  /\ \A t \in Sets \ {s} : set'[t] = set[t]
  /\ c \in Clients => call[c].set \in {s, None}

\* The others' rows stay theirs when what is unread stays, or they do not read.
LEMMA OthersFollow ==
  ASSUME SessionInv, RowsFollow, NEW c, NEW s, Touches(c, s),
         conn'.queue = conn.queue \/ \A t \in Sets \ {s} : ~SetReads(t)
  PROVE  /\ \A t \in Sets \ {s} : SetFollows(t)'
         /\ \A d \in Clients \ {c} : CallFollows(d)'
  <1>1. ASSUME NEW t \in Sets \ {s} PROVE SetFollows(t)'
    <2>1. GaveOwn(t, set[t]) /\ (Streaming(t) => Rest(t, Arrived(set[t]))) /\ set'[t] = set[t]
      BY DEF RowsFollow, SetFollows, Touches
    <2>2. GaveOwn(t, set[t])'
      BY <2>1 DEF GaveOwn
    <2>3. ASSUME Streaming(t)' PROVE Rest(t, Arrived(set[t]))'
      <3>1. SetReads(t)
        BY <2>1, <2>3 DEF Streaming, SetReads
      <3>2. conn'.queue = conn.queue
        BY <3>1
      <3>3. Streaming(t)
        <4>1. t # None
          BY Types DEF SessionInv
        <4>2. ASSUME NEW d \in Clients, call[d].set = t PROVE call[d].at \in {"mode", "first", "next"}
          <5>1. d # c
            BY <4>1, <4>2 DEF Touches
          <5>2. call'[d] = call[d]
            BY <5>1 DEF Touches
          <5> QED BY <2>3, <4>2, <5>2 DEF Streaming
        <4> QED BY <3>1, <4>2 DEF Streaming, SetReads
      <3>4. PICK n : n = Arrived(set[t])
        OBVIOUS
      <3>5. Arrived(set[t])' = n
        BY <2>1, <3>4 DEF Arrived
      <3>6. Rest(t, n)
        BY <2>1, <3>3, <3>4
      <3>7. Rest(t, n)'
        BY <2>1, <3>2, <3>6 DEF Rest
      <3> QED BY <3>5, <3>7 DEF Rest
    <2> QED BY <2>2, <2>3 DEF SetFollows
  <1>2. ASSUME NEW d \in Clients \ {c} PROVE CallFollows(d)'
    <2>1. call'[d] = call[d] /\ CallFollows(d)
      BY DEF Touches, RowsFollow
    <2>2. ASSUME call[d].at \in {"drain open", "drain end"} PROVE set'[call[d].set] = set[call[d].set]
      <3>1. call[d].at \in Opening \cup Reading
        BY <2>2 DEF Opening, Reading
      <3>2. call[d].set \in Sets /\ call[d].set # None
        BY <3>1, WorkIs, Types DEF SessionInv
      <3> QED BY <3>2 DEF Touches
    <2> QED BY <2>1, <2>2 DEF CallFollows
  <1> QED BY <1>1, <1>2

\* Set s is given this state, and c is at this point of its call.
LEMMA OwnFollows ==
  ASSUME SessionInv, RowsFollow, NEW c \in Clients, NEW s \in Sets, Touches(c, s),
         conn'.queue = conn.queue \/ \A t \in Sets \ {s} : ~SetReads(t),
         NEW new, set'[s] = new, GaveOwn(s, new),
         Streaming(s)' => Rest(s, Arrived(new))',
         call'[c].at \in {"drain open", "drain end"} =>
           call'[c].set = s /\ ~new.fails /\ Len(new.seen) = new.rows
  PROVE  RowsFollow'
  <1>1. /\ \A t \in Sets \ {s} : SetFollows(t)'
        /\ \A d \in Clients \ {c} : CallFollows(d)'
    BY OthersFollow
  <1>2. SetFollows(s)'
    <2>1. GaveOwn(s, set[s])'
      BY DEF GaveOwn
    <2>2. Arrived(set[s])' = Arrived(new)
      BY DEF Arrived
    <2>3. PICK n : n = Arrived(new)
      OBVIOUS
    <2>4. Streaming(s)' => Rest(s, n)'
      BY <2>3 DEF Rest
    <2>5. Rest(s, n)' => Rest(s, Arrived(set[s]))'
      BY <2>2, <2>3 DEF Rest
    <2> QED BY <2>1, <2>4, <2>5 DEF SetFollows
  <1>3. CallFollows(c)'
    BY DEF CallFollows
  <1> QED BY <1>1, <1>2, <1>3 DEF RowsFollow

\* Nothing has been given yet, and nothing is expected.
LEMMA FreshFollows ==
  ASSUME NEW s \in Sets, NEW new, new.seen = <<>>, new.told = "none", new.ready = Null, new.ended = FALSE
  PROVE  GaveOwn(s, new) /\ Arrived(new) = 0
  BY DEF GaveOwn, Arrived

LEMMA InitFollows == Init => RowsFollow
  <1> SUFFICES ASSUME Init PROVE RowsFollow
    OBVIOUS
  <1>1. ASSUME NEW s \in Sets PROVE SetFollows(s)
    <2>1. set[s].seen = <<>> /\ set[s].told = "none" /\ set[s].ready = Null /\ set[s].ended = FALSE
          /\ set[s].life = "none"
      BY DEF Init, Absent
    <2> QED BY <2>1, FreshFollows DEF SetFollows, Streaming
  <1>2. \A c \in Clients : CallFollows(c)
    BY DEF Init, NoCall, CallFollows
  <1> QED BY <1>1, <1>2 DEF RowsFollow

\* The call of c gives its set s this state, and goes on like this.
Gives(c, s, new, next) ==
  /\ s = call[c].set
  /\ set' = [set EXCEPT ![s] = new]
  /\ call' = [call EXCEPT ![c] = next]

LEMMA GivesTouches ==
  ASSUME SessionInv, NEW c \in Clients, call[c].at \in Opening \cup Reading,
         NEW s, NEW new, NEW next, Gives(c, s, new, next)
  PROVE  /\ s \in Sets /\ s = call[c].set /\ Touches(c, s) /\ set'[s] = new /\ call'[c] = next
         /\ ~set[s].ended => \A t \in Sets \ {s} : ~SetReads(t)
  <1>1. s = call[c].set /\ s \in Sets /\ s # None
    BY WorkIs, Types DEF Gives, SessionInv
  <1>2. set'[s] = new /\ \A t \in Sets \ {s} : set'[t] = set[t]
    BY <1>1, Types DEF Gives, SessionInv
  <1>3. call'[c] = next /\ \A d \in Clients \ {c} : call'[d] = call[d]
    BY Types DEF Gives, SessionInv
  <1>4. \A d \in Clients \ {c} : call[d].set # s
    BY <1>1 DEF SessionInv, CallsOwnSets
  <1>5. ASSUME ~set[s].ended PROVE \A t \in Sets \ {s} : ~SetReads(t)
    <2>1. s \in Readers
      BY <1>1, <1>5, WorkIs, ReadersAre
    <2> QED BY <2>1, ReadersAre DEF SessionInv, OneReader
  <1> QED BY <1>1, <1>2, <1>3, <1>4, <1>5 DEF Touches

LEMMA GivesFollow ==
  ASSUME SessionInv, RowsFollow, NEW c \in Clients, call[c].at \in Opening \cup Reading,
         NEW s, NEW new, NEW next, Gives(c, s, new, next),
         conn'.queue = conn.queue \/ ~set[s].ended,
         GaveOwn(s, new),
         /\ new.life # "none" /\ ~new.ended
         /\ next.set = s => next.at \in {"mode", "first", "next"}
         => Rest(s, Arrived(new))',
         next.at \in {"drain open", "drain end"} =>
           next.set = s /\ ~new.fails /\ Len(new.seen) = new.rows
  PROVE  RowsFollow'
  <1>1. /\ s \in Sets /\ Touches(c, s) /\ set'[s] = new /\ call'[c] = next
        /\ ~set[s].ended => \A t \in Sets \ {s} : ~SetReads(t)
    BY GivesTouches
  <1>2. Streaming(s)' => Rest(s, Arrived(new))'
    BY <1>1 DEF Streaming
  <1> QED BY <1>1, <1>2, OwnFollows

LEMMA FailsFollow ==
  ASSUME SessionInv, RowsFollow, NEW c \in Clients, call[c].at \in Opening, NEW k, FailUnbuilt(c, k)
  PROVE  RowsFollow'
  <1>1. PICK s : s = call[c].set
    OBVIOUS
  <1>2. Gives(c, s, Absent, NoCall)
    BY <1>1 DEF Gives, FailUnbuilt, Hangup
  <1>3. ~set[s].ended
    BY <1>1, WorkIs DEF FindsSet, Opening
  <1>4. /\ Absent.seen = <<>> /\ Absent.told = "none" /\ Absent.ready = Null /\ Absent.ended = FALSE
        /\ Absent.life = "none" /\ NoCall.at = "none"
    BY DEF Absent, NoCall
  <1>5. GaveOwn(s, Absent)
    BY <1>1, <1>4, WorkIs, FreshFollows
  <1>6. PICK new, next : new = Absent /\ next = NoCall
    OBVIOUS
  <1> QED BY <1>2, <1>3, <1>4, <1>5, <1>6, GivesFollow

LEMMA HopFollows ==
  ASSUME SessionInv, RowsFollow, NEW c \in Clients, NEW at, <<call[c].at, at>> \in Hops, at # "first",
         call' = [call EXCEPT ![c].at = at], UNCHANGED set, ~set[call[c].set].ended,
         at \in {"drain open", "drain end"} =>
           ~set[call[c].set].fails /\ Len(set[call[c].set].seen) = set[call[c].set].rows
  PROVE  RowsFollow'
  <1>1. /\ call[c].at \in Opening \cup Reading
        /\ at \in {"prepared", "drain open", "drain end", "drain error"}
    BY DEF Hops, Opening, Reading
  <1>2. PICK s, new, next : s = call[c].set /\ new = set[s] /\ next = [call[c] EXCEPT !.at = at]
    OBVIOUS
  <1>3. s \in Sets /\ call[c] \in CallType
    BY <1>1, <1>2, WorkIs
  <1>4. next.set = s /\ next.at = at
    BY <1>2, <1>3 DEF CallType
  <1>5. Gives(c, s, new, next)
    BY <1>2, <1>3, Types DEF Gives, SessionInv
  <1>6. GaveOwn(s, new)
    BY <1>2, <1>3 DEF RowsFollow, SetFollows
  <1> QED BY <1>1, <1>2, <1>4, <1>5, <1>6, GivesFollow

LEMMA FinishFollows ==
  ASSUME SessionInv, RowsFollow, NEW c \in Clients, call[c].at \in Opening \cup Reading,
         NEW k, NEW new \in SetType, NEW told \in {"end", "error"}, Finish(c, k, new, told),
         NEW s, s = call[c].set,
         conn'.queue = conn.queue \/ ~set[s].ended,
         GaveOwn(s, new), told = "end" => new.ended,
         ~new.ended => Rest(s, Arrived(new))'
  PROVE  RowsFollow'
  <1>1. PICK final : final = [new EXCEPT !.told = IF @ = "none" THEN told ELSE @]
    OBVIOUS
  <1>2. /\ final.seen = new.seen /\ final.ready = new.ready /\ final.rows = new.rows
        /\ final.fails = new.fails /\ final.ended = new.ended /\ final.life = new.life
        /\ final.told = (IF new.told = "none" THEN told ELSE new.told) /\ final \in SetType
    BY <1>1 DEF SetType
  <1>3. PICK gone : gone = [final EXCEPT !.life = "none"]
    OBVIOUS
  <1>4. /\ gone.seen = new.seen /\ gone.ready = new.ready /\ gone.rows = new.rows
        /\ gone.fails = new.fails /\ gone.ended = new.ended /\ gone.life = "none"
        /\ gone.told = final.told
    BY <1>2, <1>3 DEF SetType
  <1>5. GaveOwn(s, final) /\ GaveOwn(s, gone) /\ Arrived(final) = Arrived(new)
    BY <1>2, <1>4 DEF GaveOwn, Arrived
  <1>6. PICK next : next = NoCall
    OBVIOUS
  <1>7. next.at = "none"
    BY <1>6 DEF NoCall
  <1>8. CASE call[c].op = "next"
    <2>1. Gives(c, s, final, next)
      BY <1>1, <1>6, <1>8 DEF Gives, Finish, Hangup
    <2>2. ~final.ended => Rest(s, Arrived(final))'
      BY <1>2, <1>5 DEF Rest
    <2> QED BY <1>5, <1>7, <2>1, <2>2, GivesFollow
  <1>9. CASE call[c].op # "next"
    <2>1. Gives(c, s, gone, next)
      BY <1>1, <1>3, <1>6, <1>9 DEF Gives, Finish, Hangup
    <2> QED BY <1>4, <1>5, <1>7, <2>1, GivesFollow
  <1> QED BY <1>8, <1>9

LEMMA OpenedFollows ==
  ASSUME SessionInv, RowsFollow, NEW c \in Clients, call[c].at \in {"first", "drain open"},
         NEW k, NEW new \in SetType, Opened(c, k, new), NEW s, s = call[c].set,
         GaveOwn(s, new), ~new.ended => Rest(s, Arrived(new))'
  PROVE  RowsFollow'
  <1>1. call[c].at \in Opening \cup Reading /\ ~set[s].ended /\ call[c] \in CallType
    BY WorkIs DEF FindsSet, Opening
  <1>2. CASE call[c].op = "query"
    <2>1. PICK open, next : open = [new EXCEPT !.life = "live"] /\ next = NoCall
      OBVIOUS
    <2>2. Gives(c, s, open, next) /\ next.at = "none"
      BY <1>2, <2>1 DEF Gives, Opened, Hangup, NoCall
    <2>3. /\ open.seen = new.seen /\ open.ready = new.ready /\ open.rows = new.rows
          /\ open.fails = new.fails /\ open.ended = new.ended /\ open.told = new.told
      BY <2>1 DEF SetType
    <2>4. GaveOwn(s, open) /\ Arrived(open) = Arrived(new)
      BY <2>3 DEF GaveOwn, Arrived
    <2>5. ~open.ended => Rest(s, Arrived(open))'
      BY <2>3, <2>4 DEF Rest
    <2> QED BY <1>1, <2>2, <2>4, <2>5, GivesFollow
  <1>3. CASE call[c].op = "execute" /\ new.ended
    <2>1. Finish(c, k, new, "end")
      BY <1>3 DEF Opened
    <2> QED BY <1>1, <1>3, <2>1, FinishFollows
  <1>4. CASE call[c].op = "execute" /\ ~new.ended
    <2>1. PICK next : next = [call[c] EXCEPT !.at = "next"]
      OBVIOUS
    <2>2. Gives(c, s, new, next) /\ next.at = "next"
      BY <1>1, <1>4, <2>1 DEF Gives, Opened, Goto, CallType
    <2> QED BY <1>1, <1>4, <2>2, GivesFollow
  <1> QED BY <1>2, <1>3, <1>4 DEF Opened

\* What is unread while a call reads for its set.
LEMMA ReaderStreams ==
  ASSUME SessionInv, RowsFollow, NEW c \in Clients, call[c].at \in {"mode", "first", "next"},
         NEW s, s = call[c].set, ~set[s].ended
  PROVE  /\ Streaming(s) /\ GaveOwn(s, set[s]) /\ Rest(s, Arrived(set[s]))
         /\ Arrived(set[s]) \in Nat
  <1>1. /\ call[c].at \in Opening \cup Reading /\ s \in Sets /\ SetReads(s) /\ s # None
        /\ set[s] \in SetType
    BY WorkIs, Types DEF Opening, Reading, SessionInv
  <1>2. \A d \in Clients : call[d].set = s => d = c
    BY <1>1 DEF SessionInv, CallsOwnSets
  <1>3. Streaming(s)
    BY <1>1, <1>2 DEF Streaming, SetReads
  <1>4. Arrived(set[s]) \in Nat
    <2>1. set[s].seen \in Seq(Results)
      BY <1>1 DEF SetType
    <2>2. Len(set[s].seen) \in Nat
      BY <2>1
    <2>3. \A n \in Nat : n + 0 \in Nat /\ n + 1 \in Nat
      OBVIOUS
    <2>4. Arrived(set[s]) \in {Len(set[s].seen) + 0, Len(set[s].seen) + 1}
      BY DEF Arrived
    <2> QED BY <2>2, <2>3, <2>4
  <1> QED BY <1>1, <1>3, <1>4 DEF RowsFollow, SetFollows

\* A command has been sent for set s: all of it is unread.
LEMMA IssueFollows ==
  ASSUME NEW k \in ConnType, NEW s \in Sets, NEW p, set \in [Sets -> SetType], Issue(k, s, p)
  PROVE  \E new : /\ set' = [set EXCEPT ![s] = new] /\ GaveOwn(s, new) /\ Rest(s, Arrived(new))'
  <1>1. PICK a \in Answers :
           /\ conn' = [k EXCEPT !.busy = TRUE, !.kind = "query", !.queue = Stream(s, a)]
           /\ set' = [set EXCEPT ![s] = [Absent EXCEPT !.life = "local", !.rows = a.rows,
                                                       !.fails = (a.end = "fatal")]]
    BY DEF Issue, AnswersTo, Sent
  <1>2. PICK new : new = [Absent EXCEPT !.life = "local", !.rows = a.rows, !.fails = (a.end = "fatal")]
    OBVIOUS
  <1>3. /\ new.seen = <<>> /\ new.told = "none" /\ new.ready = Null /\ new.ended = FALSE
        /\ new.rows = a.rows /\ new.fails = (a.end = "fatal")
    BY <1>2 DEF Absent
  <1>4. GaveOwn(s, new) /\ Arrived(new) = 0
    BY <1>3, FreshFollows
  <1>5. PICK q : q = Stream(s, a)
    OBVIOUS
  <1>6. /\ q \in Seq(Results) /\ Len(q) \in Nat /\ Len(q) >= a.rows + 1
        /\ \A i \in 1..a.rows : q[i] = Result("row", s, i)
        /\ q[a.rows + 1].kind = a.end
        /\ a.rows \in Nat /\ a.end \in {"tuples", "command", "fatal"}
    <2>1. a.rows \in Nat /\ a.end \in {"tuples", "command", "fatal"}
      BY RowBound DEF Answers
    <2>2. /\ q \in Seq(Results) /\ Len(q) >= a.rows + 1
          /\ \A i \in 1..a.rows : q[i] = Result("row", s, i)
          /\ q[a.rows + 1] = Result(a.end, s, 0)
      BY <1>5, StreamIs
    <2> QED BY <2>1, <2>2 DEF Result
  <1>7. conn'.queue = q
    BY <1>1, <1>5 DEF ConnType
  <1>8. set' = [set EXCEPT ![s] = new] /\ set'[s] = new
    BY <1>1, <1>2
  <1>9. Rest(s, 0)'
    <2>1. q # <<>>
      <3>1. Len(<<>>) = 0
        OBVIOUS
      <3> QED BY <1>6, <3>1
    <2>2. \A i \in 1..Len(q) :
            /\ i <= a.rows - 0 => q[i] = Result("row", s, 0 + i)
            /\ i = (a.rows - 0) + 1 => q[i].kind # "row" /\ (q[i].kind \in {"tuples", "command"} => ~new.fails)
      <3>1. \A i \in 1..Len(q) : 0 + i = i /\ (i <= a.rows - 0 => i \in 1..a.rows)
        BY <1>6
      <3>2. (a.rows - 0) + 1 = a.rows + 1
        BY <1>6
      <3> QED BY <1>3, <1>6, <3>1, <3>2
    <2>3. ~(Len(q) <= a.rows - 0) /\ 0 <= a.rows
      BY <1>6
    <2> QED BY <1>3, <1>7, <1>8, <2>1, <2>2, <2>3 DEF Rest
  <1>10. Rest(s, Arrived(new))'
    BY <1>4, <1>9 DEF Rest
  <1> QED BY <1>4, <1>8, <1>10

LEMMA StartFollows ==
  ASSUME SessionInv, RowsFollow, Rules = {"sets", "session"}, NEW c \in Clients,
         NEW op \in {"query", "execute"}, NEW s \in Sets, NEW p \in Stmts \cup {None},
         CallQuery(c, op, s, p) \/ CallPrepare(c, op, s, p)
  PROVE  RowsFollow'
  <1>1. /\ call[c] = NoCall /\ conn.link = "ok" /\ ~conn.busy /\ set[s].life = "none"
        /\ call[c].set = None /\ \A d \in Clients : call[d].set # s
    BY Types DEF CallQuery, CallPrepare, MayStart, Idle, Accepts, NoCall, SessionInv, CallsOwnSets, FindsSet
  <1>2. \A t \in Sets : ~SetReads(t)
    BY <1>1, ReadersAre DEF SessionInv, OneReader
  <1>3. PICK at \in {"mode", "prepare"} :
          call' = [call EXCEPT ![c] = [op |-> op, at |-> at, set |-> s, stmt |-> p]]
    BY DEF CallQuery, CallPrepare, Start
  <1>4. /\ call'[c].at = at /\ call'[c].set = s /\ \A d \in Clients \ {c} : call'[d] = call[d]
    BY <1>3, Types DEF SessionInv
  <1>5. PICK new : set' = [set EXCEPT ![s] = new] /\ GaveOwn(s, new)
                   /\ (at = "mode" => Rest(s, Arrived(new))')
    <2>1. CASE CallQuery(c, op, s, p)
      <3>1. Issue(conn, s, p)
        BY <2>1 DEF CallQuery
      <3> QED BY <3>1, IssueFollows, Types DEF SessionInv
    <2>2. CASE CallPrepare(c, op, s, p)
      <3>1. PICK new : new = [Absent EXCEPT !.life = "local"]
        OBVIOUS
      <3>2. new.seen = <<>> /\ new.told = "none" /\ new.ready = Null /\ new.ended = FALSE
        BY <3>1 DEF Absent
      <3>3. call'[c].at = "prepare"
        BY <2>2, Types DEF CallPrepare, Start, SessionInv
      <3>4. set' = [set EXCEPT ![s] = new]
        BY <2>2, <3>1 DEF CallPrepare
      <3> QED BY <1>4, <3>2, <3>3, <3>4, FreshFollows
    <2> QED BY <2>1, <2>2
  <1>6. set'[s] = new /\ \A t \in Sets \ {s} : set'[t] = set[t]
    BY <1>5, Types DEF SessionInv
  <1>7. Touches(c, s)
    BY <1>1, <1>4, <1>6 DEF Touches
  <1>8. Streaming(s)' => Rest(s, Arrived(new))'
    BY <1>4, <1>5 DEF Streaming
  <1> QED BY <1>2, <1>4, <1>5, <1>6, <1>7, <1>8, OwnFollows

LEMMA CallNextFollows ==
  ASSUME SessionInv, RowsFollow, NEW c \in Clients, NEW s \in Sets, CallNext(c, s)
  PROVE  RowsFollow'
  <1>1. /\ call[c] = NoCall /\ call[c].set = None /\ set[s].life = "live"
        /\ (\A d \in Clients : call[d].set # s) /\ UNCHANGED <<conn, set>>
        /\ call' = [call EXCEPT ![c] = [op |-> "next", at |-> "next", set |-> s, stmt |-> None]]
    BY DEF CallNext, Start, Idle, InUse, NoCall
  <1>2. call'[c].at = "next" /\ \A d \in Clients \ {c} : call'[d] = call[d]
    BY <1>1, Types DEF SessionInv
  <1>3. Touches(c, s)
    BY <1>1, <1>2 DEF Touches
  <1>4. PICK new : new = set[s]
    OBVIOUS
  <1>5. set'[s] = new /\ GaveOwn(s, new)
    BY <1>1, <1>4 DEF RowsFollow, SetFollows
  <1>6. ASSUME Streaming(s)' PROVE Rest(s, Arrived(new))'
    <2>1. Streaming(s)
      BY <1>1, <1>6 DEF Streaming
    <2>2. Rest(s, Arrived(new))
      BY <1>4, <2>1 DEF RowsFollow, SetFollows
    <2> QED BY <1>1, <2>2 DEF Rest
  <1> QED BY <1>1, <1>2, <1>3, <1>5, <1>6, OwnFollows

LEMMA ReturnPrepareFollows ==
  ASSUME SessionInv, RowsFollow, NEW c \in Clients, ReturnPrepare(c)
  PROVE  RowsFollow'
  <1>1. call[c].at = "prepare" /\ call[c].at \in Opening
    BY DEF ReturnPrepare, Opening
  <1>2. ~set[call[c].set].ended
    BY <1>1, WorkIs
  <1>3. PICK r \in Arrivals :
          \/ call' = [call EXCEPT ![c].at = "prepared"] /\ UNCHANGED set
          \/ FailUnbuilt(c, After(r))
    BY DEF ReturnPrepare, Goto
  <1>4. CASE call' = [call EXCEPT ![c].at = "prepared"] /\ UNCHANGED set
    <2>1. <<call[c].at, "prepared">> \in Hops
      BY <1>1 DEF Hops
    <2> QED BY <1>2, <1>4, <2>1, HopFollows
  <1> QED BY <1>1, <1>3, <1>4, FailsFollow

LEMMA ReturnPreparedFollows ==
  ASSUME SessionInv, RowsFollow, NEW c \in Clients, ReturnPrepared(c)
  PROVE  RowsFollow'
  <1>1. call[c].at = "prepared" /\ call[c].at \in Opening
    BY DEF ReturnPrepared, Opening
  <1>2. ~set[call[c].set].ended /\ call[c] \in CallType /\ call[c].set \in Sets
    BY <1>1, WorkIs
  <1>3. PICK r \in Arrivals :
          \/ UNCHANGED <<set, call>>
          \/ Issue(After(r), call[c].set, call[c].stmt) /\ call' = [call EXCEPT ![c].at = "mode"]
          \/ FailUnbuilt(c, After(r))
    BY DEF ReturnPrepared, Goto
  <1>4. CASE UNCHANGED <<set, call>>
    <2>1. <<call[c].at, "prepared">> \in Hops
      BY <1>1 DEF Hops
    <2>2. call[c] = [call[c] EXCEPT !.at = "prepared"]
      BY <1>1, <1>2 DEF CallType
    <2>3. call' = [call EXCEPT ![c].at = "prepared"]
      BY <1>4, <2>2, Types DEF SessionInv
    <2> QED BY <1>2, <1>4, <2>1, <2>3, HopFollows
  <1>5. CASE Issue(After(r), call[c].set, call[c].stmt) /\ call' = [call EXCEPT ![c].at = "mode"]
    <2>1. After(r) \in ConnType
      BY ArrivalIs DEF SessionInv, Arrives
    <2>2. PICK new : set' = [set EXCEPT ![call[c].set] = new] /\ GaveOwn(call[c].set, new)
                     /\ \A s : s = call[c].set => Rest(s, Arrived(new))'
      <3>1. PICK s : s = call[c].set
        OBVIOUS
      <3>2. s \in Sets /\ Issue(After(r), s, call[c].stmt)
        BY <1>2, <1>5, <3>1
      <3>3. \E new : set' = [set EXCEPT ![s] = new] /\ GaveOwn(s, new) /\ Rest(s, Arrived(new))'
        BY <2>1, <3>2, Types, IssueFollows DEF SessionInv
      <3> QED BY <3>1, <3>3
    <2>3. PICK s, next : s = call[c].set /\ next = [call[c] EXCEPT !.at = "mode"]
      OBVIOUS
    <2>4. Gives(c, s, new, next) /\ next.at = "mode"
      BY <1>2, <1>5, <2>2, <2>3 DEF Gives, CallType
    <2>5. GaveOwn(s, new) /\ Rest(s, Arrived(new))'
      BY <2>2, <2>3
    <2> QED BY <1>1, <1>2, <2>3, <2>4, <2>5, GivesFollow
  <1>6. CASE FailUnbuilt(c, After(r))
    BY <1>1, <1>6, FailsFollow
  <1> QED BY <1>3, <1>4, <1>5, <1>6

LEMMA ReturnFlushedFollows ==
  ASSUME SessionInv, RowsFollow, NEW c \in Clients, ReturnFlushed(c)
  PROVE  RowsFollow'
  <1>1. call[c].at = "mode" /\ call[c].at \in Opening
    BY DEF ReturnFlushed, Opening
  <1>2. CASE call' = [call EXCEPT ![c].at = "first"] /\ UNCHANGED <<conn, set>>
    <2>1. PICK s, new, next : s = call[c].set /\ new = set[s] /\ next = [call[c] EXCEPT !.at = "first"]
      OBVIOUS
    <2>2. s \in Sets /\ ~set[s].ended /\ call[c] \in CallType
      BY <1>1, <2>1, WorkIs
    <2>3. Gives(c, s, new, next) /\ next.at = "first"
      BY <1>2, <2>1, <2>2, Types DEF Gives, CallType, SessionInv
    <2>4. GaveOwn(s, new) /\ Rest(s, Arrived(new))
      BY <1>1, <2>1, <2>2, ReaderStreams
    <2>5. Rest(s, Arrived(new))'
      BY <1>2, <2>4 DEF Rest
    <2> QED BY <1>1, <1>2, <2>2, <2>3, <2>4, <2>5, GivesFollow
  <1>3. CASE FailUnbuilt(c, conn)
    BY <1>1, <1>3, FailsFollow
  <1> QED BY <1>2, <1>3 DEF ReturnFlushed, Goto

LEMMA ReturnFirstFollows ==
  ASSUME SessionInv, RowsFollow, NEW c \in Clients, ReturnFirst(c)
  PROVE  RowsFollow'
  <1>1. PICK s, old : s = call[c].set /\ old = set[s]
    OBVIOUS
  <1>2. call[c].at = "first" /\ call[c].at \in Opening
    BY DEF ReturnFirst, Opening
  <1>3. /\ s \in Sets /\ ~old.ended /\ old \in SetType /\ old.ready = Null /\ old.seen = <<>>
        /\ old.told = "none" /\ set \in [Sets -> SetType]
    BY <1>1, <1>2, WorkIs, Types DEF SessionInv, FindsSet
  <1>4. PICK r \in Arrivals :
          CASE r = Null -> Opened(c, After(r), [old EXCEPT !.ended = TRUE])
            [] r.kind = "row" -> Opened(c, After(r), [old EXCEPT !.ready = r])
            [] r.kind \in {"tuples", "command"} ->
                 conn' = After(r) /\ call' = [call EXCEPT ![c].at = "drain open"] /\ UNCHANGED set
            [] r.kind \in {"lost", "fatal"} -> FailUnbuilt(c, Drained(After(r)))
    BY <1>1 DEF ReturnFirst, Goto
  <1>5. Arrived(old) = 0 /\ Rest(s, 0)
    <2>1. Arrived(old) = 0
      BY <1>3 DEF Arrived
    <2> QED BY <1>1, <1>2, <1>3, <2>1, ReaderStreams
  <1>6. conn.queue # <<>>
    BY <1>5 DEF Rest
  <1>7. r # Null /\ (r = Lost \/ (r = Head(conn.queue) /\ r \in Results /\ After(r) = [conn EXCEPT !.queue = Tail(@)]))
        /\ (r = Lost \/ r.kind \in {"row", "tuples", "command", "fatal"})
    <2>1. Arrives(r)
      BY ArrivalIs DEF SessionInv
    <2> QED BY <1>6, <2>1, ResultsAreNoMarks DEF Arrives, Kinds
  <1>8. CASE r.kind = "row"
    <2>1. PICK new : new = [old EXCEPT !.ready = r]
      OBVIOUS
    <2>2. Opened(c, After(r), new) /\ r # Lost
      BY <1>4, <1>7, <1>8, <2>1, ResultsAreNoMarks
    <2>3. r = Result("row", s, 0 + 1) /\ 0 + 1 = 1
      BY <1>3, <1>5, <1>7, <1>8, <2>2, RestHead DEF SessionInv
    <2>4. /\ new.seen = <<>> /\ new.ready = r /\ new.told = "none" /\ new.ended = FALSE
          /\ new.rows = old.rows /\ new.fails = old.fails /\ new \in SetType
      BY <1>3, <1>7, <2>1, <2>2 DEF SetType
    <2>5. r # Null /\ GaveOwn(s, new) /\ Arrived(new) = 1
      BY <1>7, <2>3, <2>4 DEF GaveOwn, Arrived
    <2>6. conn' = After(r) /\ set'[s].rows = new.rows /\ set'[s].fails = new.fails
      BY <1>1, <1>3, <2>2, <2>4 DEF Opened, SetType
    <2>7. Rest(s, 0 + 1)'
      <3>1. conn'.queue = Tail(conn.queue)
        BY <1>7, <2>2, <2>6, Types DEF ConnType, SessionInv
      <3>2. Head(conn.queue).kind = "row"
        BY <1>7, <1>8, <2>2
      <3>3. set'[s].rows = set[s].rows /\ set'[s].fails = set[s].fails
        BY <1>1, <2>4, <2>6
      <3> QED BY <1>3, <1>5, <3>1, <3>2, <3>3, RestTail DEF SessionInv
    <2>8. Rest(s, Arrived(new))'
      BY <2>5, <2>7 DEF Rest
    <2> QED BY <1>1, <1>2, <2>2, <2>4, <2>5, <2>8, OpenedFollows
  <1>9. CASE r.kind \in {"tuples", "command"}
    <2>1. call' = [call EXCEPT ![c].at = "drain open"] /\ UNCHANGED set /\ r # Lost
      BY <1>4, <1>7, <1>9, ResultsAreNoMarks
    <2>2. 0 = old.rows /\ ~old.fails
      <3>1. r = Head(conn.queue) /\ TypeOK /\ 0 \in Nat
        BY <1>7, <2>1 DEF SessionInv
      <3>2. 0 = set[s].rows /\ ~set[s].fails
        BY <1>3, <1>5, <1>9, <3>1, RestHead
      <3> QED BY <1>1, <3>2
    <2>3. <<call[c].at, "drain open">> \in Hops
      BY <1>2 DEF Hops
    <2>4. Len(old.seen) = old.rows
      BY <1>3, <2>2
    <2> QED BY <1>1, <1>3, <2>1, <2>2, <2>3, <2>4, HopFollows
  <1>10. CASE r.kind \in {"lost", "fatal"}
    <2>1. FailUnbuilt(c, Drained(After(r)))
      BY <1>4, <1>7, <1>10
    <2> QED BY <1>2, <2>1, FailsFollow
  <1> QED BY <1>7, <1>8, <1>9, <1>10, ResultsAreNoMarks

LEMMA DeliverFollows ==
  ASSUME SessionInv, RowsFollow, NEW c \in Clients, call[c].at = "next", NEW s, s = call[c].set,
         ~set[s].ended, NEW new \in SetType, NEW r, Deliver(c, new, r),
         ~new.ended, new.ready = Null, GaveOwn(s, new),
         NEW n \in Nat, n = Len(new.seen), r = Result("row", s, n + 1), Rest(s, n + 1)'
  PROVE  RowsFollow'
  <1>1. call[c].at \in Opening \cup Reading /\ call[c] \in CallType
    BY WorkIs DEF Reading
  <1>2. PICK full, next : /\ full = [new EXCEPT !.seen = Append(@, r)]
                          /\ next = (IF call[c].op = "next" THEN NoCall ELSE call[c])
    OBVIOUS
  <1>3. Gives(c, s, full, next)
    BY <1>2, Types DEF Gives, Deliver, Hangup, SessionInv
  <1>4. /\ full.seen = Append(new.seen, r) /\ full.ready = Null /\ full.ended = FALSE
        /\ full.told = new.told /\ full.rows = new.rows /\ full.fails = new.fails
        /\ new.seen \in Seq(Results)
    BY <1>2 DEF SetType
  <1>5. /\ Len(full.seen) = n + 1 /\ full.seen[n + 1] = r
        /\ \A i \in 1..n : full.seen[i] = new.seen[i]
    <2>1. r \in Results \cup {r} /\ new.seen \in Seq(Results \cup {r})
      BY <1>4
    <2> QED BY <1>4, <2>1, AppendProperties
  <1>6. \A i \in 1..Len(full.seen) : full.seen[i] = Result("row", s, i)
    <2>1. \A i \in 1..n : new.seen[i] = Result("row", s, i)
      BY DEF GaveOwn
    <2>2. \A i \in 1..(n + 1) : i \in 1..n \/ i = n + 1
      OBVIOUS
    <2> QED BY <1>5, <2>1, <2>2
  <1>7. new.told # "end"
    BY DEF GaveOwn
  <1>8. GaveOwn(s, full)
    BY <1>4, <1>6, <1>7 DEF GaveOwn
  <1>9. Arrived(full) = n + 1
    <2>1. Arrived(full) = (n + 1) + 0
      BY <1>4, <1>5 DEF Arrived
    <2> QED BY <2>1
  <1>10. Rest(s, Arrived(full))'
    BY <1>9 DEF Rest
  <1>11. next.at \notin {"drain open", "drain end"}
    BY <1>2 DEF NoCall
  <1> QED BY <1>1, <1>3, <1>8, <1>10, <1>11, GivesFollow

LEMMA ReturnNextFollows ==
  ASSUME SessionInv, RowsFollow, NEW c \in Clients, ReturnNext(c)
  PROVE  RowsFollow'
  <1>1. PICK s, old : s = call[c].set /\ old = set[s]
    OBVIOUS
  <1>2. call[c].at = "next" /\ call[c].at \in Opening \cup Reading
    BY DEF ReturnNext, Reading
  <1>3. /\ s \in Sets /\ old \in SetType /\ set \in [Sets -> SetType] /\ conn \in ConnType
        /\ FindsSet(c) /\ s # None /\ GaveOwn(s, old)
    BY <1>1, <1>2, WorkIs, Types DEF SessionInv, RowsFollow, SetFollows
  <1>4. CASE old.ready # Null
    <2>1. PICK new : new = [old EXCEPT !.ready = Null]
      OBVIOUS
    <2>2. Deliver(c, new, old.ready) /\ conn' = conn
      BY <1>1, <1>4, <2>1 DEF ReturnNext
    <2>3. /\ new.ready = Null /\ new.seen = old.seen /\ new.ended = old.ended /\ new.told = old.told
          /\ new.rows = old.rows /\ new.fails = old.fails /\ new \in SetType
      BY <1>3, <2>1 DEF SetType
    <2>4. old.ready = Result("row", s, 0 + 1) /\ old.seen = <<>> /\ ~old.ended /\ 0 = Len(new.seen)
      BY <1>3, <1>4, <2>3 DEF GaveOwn
    <2>5. GaveOwn(s, new)
      BY <1>3, <2>3, <2>4 DEF GaveOwn
    <2>6. Rest(s, 0 + 1)
      <3>1. Rest(s, Arrived(old)) /\ Arrived(old) = 0 + 1
        BY <1>1, <1>2, <1>4, <2>4, ReaderStreams DEF Arrived
      <3> QED BY <3>1
    <2>7. set'[s].rows = set[s].rows /\ set'[s].fails = set[s].fails
      BY <1>1, <1>3, <2>2, <2>3 DEF Deliver
    <2>8. Rest(s, 0 + 1)'
      BY <2>2, <2>6, <2>7 DEF Rest
    <2> QED BY <1>1, <1>2, <2>2, <2>3, <2>4, <2>5, <2>8, DeliverFollows
  <1>5. CASE old.ready = Null /\ old.ended
    <2>1. call[c].op = "next"
      BY <1>1, <1>2, <1>3, <1>5 DEF FindsSet, Reading
    <2>2. Finish(c, conn, old, "end")
      BY <1>1, <1>5 DEF ReturnNext
    <2>3. conn' = conn
      BY <2>1, <2>2 DEF Finish
    <2> QED BY <1>1, <1>2, <1>3, <1>5, <2>2, <2>3, FinishFollows
  <1>6. CASE old.ready = Null /\ ~old.ended
    <2>1. PICK r \in Arrivals :
            CASE r = Lost -> Finish(c, After(r), old, "error")
              [] r = Null -> Finish(c, After(r), [old EXCEPT !.ended = TRUE], "end")
              [] r.kind = "row" -> conn' = After(r) /\ Deliver(c, old, r)
              [] r.kind \in {"tuples", "command"} ->
                   conn' = After(r) /\ call' = [call EXCEPT ![c].at = "drain end"] /\ UNCHANGED set
              [] r.kind = "fatal" ->
                   conn' = After(r) /\ call' = [call EXCEPT ![c].at = "drain error"] /\ UNCHANGED set
      BY <1>1, <1>6 DEF ReturnNext, Goto
    <2>2. PICK n : n = Len(old.seen)
      OBVIOUS
    <2>3. n \in Nat /\ Arrived(old) = n
      <3>1. old.seen \in Seq(Results)
        BY <1>3 DEF SetType
      <3>2. n \in Nat
        BY <2>2, <3>1
      <3> QED BY <1>6, <2>2, <3>2 DEF Arrived
    <2>4. Rest(s, n)
      BY <1>1, <1>2, <1>6, <2>3, ReaderStreams
    <2>5. conn.queue # <<>>
      BY <2>4 DEF Rest
    <2>6. r # Null /\ (r = Lost \/ (r = Head(conn.queue) /\ r \in Results /\ After(r) = [conn EXCEPT !.queue = Tail(@)]))
          /\ (r = Lost \/ r.kind \in {"row", "tuples", "command", "fatal"})
      <3>1. Arrives(r)
        BY ArrivalIs DEF SessionInv
      <3> QED BY <2>5, <3>1, ResultsAreNoMarks DEF Arrives, Kinds
    <2>7. CASE r = Lost
      <3>1. Finish(c, After(r), old, "error") /\ After(r) = conn
        BY <2>1, <2>7, ResultsAreNoMarks DEF After
      <3>2. conn.link # "ok"
        BY <1>1, <1>2, <1>6, <2>7, ReadIs
      <3>3. conn' = conn /\ set'[s].rows = set[s].rows /\ set'[s].fails = set[s].fails
        <4>1. PICK final : final = [old EXCEPT !.told = IF @ = "none" THEN "error" ELSE @]
          OBVIOUS
        <4>2. PICK gone : gone = [final EXCEPT !.life = "none"]
          OBVIOUS
        <4>3. final.rows = old.rows /\ final.fails = old.fails /\ gone.rows = old.rows /\ gone.fails = old.fails
          BY <1>3, <4>1, <4>2 DEF SetType
        <4>4. Drained(conn) = conn
          BY <3>2 DEF Drained
        <4>5. conn' = conn /\ \E new \in {final, gone} : set' = [set EXCEPT ![s] = new]
          BY <1>1, <3>1, <4>1, <4>2, <4>4 DEF Finish
        <4> QED BY <1>1, <1>3, <4>3, <4>5
      <3>4. Rest(s, n)'
        BY <2>4, <3>3 DEF Rest
      <3>5. Rest(s, Arrived(old))'
        BY <2>3, <3>4 DEF Rest
      <3> QED BY <1>1, <1>2, <1>3, <1>6, <3>1, <3>5, FinishFollows
    <2>8. CASE r # Lost /\ r.kind = "row"
      <3>1. conn' = After(r) /\ Deliver(c, old, r)
        BY <2>1, <2>6, <2>8
      <3>2. r = Head(conn.queue) /\ TypeOK /\ conn'.queue = Tail(conn.queue)
        BY <1>3, <2>6, <2>8, <3>1 DEF SessionInv, ConnType
      <3>3. r = Result("row", s, n + 1)
        BY <1>3, <2>3, <2>4, <2>8, <3>2, RestHead
      <3>4. set'[s].rows = set[s].rows /\ set'[s].fails = set[s].fails
        BY <1>1, <1>3, <3>1 DEF Deliver, SetType
      <3>5. Rest(s, n + 1)'
        BY <1>3, <2>3, <2>4, <2>8, <3>2, <3>4, RestTail
      <3> QED BY <1>1, <1>2, <1>3, <1>6, <2>2, <2>3, <3>1, <3>3, <3>5, DeliverFollows
    <2>9. CASE r # Lost /\ r.kind \in {"tuples", "command"}
      <3>1. call' = [call EXCEPT ![c].at = "drain end"] /\ UNCHANGED set
        BY <2>1, <2>6, <2>9
      <3>2. r = Head(conn.queue) /\ TypeOK
        BY <2>6, <2>9 DEF SessionInv
      <3>3. n = set[s].rows /\ ~set[s].fails
        BY <1>3, <2>3, <2>4, <2>9, <3>2, RestHead
      <3>4. <<call[c].at, "drain end">> \in Hops
        BY <1>2 DEF Hops
      <3> QED BY <1>1, <1>6, <2>2, <3>1, <3>3, <3>4, HopFollows
    <2>10. CASE r # Lost /\ r.kind = "fatal"
      <3>1. call' = [call EXCEPT ![c].at = "drain error"] /\ UNCHANGED set
        BY <2>1, <2>6, <2>10
      <3>2. <<call[c].at, "drain error">> \in Hops
        BY <1>2 DEF Hops
      <3> QED BY <1>1, <1>6, <3>1, <3>2, HopFollows
    <2> QED BY <2>6, <2>7, <2>8, <2>9, <2>10
  <1> QED BY <1>4, <1>5, <1>6

LEMMA DrainFollows ==
  ASSUME SessionInv, RowsFollow, NEW c \in Clients, Drain(c)
  PROVE  RowsFollow'
  <1>1. PICK s, old, new : s = call[c].set /\ old = set[s] /\ new = [old EXCEPT !.ended = TRUE]
    OBVIOUS
  <1>2. /\ call[c].at \in {"drain open", "drain end", "drain error"}
        /\ call[c].at \in Opening \cup Reading
    BY DEF Drain, Opening, Reading
  <1>3. /\ s \in Sets /\ old \in SetType /\ ~old.ended /\ FindsSet(c) /\ s # None
        /\ call[c] \in CallType /\ GaveOwn(s, old)
    BY <1>1, <1>2, WorkIs, Types DEF SessionInv, RowsFollow, SetFollows
  <1>4. /\ new.seen = old.seen /\ new.ready = Null /\ new.ended = TRUE /\ new.told = old.told
        /\ new.rows = old.rows /\ new.fails = old.fails /\ new \in SetType
    <2>1. old.ready = Null
      BY <1>1, <1>2, <1>3 DEF FindsSet
    <2> QED BY <1>1, <1>3, <2>1 DEF SetType
  <1>5. call[c].at \in {"drain open", "drain end"} => ~old.fails /\ Len(old.seen) = old.rows
    BY <1>1 DEF RowsFollow, CallFollows
  <1>6. PICK r \in Arrivals :
          \/ conn' = After(r) /\ UNCHANGED <<set, call>>
          \/ CASE call[c].at = "drain open" -> Opened(c, After(r), new)
               [] call[c].at = "drain end" -> Finish(c, After(r), new, "end")
               [] call[c].at = "drain error" -> Finish(c, After(r), new, "error")
    BY <1>1 DEF Drain, DrainStops, Ending
  <1>7. CASE UNCHANGED <<set, call>>
    <2>1. PICK at : at = call[c].at
      OBVIOUS
    <2>2. <<call[c].at, at>> \in Hops /\ at # "first"
      BY <1>2, <2>1 DEF Hops
    <2>3. call[c] = [call[c] EXCEPT !.at = at]
      BY <1>3, <2>1 DEF CallType
    <2>4. call' = [call EXCEPT ![c].at = at]
      BY <1>7, <2>3, Types DEF SessionInv
    <2> QED BY <1>1, <1>3, <1>5, <1>7, <2>1, <2>2, <2>4, HopFollows
  <1>8. CASE call[c].at \in {"drain open", "drain end"} /\ ~UNCHANGED <<set, call>>
    <2>1. GaveOwn(s, new)
      BY <1>3, <1>4, <1>5, <1>8 DEF GaveOwn
    <2>2. CASE call[c].at = "drain open" /\ Opened(c, After(r), new)
      BY <1>1, <1>4, <2>1, <2>2, OpenedFollows
    <2>3. CASE Finish(c, After(r), new, "end")
      BY <1>1, <1>2, <1>3, <1>4, <2>1, <2>3, FinishFollows
    <2> QED BY <1>6, <1>8, <2>2, <2>3
  <1>9. CASE call[c].at = "drain error" /\ ~UNCHANGED <<set, call>>
    <2>1. PICK bad : bad = [new EXCEPT !.told = "error"]
      OBVIOUS
    <2>2. /\ bad.seen = old.seen /\ bad.ready = Null /\ bad.ended = TRUE /\ bad.told = "error"
          /\ bad \in SetType
      BY <1>4, <2>1 DEF SetType
    <2>3. GaveOwn(s, bad) /\ old.told # "end"
      BY <1>3, <2>2 DEF GaveOwn
    <2>4. Finish(c, After(r), bad, "error")
      <3>1. Finish(c, After(r), new, "error")
        BY <1>6, <1>9
      <3>2. [new EXCEPT !.told = IF @ = "none" THEN "error" ELSE @]
              = [bad EXCEPT !.told = IF @ = "none" THEN "error" ELSE @]
        BY <1>4, <2>1, <2>2, <2>3 DEF SetType
      <3> QED BY <3>1, <3>2 DEF Finish
    <2> QED BY <1>1, <1>2, <1>3, <2>2, <2>3, <2>4, FinishFollows
  <1> QED BY <1>2, <1>7, <1>8, <1>9

\* Steps that leave the result sets alone, and change what is unread only when no
\* set is read.
LEMMA ElsewhereFollows ==
  ASSUME SessionInv, RowsFollow, NEW c, UNCHANGED set,
         \A d \in Clients \ {c} : call'[d] = call[d],
         c \in Clients => call[c].set = None /\ call'[c].at \notin {"drain open", "drain end"},
         conn'.queue = conn.queue \/ \A t \in Sets : ~SetReads(t)
  PROVE  RowsFollow'
  <1>1. Touches(c, None)
    BY DEF Touches
  <1>2. (\A t \in Sets : SetFollows(t)') /\ \A d \in Clients \ {c} : CallFollows(d)'
    BY <1>1, OthersFollow, Types DEF SessionInv
  <1>3. c \in Clients => CallFollows(c)'
    BY DEF CallFollows
  <1> QED BY <1>2, <1>3 DEF RowsFollow

LEMMA PingFollows ==
  ASSUME SessionInv, RowsFollow, Rules = {"sets", "session"}, NEW c \in Clients,
         CallPing(c) \/ ReturnPing(c)
  PROVE  RowsFollow'
  <1>1. \A t \in Sets : ~SetReads(t)
    <2>1. CASE CallPing(c)
      <3>1. ~conn.busy
        BY <2>1 DEF CallPing, MayStart, Accepts
      <3> QED BY <3>1, ReadersAre DEF SessionInv, OneReader
    <2>2. CASE ReturnPing(c)
      <3>1. call[c].op = "ping"
        BY <2>2 DEF ReturnPing, SessionInv, CallsOwnSets, FindsSet
      <3> QED BY <3>1, ReadersAre, ReadersAreApart DEF SessionInv, OneReader
    <2> QED BY <2>1, <2>2
  <1>2. UNCHANGED set /\ call'[c].at \in {"none", "ping"} /\ \A d \in Clients \ {c} : call'[d] = call[d]
    BY Types DEF SessionInv, CallPing, ReturnPing, Start, Hangup, NoCall
  <1>3. call[c].set = None
    BY DEF CallPing, ReturnPing, MayStart, Idle, NoCall, SessionInv, CallsOwnSets, FindsSet
  <1> QED BY <1>1, <1>2, <1>3, ElsewhereFollows

LEMMA DisconnectFollows ==
  ASSUME SessionInv, RowsFollow, Rules = {"sets", "session"}, NEW c \in Clients,
         CallDisconnect(c) \/ ReturnDisconnect(c)
  PROVE  RowsFollow'
  <1>1. \A t \in Sets : ~SetReads(t)
    <2>1. CASE CallDisconnect(c)
      BY <2>1 DEF CallDisconnect, Quiet, SetReads
    <2>2. CASE ReturnDisconnect(c)
      BY <2>2 DEF ReturnDisconnect, SessionInv, CallsOwnSets, FindsSet, AwayIsQuiet, Unused, SetReads
    <2> QED BY <2>1, <2>2
  <1>2. UNCHANGED set /\ call'[c].at \in {"none", "closing"} /\ \A d \in Clients \ {c} : call'[d] = call[d]
    <2>1. CASE CallDisconnect(c)
      BY <2>1, Types DEF SessionInv, CallDisconnect, Start
    <2>2. CASE ReturnDisconnect(c)
      <3>1. /\ call[c].at = "closing" /\ (call' = call \/ call' = [call EXCEPT ![c] = NoCall])
            /\ UNCHANGED set
        BY <2>2 DEF ReturnDisconnect, Hangup
      <3> QED BY <3>1, Types DEF SessionInv, NoCall
    <2> QED BY <2>1, <2>2
  <1>3. call[c].set = None
    BY DEF CallDisconnect, ReturnDisconnect, Idle, NoCall, SessionInv, CallsOwnSets, FindsSet
  <1> QED BY <1>1, <1>2, <1>3, ElsewhereFollows

LEMMA LinkFollows ==
  ASSUME SessionInv, RowsFollow, Rules = {"sets", "session"},
         LoseServer \/ Connect \/ SyncRollback
  PROVE  RowsFollow'
  <1>1. CASE LoseServer
    <2>1. /\ UNCHANGED <<set, call>>
          /\ \/ ~conn.busy
             \/ \E n \in 0..Len(conn.queue), last \in {"fatal", "gone"} : LostAfter(n, last, conn'.queue)
      BY <1>1, LoseServerIs DEF SessionInv
    <2>2. ASSUME NEW s \in Sets PROVE SetFollows(s)'
      <3>1. GaveOwn(s, set[s])'
        BY <2>1 DEF RowsFollow, SetFollows, GaveOwn
      <3>2. ASSUME Streaming(s)' PROVE Rest(s, Arrived(set[s]))'
        <4>1. Streaming(s) /\ conn.busy
          <5>1. Streaming(s) /\ SetReads(s)
            BY <2>1, <3>2 DEF Streaming, SetReads
          <5> QED BY <5>1, ReadersAre DEF SessionInv, OneReader
        <4>2. PICK m \in 0..Len(conn.queue), last \in {"fatal", "gone"} : LostAfter(m, last, conn'.queue)
          BY <2>1, <4>1
        <4>3. PICK n : n = Arrived(set[s])
          OBVIOUS
        <4>4. n \in Nat
          <5>1. set[s].seen \in Seq(Results)
            BY Types DEF SessionInv, SetType
          <5>2. Len(set[s].seen) \in Nat
            BY <5>1
          <5>3. n \in {Len(set[s].seen) + 0, Len(set[s].seen) + 1}
            BY <4>3 DEF Arrived
          <5>4. \A m1 \in Nat : m1 + 0 \in Nat /\ m1 + 1 \in Nat
            OBVIOUS
          <5> QED BY <5>2, <5>3, <5>4
        <4>5. Rest(s, n)
          BY <4>1, <4>3 DEF RowsFollow, SetFollows
        <4>6. Rest(s, n)'
          BY <2>1, <4>2, <4>4, <4>5, RestLost DEF SessionInv
        <4>7. Arrived(set[s])' = n
          BY <2>1, <4>3 DEF Arrived
        <4> QED BY <4>6, <4>7 DEF Rest
      <3> QED BY <3>1, <3>2 DEF SetFollows
    <2>3. \A c \in Clients : CallFollows(c)'
      BY <2>1 DEF RowsFollow, CallFollows
    <2> QED BY <2>2, <2>3 DEF RowsFollow
  <1>2. CASE Connect \/ SyncRollback
    <2>1. UNCHANGED <<set, call>> /\ \A t \in Sets : ~SetReads(t)
      BY <1>2 DEF Connect, SyncRollback, Quiet, SessionInv, AwayIsQuiet, Unused, SetReads
    <2> QED BY <2>1, ElsewhereFollows, Types DEF SessionInv
  <1> QED BY <1>1, <1>2

LEMMA DestroyFollows ==
  ASSUME SessionInv, RowsFollow, NEW s \in Sets, Destroy(s)
  PROVE  RowsFollow'
  <1>1. /\ set[s].life = "live" /\ \A d \in Clients : call[d].set # s
        /\ set' = [set EXCEPT ![s] = Absent] /\ UNCHANGED call
    BY DEF Destroy, InUse
  <1>2. set'[s] = Absent /\ \A t \in Sets \ {s} : set'[t] = set[t]
    BY <1>1, Types DEF SessionInv
  <1>3. \A t \in Sets \ {s} : ~SetReads(t)
    <2>1. CASE set[s].ended
      BY <1>1, <2>1, ReadersAre DEF SessionInv, OneReader, Finished
    <2>2. CASE ~set[s].ended
      BY <1>1, <2>2, ReadersAre DEF SessionInv, OneReader, SetReads
    <2> QED BY <2>1, <2>2
  <1>4. Touches(None, s)
    BY <1>1, <1>2, Types DEF Touches, SessionInv
  <1>5. /\ \A t \in Sets \ {s} : SetFollows(t)'
        /\ \A d \in Clients : CallFollows(d)'
    BY <1>3, <1>4, OthersFollow, Types DEF SessionInv
  <1>6. SetFollows(s)'
    <2>1. PICK new : new = Absent
      OBVIOUS
    <2>2. new.seen = <<>> /\ new.told = "none" /\ new.ready = Null /\ new.ended = FALSE /\ new.life = "none"
      BY <2>1 DEF Absent
    <2>3. GaveOwn(s, new) /\ set'[s] = new
      BY <1>2, <2>1, <2>2, FreshFollows
    <2>4. GaveOwn(s, set[s])'
      BY <2>3 DEF GaveOwn
    <2>5. ~Streaming(s)'
      BY <2>2, <2>3 DEF Streaming
    <2> QED BY <2>4, <2>5 DEF SetFollows
  <1> QED BY <1>5, <1>6 DEF RowsFollow

LEMMA RowsStep ==
  ASSUME SessionInv, RowsFollow, Rules = {"sets", "session"}, [Next]_vars
  PROVE  RowsFollow'
  <1>1. CASE UNCHANGED vars
    BY <1>1, ElsewhereFollows, Types DEF vars, SessionInv
  <1>2. ASSUME NEW c \in Clients,
               \/ \E op \in {"query", "execute"}, s \in Sets, p \in Stmts \cup {None} :
                    CallQuery(c, op, s, p) \/ CallPrepare(c, op, s, p)
               \/ \E s \in Sets : CallNext(c, s)
               \/ CallPing(c) \/ CallDisconnect(c)
               \/ Resume(c)
        PROVE  RowsFollow'
    <2>1. ASSUME NEW op \in {"query", "execute"}, NEW s \in Sets, NEW p \in Stmts \cup {None},
                 CallQuery(c, op, s, p) \/ CallPrepare(c, op, s, p)
          PROVE  RowsFollow'
      BY <2>1, StartFollows
    <2>2. ASSUME NEW s \in Sets, CallNext(c, s) PROVE RowsFollow'
      BY <2>2, CallNextFollows
    <2>3. CASE CallPing(c) \/ CallDisconnect(c)
      BY <2>3, PingFollows, DisconnectFollows
    <2>4. CASE Resume(c)
      BY <2>4, ReturnPrepareFollows, ReturnPreparedFollows, ReturnFlushedFollows, ReturnFirstFollows,
         ReturnNextFollows, DrainFollows, PingFollows, DisconnectFollows DEF Resume
    <2> QED BY <1>2, <2>1, <2>2, <2>3, <2>4
  <1>3. ASSUME NEW s \in Sets, Destroy(s) PROVE RowsFollow'
    BY <1>3, DestroyFollows
  <1>4. ASSUME NEW p \in Stmts, Prepare(p) \/ DropStatement(p) PROVE RowsFollow'
    <2>1. UNCHANGED <<conn, set, call>>
      BY <1>4 DEF Prepare, DropStatement
    <2> QED BY <2>1, ElsewhereFollows, Types DEF SessionInv
  <1>5. CASE SyncRollback \/ Connect \/ LoseServer
    BY <1>5, LinkFollows
  <1> QED BY <1>1, <1>2, <1>3, <1>4, <1>5 DEF Next

\* Under the same rules a result set gives the rows of its own command, in order and
\* without gaps, whatever other sets and calls were doing and wherever the link was
\* lost; and "no more" (next(), postgres.cpp:683-747, and the count of execute())
\* comes only after the last of them.
THEOREM PgRowsAreOwn ==
  ASSUME Rules = {"sets", "session"}
  PROVE  Spec => []RowsAreOwnAndAll
  <1>1. Init => SessionInv /\ RowsFollow
    BY InitEstablishes, InitFollows
  <1>2. (SessionInv /\ RowsFollow) /\ [Next]_vars => (SessionInv /\ RowsFollow)'
    BY SessionStep, RowsStep
  <1>3. SessionInv /\ RowsFollow => RowsAreOwnAndAll
    BY DEF RowsFollow, SetFollows, GaveOwn, RowsAreOwnAndAll
  <1> QED BY <1>1, <1>2, <1>3, PTL DEF Spec
=============================================================================
