----------------------- MODULE SqlTransactions_proofs -----------------------
(***************************************************************************)
(* Theorems about SqlTransactions, for every set of handles.               *)
(*                                                                         *)
(* LockAlwaysOwned holds for every driver and every interleaving.          *)
(* OneTransactionAtATime, NoHandleDangles, WritesLand and                  *)
(* ImplementsTransactionLock hold for clients that keep to one call at a   *)
(* time and restart a handle only while the database is open and in no     *)
(* transaction.                                                            *)
(***************************************************************************)
EXTENDS SqlTransactions, TLAPS

(***************************************************************************)
(* Ownership: a handle owns the database's lock exactly while it is begun, *)
(* and a suspended call fits the state of the handle that made it.         *)
(***************************************************************************)
OwnershipInv ==
  /\ \A h \in Handles : mOwns[h] <=> Begun(h)
  /\ \A h \in Handles : Begun(h) => mLink[h]
  /\ \A h \in Handles :
       /\ call[h].op \in Begins => ~Begun(h) /\ mState[h] # "absent" /\ mLink[h]
       /\ call[h].op \in Ends \cup Texts => Begun(h)
       /\ call[h].op # "close"
       /\ mState[h] = "absent" => call[h] = NoCall

(***************************************************************************)
(* One call at a time, restarts only when free.                            *)
(***************************************************************************)
DisciplinedInv ==
  /\ \A c, d \in Callers : call[c].op # "none" /\ call[d].op # "none" => c = d
  /\ \A h \in Handles : Begun(h) => mInTransaction /\ mLink[h] /\ mConnection
  /\ SingleHolder
  /\ \A h \in Handles :
       call[h].op \in Begins => ~mInTransaction /\ mLink[h] /\ mConnection
  /\ call[Plain].op # "none" => ~mInTransaction

Disciplined == ~Overlap /\ ~FreeRebegin

-----------------------------------------------------------------------------
(* Facts used by every invariance proof.                                   *)

\* The server's statements keep the session record in its type.
LEMMA SessionTypes ==
  ASSUME Typed, NEW c \in Callers, NEW ok \in BOOLEAN, NEW on \in BOOLEAN,
         \/ Begin(ok) \/ Commit(ok) \/ Rollback(ok) \/ Write(c, ok) \/ Query(ok)
         \/ SetAutocommit(on) \/ Drop
  PROVE  server' \in Sessions
  <1>k. /\ server.kept \cup server.dirty \in SUBSET Callers
        /\ server.dirty \cup {c} \in SUBSET Callers /\ server.kept \cup {c} \in SUBSET Callers
    BY DEF Typed, Sessions
  <1> USE DEF Typed, Sessions
  <1>1. CASE Begin(ok)
    BY <1>1, <1>k DEF Begin
  <1>2. CASE Commit(ok)
    BY <1>2, <1>k DEF Commit, Keep, Discard
  <1>3. CASE Rollback(ok)
    BY <1>3 DEF Rollback, Discard
  <1>f. FailInside => server' \in Sessions
    BY DEF FailInside, Discard
  <1>4. CASE Write(c, ok)
    BY <1>4, <1>k, <1>f DEF Write
  <1>5. CASE Query(ok)
    BY <1>5, <1>f DEF Query
  <1>6. CASE SetAutocommit(on)
    BY <1>6, <1>k DEF SetAutocommit
  <1>7. CASE Drop
    BY <1>7 DEF Drop
  <1> QED BY <1>1, <1>2, <1>3, <1>4, <1>5, <1>6, <1>7

\* What serving a call changes: the session, the results on the wire, the ghost,
\* and the answer of that call, which was still to come.
LEMMA ServeIs ==
  ASSUME Typed, NEW c \in Callers, Serve(c)
  PROVE  /\ call[c].op # "none" /\ call[c].answer \in {"waiting", "second"}
         /\ \E a \in {"second", "ok", "refused"} : call' = [call EXCEPT ![c].answer = a]
         /\ server' \in Sessions /\ unread' \in {"none", "held", "left"} /\ slipped' \in BOOLEAN
         /\ slipped => slipped'
         /\ UNCHANGED <<backend, mConnection, mInTransaction, objects, running, told>>
  <1>1. call[c].answer \in Answers /\ call[c].op \in Ops
    BY DEF Typed
  <1>2. CASE ServeWhole(c)
    <2>1. PICK ok \in BOOLEAN :
            /\ \/ call[c].op \in Begins /\ Begin(ok)
               \/ call[c].op = "commit" /\ Commit(ok)
               \/ call[c].op = "rollback" /\ Rollback(ok)
               \/ call[c].op = "write" /\ ~OutOfSync /\ Write(c, ok)
               \/ call[c].op = "query" /\ ~OutOfSync /\ Query(ok)
               \/ call[c].op \in Texts /\ OutOfSync /\ ~ok /\ UNCHANGED server
               \/ call[c].op = "close" /\ ok /\ Drop
            /\ unread' = IF call[c].op = "query" /\ ok /\ backend # "sqlite" THEN "held" ELSE unread
            /\ call' = [call EXCEPT ![c].answer = IF ok THEN "ok" ELSE "refused"]
      BY <1>2 DEF ServeWhole
    <2>2. server' \in Sessions
      BY <2>1, SessionTypes DEF Typed
    <2>3. call[c].op # "none" /\ unread' \in {"none", "held", "left"}
      BY <2>1 DEF Begins, Texts, Typed
    <2> QED BY <1>2, <2>1, <2>2, <2>3 DEF ServeWhole, Serve, Typed
  <1>3. CASE ServeFirst(c)
    <2>1. server' \in Sessions
      BY <1>3, SessionTypes DEF ServeFirst, Typed
    <2>2. call[c].op # "none"
      BY <1>3 DEF ServeFirst, InTwo, Begins, Ends
    <2> QED BY <1>3, <2>1, <2>2 DEF ServeFirst, Serve, Typed
  <1>4. CASE ServeSecond(c)
    <2>1. PICK ok \in BOOLEAN :
            /\ \/ call[c].op \in Begins /\ ~OutOfSync /\ Begin(ok)
               \/ call[c].op \in Begins /\ ~ok /\ UNCHANGED server
               \/ call[c].op \in Ends /\ ok /\ SetAutocommit(TRUE)
            /\ slipped' = (slipped \/ (Astray /\ (ok => call[c].op \in Ends)))
            /\ call' = [call EXCEPT ![c].answer = IF ok THEN "ok" ELSE "refused"]
      BY <1>4 DEF ServeSecond
    <2>2. server' \in Sessions
      BY <2>1, SessionTypes DEF Typed
    <2>3. call[c].op # "none"
      BY <2>1 DEF Begins, Ends
    <2> QED BY <1>4, <2>1, <2>2, <2>3 DEF ServeSecond, Serve, Typed, Astray
  <1> QED BY <1>2, <1>3, <1>4 DEF Serve

\* Issuing a call, as far as the types go.
LEMMA IssueIs ==
  ASSUME Typed, NEW c \in Callers, NEW op \in Ops, Issue(c, op)
  PROVE  /\ call' \in [Callers -> [op : Ops, answer : Answers]]
         /\ call'[c].op = op /\ call'[c].answer \in {"waiting", "refused"}
         /\ \A d \in Callers \ {c} : call'[d] = call[d]
         /\ UNCHANGED <<unread, running>> /\ slipped' \in BOOLEAN /\ (slipped => slipped')
  BY DEF Typed, Issue, Answers, Refuses

\* The destructor's rollback.
LEMMA SyncRollbackIs ==
  ASSUME Typed, SyncRollback
  PROVE  /\ server' \in Sessions /\ unread' \in {"none", "held", "left"} /\ slipped' \in BOOLEAN
         /\ slipped => slipped'
  <1>1. CASE backend # "mysql"
    <2>1. \E ok \in BOOLEAN : Rollback(ok)
      BY <1>1 DEF SyncRollback
    <2>2. server' \in Sessions
      BY <2>1 DEF Rollback, Discard, Typed, Sessions
    <2> QED BY <1>1, <2>2 DEF SyncRollback, Typed
  <1>2. CASE backend = "mysql"
    BY <1>2 DEF SyncRollback, Astray, Typed, Sessions
  <1> QED BY <1>1, <1>2

\* Every variable keeps its type, for every driver under every use.
LEMMA TypedAlways == Spec => []Typed
  <1>1. Init => Typed
    <2>1. NoCall \in [op : Ops, answer : Answers]
      BY DEF NoCall, Ops, Answers
    <2>2. [tx |-> "none", auto |-> TRUE, dirty |-> {}, kept |-> {}] \in Sessions
      BY DEF Sessions
    <2>3. Init => call \in [Callers -> [op : Ops, answer : Answers]]
      BY <2>1 DEF Init
    <2>4. Init => mState \in [Handles -> States]
      BY DEF Init, States
    <2>5. Init => mOwns \in [Handles -> BOOLEAN] /\ mLink \in [Handles -> BOOLEAN]
      BY DEF Init
    <2>6. Init => /\ wrote \in SUBSET Handles /\ erred \in SUBSET Handles
                  /\ unread \in {"none", "held", "left"} /\ running \in BOOLEAN /\ slipped \in BOOLEAN
      BY DEF Init
    <2> QED BY <2>2, <2>3, <2>4, <2>5, <2>6 DEF Init, Typed
  <1>2. Typed /\ [Next]_vars => Typed'
    <2> SUFFICES ASSUME Typed, [Next]_vars PROVE Typed'
      OBVIOUS
    <2> USE DEF wire, told, objects
    <2>o. /\ Begins \cup Ends \cup Texts \subseteq Ops /\ "close" \in Ops
          /\ NoCall \in [op : Ops, answer : Answers] /\ "waiting" \in Answers
          /\ \A h \in Handles : h \in Callers
          /\ Plain \in Callers
      BY DEF Ops, Answers, NoCall, Callers
    <2>r. ASSUME NEW c \in Callers, Return(c) PROVE call' \in [Callers -> [op : Ops, answer : Answers]]
      BY <2>o, <2>r DEF Return, Typed
    <2>1. ASSUME NEW h \in Handles, CallTransaction(h) PROVE Typed'
      <3>1. Issue(h, "transaction") /\ "transaction" \in Ops
        BY <2>1 DEF CallTransaction, Ops, Begins
      <3>2. /\ call' \in [Callers -> [op : Ops, answer : Answers]]
            /\ unread' = unread /\ running' = running /\ slipped' \in BOOLEAN
        BY <2>o, <3>1, IssueIs
      <3> QED BY <2>1, <3>2 DEF CallTransaction, Typed, States
    <2>2. ASSUME NEW h \in Handles, Construct(h) PROVE Typed'
      BY <2>2 DEF Construct, Available, Typed, States
    <2>3. ASSUME NEW h \in Handles, CallRebegin(h) PROVE Typed'
      <3>1. Issue(h, "rebegin") /\ "rebegin" \in Ops
        BY <2>3 DEF CallRebegin, Ops, Begins
      <3>2. /\ call' \in [Callers -> [op : Ops, answer : Answers]]
            /\ unread' = unread /\ running' = running /\ slipped' \in BOOLEAN
        BY <2>o, <3>1, IssueIs
      <3> QED BY <2>3, <3>2 DEF CallRebegin, Typed
    <2>4. ASSUME NEW h \in Handles, NEW op \in Ends \cup Texts, CallInTransaction(h, op) PROVE Typed'
      <3>1. Issue(h, op) /\ op \in Ops
        BY <2>4, <2>o DEF CallInTransaction
      <3>2. /\ call' \in [Callers -> [op : Ops, answer : Answers]]
            /\ unread' = unread /\ running' = running /\ slipped' \in BOOLEAN
        BY <2>o, <3>1, IssueIs
      <3> QED BY <2>4, <3>2 DEF CallInTransaction, Typed
    <2>5. ASSUME NEW h \in Handles, ReturnBegun(h) PROVE Typed'
      <3>1. server' \in Sessions
        BY <2>5 DEF ReturnBegun, Typed, Sessions
      <3> QED BY <2>5, <2>o, <2>r, <3>1 DEF ReturnBegun, Typed, States
    <2>6. ASSUME NEW h \in Handles, ReturnBeginFailed(h) PROVE Typed'
      BY <2>6, <2>o, <2>r DEF ReturnBeginFailed, Typed, States
    <2>7. ASSUME NEW h \in Handles, ReturnText(h) PROVE Typed'
      BY <2>7, <2>o, <2>r DEF ReturnText, Typed
    <2>8. ASSUME NEW h \in Handles, ReturnEnded(h) PROVE Typed'
      BY <2>8, <2>o, <2>r DEF ReturnEnded, Release, Typed, States
    <2>9. ASSUME NEW h \in Handles, ReturnEndFailed(h) PROVE Typed'
      BY <2>9, <2>o, <2>r DEF ReturnEndFailed, Typed
    <2>10. ASSUME NEW h \in Handles, Destroy(h) PROVE Typed'
      <3>1. /\ server' \in Sessions /\ unread' \in {"none", "held", "left"} /\ slipped' \in BOOLEAN
        BY <2>10, SyncRollbackIs DEF Destroy, Typed
      <3> QED BY <2>10, <3>1 DEF Destroy, Release, Typed, States
    <2>11. ASSUME NEW h \in Handles, NEW g \in Handles, Move(h, g) PROVE Typed'
      <3>1. server' \in Sessions
        <4>1. Renamed(server.dirty, h, g) \in SUBSET Callers /\ Renamed(server.kept, h, g) \in SUBSET Callers
          BY <2>o DEF Renamed, Typed, Sessions
        <4> QED BY <2>11, <4>1 DEF Move, MoveObject, Typed, Sessions
      <3>2. wrote' \in SUBSET Handles /\ erred' \in SUBSET Handles
        BY <2>11 DEF Move, MoveObject, Renamed, Typed
      <3> QED BY <2>11, <3>1, <3>2 DEF Move, MoveObject, Typed, States
    <2>12. ASSUME NEW c \in Callers, Serve(c) PROVE Typed'
      <3>1. {"second", "ok", "refused"} \subseteq Answers
        BY DEF Answers
      <3>2. PICK a \in {"second", "ok", "refused"} : call' = [call EXCEPT ![c].answer = a]
        BY <2>12, ServeIs
      <3>3. call' \in [Callers -> [op : Ops, answer : Answers]]
        BY <3>1, <3>2 DEF Typed
      <3>4. /\ server' \in Sessions /\ unread' \in {"none", "held", "left"} /\ slipped' \in BOOLEAN
            /\ UNCHANGED <<backend, mConnection, mInTransaction, objects, running, told>>
        BY <2>12, ServeIs
      <3> QED BY <3>3, <3>4 DEF Typed
    <2>13. ASSUME NEW op \in Texts, CallPlain(op) PROVE Typed'
      <3>1. Issue(Plain, op) /\ op \in Ops
        BY <2>13, <2>o DEF CallPlain
      <3>2. /\ call' \in [Callers -> [op : Ops, answer : Answers]]
            /\ unread' = unread /\ running' = running /\ slipped' \in BOOLEAN
        BY <2>o, <3>1, IssueIs
      <3> QED BY <2>13, <3>2 DEF CallPlain, Typed
    <2>14. CASE ReturnPlain
      BY <2>14, <2>o, <2>r DEF ReturnPlain, Typed
    <2>15. CASE CallClose
      <3>1. /\ [op |-> "close", answer |-> "waiting"] \in [op : Ops, answer : Answers]
            /\ [c \in Callers |-> NoCall] \in [Callers -> [op : Ops, answer : Answers]]
        BY <2>o
      <3>2. call' \in [Callers -> [op : Ops, answer : Answers]] /\ running' \in BOOLEAN
        BY <2>15, <3>1 DEF CallClose, Typed
      <3> QED BY <2>15, <3>2 DEF CallClose, Typed
    <2>16. CASE ReturnClose
      BY <2>16, <2>o, <2>r DEF ReturnClose, Typed
    <2>17. CASE LoseServer
      BY <2>17 DEF LoseServer, Drop, Typed, Sessions
    <2>18. CASE EndResult
      BY <2>18 DEF EndResult, Typed
    <2>19. CASE UNCHANGED vars
      BY <2>19 DEF vars, Typed
    <2> QED BY <2>1, <2>2, <2>3, <2>4, <2>5, <2>6, <2>7, <2>8, <2>9, <2>10, <2>11, <2>12, <2>13,
               <2>14, <2>15, <2>16, <2>17, <2>18, <2>19 DEF Next, HandleStep, Over
  <1> QED BY <1>1, <1>2, PTL DEF Spec
-----------------------------------------------------------------------------
(* Ownership and the lock, for every driver and every interleaving.        *)

LEMMA OwnershipInit == Init => OwnershipInv
  BY DEF Init, OwnershipInv, Begun, NoCall, Callers, Begins, Ends, Texts

LEMMA OwnershipStep ==
  ASSUME Typed, OwnershipInv, [Next]_vars
  PROVE  OwnershipInv'
  <1> USE DEF Typed, OwnershipInv, Begun, wire, objects
  <1>o. /\ \A h \in Handles : h \in Callers /\ h # Plain
        /\ NoCall.op \notin Begins \cup Ends \cup Texts \cup {"close"}
        /\ NoCall \in [op : Ops, answer : Answers]
        /\ Begins \cup Ends \cup Texts \subseteq Ops
        /\ "close" \notin Begins \cup Ends \cup Texts
        /\ \A op \in Begins : op \notin Ends \cup Texts
    BY PlainIsNoHandle DEF Callers, NoCall, Begins, Ends, Texts, Ops, Answers
  <1>i. ASSUME NEW c \in Callers, NEW op \in Begins \cup Ends \cup Texts, Issue(c, op)
        PROVE  /\ call'[c].op = op /\ call'[c] # NoCall
               /\ \A d \in Callers \ {c} : call'[d] = call[d]
    <2>1. op # "none"
      BY DEF Begins, Ends, Texts
    <2> QED BY <1>i, <1>o, <2>1, IssueIs DEF NoCall
  <1>1. ASSUME NEW h \in Handles, CallTransaction(h) PROVE OwnershipInv'
    <2>1. Issue(h, "transaction") /\ "transaction" \in Begins
      BY <1>1 DEF CallTransaction, Begins
    <2> QED BY <1>1, <1>i, <1>o, <2>1 DEF CallTransaction
  <1>2. ASSUME NEW h \in Handles, Construct(h) PROVE OwnershipInv'
    BY <1>2, <1>o DEF Construct
  <1>3. ASSUME NEW h \in Handles, CallRebegin(h) PROVE OwnershipInv'
    <2>1. Issue(h, "rebegin") /\ "rebegin" \in Begins
      BY <1>3 DEF CallRebegin, Begins
    <2> QED BY <1>3, <1>i, <1>o, <2>1 DEF CallRebegin
  <1>4. ASSUME NEW h \in Handles, NEW op \in Ends \cup Texts, CallInTransaction(h, op) PROVE OwnershipInv'
    <2>1. op \notin Begins \cup {"close"}
      BY DEF Begins, Ends, Texts
    <2> QED BY <1>4, <1>i, <1>o, <2>1 DEF CallInTransaction
  <1>5. ASSUME NEW h \in Handles, ReturnBegun(h) PROVE OwnershipInv'
    <2>1. call[h].op \in Begins
      BY <1>5 DEF ReturnBegun, Succeeded, Begins
    <2> QED BY <1>5, <1>o, <2>1 DEF ReturnBegun, Return
  <1>6. ASSUME NEW h \in Handles, ReturnBeginFailed(h) PROVE OwnershipInv'
    <2>1. call[h].op \in Begins
      BY <1>6 DEF ReturnBeginFailed, Failed, Begins
    <2> QED BY <1>6, <1>o, <2>1 DEF ReturnBeginFailed, Return
  <1>7. ASSUME NEW h \in Handles, ReturnText(h) PROVE OwnershipInv'
    BY <1>7, <1>o DEF ReturnText, Return
  <1>8. ASSUME NEW h \in Handles, ReturnEnded(h) PROVE OwnershipInv'
    BY <1>8, <1>o DEF ReturnEnded, Release, Return
  <1>9. ASSUME NEW h \in Handles, ReturnEndFailed(h) PROVE OwnershipInv'
    BY <1>9, <1>o DEF ReturnEndFailed, Return
  <1>10. ASSUME NEW h \in Handles, Destroy(h) PROVE OwnershipInv'
    BY <1>10, <1>o DEF Destroy, Release
  <1>11. ASSUME NEW h \in Handles, NEW g \in Handles, Move(h, g) PROVE OwnershipInv'
    BY <1>11, <1>o DEF Move, MoveObject
  <1>12. ASSUME NEW c \in Callers, Serve(c) PROVE OwnershipInv'
    <2>1. PICK a \in {"second", "ok", "refused"} : call' = [call EXCEPT ![c].answer = a]
      BY <1>12, ServeIs
    <2>2. call[c].op # "none" /\ UNCHANGED objects
      BY <1>12, ServeIs
    <2>3. /\ call[c] # NoCall
          /\ \A d \in Callers : call'[d].op = call[d].op /\ (d # c => call'[d] = call[d])
      BY <2>1, <2>2 DEF NoCall
    <2> QED BY <1>o, <2>2, <2>3
  <1>13. ASSUME NEW op \in Texts, CallPlain(op) PROVE OwnershipInv'
    <2>1. Plain \in Callers /\ Issue(Plain, op)
      BY <1>13 DEF CallPlain, Callers
    <2> QED BY <1>13, <1>i, <1>o, <2>1 DEF CallPlain
  <1>14. CASE ReturnPlain
    BY <1>14, <1>o DEF ReturnPlain, Return
  <1>15. CASE CallClose
    BY <1>15, <1>o DEF CallClose
  <1>16. CASE ReturnClose
    BY <1>16, <1>o DEF ReturnClose, Return
  <1>17. CASE LoseServer \/ EndResult
    BY <1>17 DEF LoseServer, EndResult
  <1>18. CASE UNCHANGED vars
    BY <1>18 DEF vars
  <1> QED BY <1>1, <1>2, <1>3, <1>4, <1>5, <1>6, <1>7, <1>8, <1>9, <1>10, <1>11,
             <1>12, <1>13, <1>14, <1>15, <1>16, <1>17, <1>18 DEF Next, HandleStep, Over

LEMMA OwnershipAlways == Spec => [](Typed /\ OwnershipInv)
  <1>1. Typed /\ OwnershipInv /\ [Next]_vars => OwnershipInv'
    BY OwnershipStep
  <1> QED BY <1>1, OwnershipInit, TypedAlways, PTL DEF Spec

\* TypeOK is an invariant of every driver under every use.
THEOREM TypeCorrect == Spec => []TypeOK
  <1>1. Typed /\ OwnershipInv => TypeOK
    BY DEF OwnershipInv, TypeOK, Begun
  <1> QED BY <1>1, OwnershipAlways, PTL

\* Only a step that takes an owner's ownership away can strand the lock, and
\* every such step either clears it or makes another handle the owner.
LEMMA OrphanStep ==
  ASSUME Typed, OwnershipInv, NoOrphanLock, [Next]_vars
  PROVE  NoOrphanLock'
  <1> USE DEF Typed, NoOrphanLock
  <1>1. ASSUME NEW h \in Handles, ReturnBegun(h) PROVE NoOrphanLock'
    BY <1>1 DEF ReturnBegun
  <1>2. ASSUME NEW h \in Handles, ReturnEnded(h) \/ Destroy(h) PROVE NoOrphanLock'
    BY <1>2 DEF ReturnEnded, Destroy, Release
  <1>3. ASSUME NEW h \in Handles, NEW g \in Handles, Move(h, g) PROVE NoOrphanLock'
    <2>1. ~mOwns[g]
      BY <1>3 DEF Move, MoveObject, OwnershipInv, Begun
    <2>2. h # g
      BY <1>3 DEF Move, MoveObject
    <2> SUFFICES ASSUME mInTransaction' PROVE \E k \in Handles : mOwns'[k]
      BY DEF NoOrphanLock
    <2>3. PICK k \in Handles : mOwns[k]
      BY <1>3 DEF Move, MoveObject
    <2>4. CASE k = h
      BY <1>3, <2>2, <2>3, <2>4 DEF Move, MoveObject
    <2>5. CASE k # h
      BY <1>3, <2>1, <2>3, <2>5 DEF Move, MoveObject
    <2> QED BY <2>4, <2>5
  <1>4. CASE UNCHANGED <<mInTransaction, mOwns>>
    BY <1>4
  <1>5. ASSUME NEW h \in Handles,
               \/ CallTransaction(h) \/ Construct(h) \/ CallRebegin(h)
               \/ ReturnBeginFailed(h) \/ ReturnText(h) \/ ReturnEndFailed(h)
        PROVE UNCHANGED <<mInTransaction, mOwns>>
    BY <1>5 DEF CallTransaction, Available, Construct, CallRebegin, ReturnBeginFailed,
                ReturnText, ReturnEndFailed, objects
  <1>6. ASSUME NEW h \in Handles, NEW op \in Ends \cup Texts, CallInTransaction(h, op)
        PROVE UNCHANGED <<mInTransaction, mOwns>>
    BY <1>6 DEF CallInTransaction, objects
  <1>7. ASSUME NEW c \in Callers, Serve(c) PROVE UNCHANGED <<mInTransaction, mOwns>>
    BY <1>7 DEF Serve, objects
  <1>8. ASSUME \/ (\E op \in Texts : CallPlain(op)) \/ ReturnPlain \/ CallClose \/ ReturnClose
               \/ EndResult \/ LoseServer \/ UNCHANGED vars
        PROVE UNCHANGED <<mInTransaction, mOwns>>
    BY <1>8 DEF CallPlain, ReturnPlain, CallClose, ReturnClose, EndResult, LoseServer, objects, vars
  <1> QED BY <1>1, <1>2, <1>3, <1>4, <1>5, <1>6, <1>7, <1>8 DEF Next, HandleStep, Over

\* mInTransaction is never left set without a handle that will clear it.
THEOREM LockAlwaysOwned == Spec => []NoOrphanLock
  <1>1. Init => OwnershipInv /\ NoOrphanLock
    BY OwnershipInit DEF Init, NoOrphanLock
  <1>2. Typed /\ OwnershipInv /\ NoOrphanLock /\ [Next]_vars
          => (OwnershipInv /\ NoOrphanLock)'
    BY OwnershipStep, OrphanStep
  <1> QED BY <1>1, <1>2, TypedAlways, PTL DEF Spec

-----------------------------------------------------------------------------
(* One transaction at a time, for clients that keep to the discipline.     *)

LEMMA DisciplinedInit == Init => DisciplinedInv
  BY DEF Init, DisciplinedInv, SingleHolder, Begun, NoCall, Callers, Begins

\* With one call at a time, BEGIN is answered only while the database is free.
LEMMA DisciplinedStep ==
  ASSUME Typed, OwnershipInv, DisciplinedInv, Disciplined, [Next]_vars
  PROVE  DisciplinedInv'
  <1> USE DEF Typed, DisciplinedInv, SingleHolder, Begun, wire, objects
  <1>o. /\ \A h \in Handles : h \in Callers /\ h # Plain
        /\ Plain \in Callers
        /\ NoCall.op = "none" /\ "none" \notin Begins \cup Ends \cup Texts
        /\ NoCall \in [op : Ops, answer : Answers]
        /\ Begins \cup Ends \cup Texts \subseteq Ops
        /\ \A op \in Ends \cup Texts : op \notin Begins
        /\ "close" \notin Begins
    BY PlainIsNoHandle DEF Callers, NoCall, Begins, Ends, Texts, Ops, Answers
  <1> DEFINE Idle == \A c \in Callers : call[c].op = "none"
  <1>0. MayAct => Idle
    BY DEF MayAct, InFlight, Disciplined
  <1>i. ASSUME NEW c \in Callers, NEW op \in Begins \cup Ends \cup Texts, Issue(c, op)
        PROVE  call'[c].op = op /\ \A d \in Callers \ {c} : call'[d] = call[d]
    BY <1>i, <1>o, IssueIs
  <1>1. ASSUME NEW h \in Handles, CallTransaction(h) PROVE DisciplinedInv'
    <2>1. Issue(h, "transaction") /\ "transaction" \in Begins
      BY <1>1 DEF CallTransaction, Begins
    <2> QED BY <1>0, <1>1, <1>i, <1>o, <2>1 DEF CallTransaction, Available
  <1>2. ASSUME NEW h \in Handles, Construct(h) PROVE DisciplinedInv'
    BY <1>0, <1>2, <1>o DEF Construct
  <1>3. ASSUME NEW h \in Handles, CallRebegin(h) PROVE DisciplinedInv'
    <2>1. Issue(h, "rebegin") /\ "rebegin" \in Begins
      BY <1>3 DEF CallRebegin, Begins
    <2>2. /\ Idle /\ ~mInTransaction /\ mConnection /\ mLink[h]
          /\ UNCHANGED <<mState, mLink, mConnection, mInTransaction>>
      BY <1>0, <1>3 DEF CallRebegin, Available, Disciplined
    <2>3. /\ call'[h].op = "rebegin" /\ h \in Callers
          /\ \A d \in Callers : d # h => call'[d].op = "none"
      BY <1>i, <1>o, <2>1, <2>2
    <2> QED BY <1>o, <2>1, <2>2, <2>3
  <1>4. ASSUME NEW h \in Handles, NEW op \in Ends \cup Texts, CallInTransaction(h, op)
        PROVE DisciplinedInv'
    BY <1>0, <1>4, <1>i, <1>o DEF CallInTransaction
  <1>5. ASSUME NEW h \in Handles, ReturnBegun(h) PROVE DisciplinedInv'
    <2>1. call[h].op \in Begins
      BY <1>5 DEF ReturnBegun, Succeeded, Begins
    <2>2. ~mInTransaction /\ mLink[h] /\ mConnection /\ \A g \in Handles : ~Begun(g)
      BY <2>1
    <2>3. \A c \in Callers : c # h => call[c].op = "none"
      BY <1>o, <2>1
    <2> QED BY <1>5, <1>o, <2>2, <2>3 DEF ReturnBegun, Return
  <1>6. ASSUME NEW h \in Handles, ReturnBeginFailed(h) PROVE DisciplinedInv'
    <2>1. call[h].op \in Begins
      BY <1>6 DEF ReturnBeginFailed, Failed, Begins
    <2> QED BY <1>6, <1>o, <2>1 DEF ReturnBeginFailed, Return, OwnershipInv
  <1>7. ASSUME NEW h \in Handles, ReturnText(h) PROVE DisciplinedInv'
    BY <1>7, <1>o DEF ReturnText, Return
  <1>8. ASSUME NEW h \in Handles, ReturnEnded(h) PROVE DisciplinedInv'
    <2>1. call[h].op \in Ends /\ Begun(h) /\ mOwns[h]
      BY <1>8 DEF ReturnEnded, Succeeded, OwnershipInv, Ends
    <2>2. \A g \in Handles : g # h => ~Begun(g)
      BY <2>1
    <2>3. \A c \in Callers : c # h => call[c].op = "none"
      BY <1>o, <2>1
    <2> QED BY <1>8, <1>o, <2>1, <2>2, <2>3 DEF ReturnEnded, Release, Return
  <1>9. ASSUME NEW h \in Handles, ReturnEndFailed(h) PROVE DisciplinedInv'
    BY <1>9, <1>o DEF ReturnEndFailed, Return
  <1>10. ASSUME NEW h \in Handles, Destroy(h) PROVE DisciplinedInv'
    <2>1. Idle
      BY <1>0, <1>10 DEF Destroy
    <2>2. mOwns[h] => \A g \in Handles : g # h => ~Begun(g)
      BY DEF OwnershipInv
    <2> QED BY <1>10, <1>o, <2>1, <2>2 DEF Destroy, Release, OwnershipInv
  <1>11. ASSUME NEW h \in Handles, NEW g \in Handles, Move(h, g) PROVE DisciplinedInv'
    BY <1>0, <1>11, <1>o DEF Move, MoveObject
  <1>12. ASSUME NEW c \in Callers, Serve(c) PROVE DisciplinedInv'
    <2>1. \A d \in Callers : call'[d].op = call[d].op
      BY <1>12, ServeIs
    <2>2. UNCHANGED <<mConnection, mInTransaction, objects>>
      BY <1>12, ServeIs
    <2> QED BY <1>o, <2>1, <2>2
  <1>13. ASSUME NEW op \in Texts, CallPlain(op) PROVE DisciplinedInv'
    <2>1. Issue(Plain, op)
      BY <1>13 DEF CallPlain
    <2> QED BY <1>0, <1>13, <1>i, <1>o, <2>1 DEF CallPlain, Available
  <1>14. CASE ReturnPlain
    BY <1>14, <1>o DEF ReturnPlain, Return
  <1>15. CASE CallClose
    <2>1. Idle
      BY <1>0, <1>15 DEF CallClose
    <2>2. \A c \in Callers : call'[c].op = "none" \/ (c = Plain /\ call'[c].op = "close")
      BY <1>15, <1>o, <2>1 DEF CallClose
    <2> QED BY <1>15, <1>o, <2>2 DEF CallClose
  <1>16. CASE ReturnClose
    <2>1. call[Plain].op = "close"
      BY <1>16 DEF ReturnClose, Succeeded
    <2>2. ~mInTransaction /\ \A h \in Handles : ~Begun(h) /\ call[h].op = "none"
      BY <1>o, <2>1
    <2> QED BY <1>16, <1>o, <2>2 DEF ReturnClose, Return
  <1>17. CASE LoseServer \/ EndResult
    BY <1>17 DEF LoseServer, EndResult
  <1>18. CASE UNCHANGED vars
    BY <1>18 DEF vars
  <1> QED BY <1>1, <1>2, <1>3, <1>4, <1>5, <1>6, <1>7, <1>8, <1>9, <1>10, <1>11,
             <1>12, <1>13, <1>14, <1>15, <1>16, <1>17, <1>18 DEF Next, HandleStep, Over

LEMMA DisciplinedAlways ==
  ASSUME Disciplined
  PROVE  Spec => [](Typed /\ OwnershipInv /\ DisciplinedInv)
  <1>1. Init => OwnershipInv /\ DisciplinedInv
    BY OwnershipInit, DisciplinedInit
  <1>2. Typed /\ OwnershipInv /\ DisciplinedInv /\ [Next]_vars
          => (OwnershipInv /\ DisciplinedInv)'
    BY OwnershipStep, DisciplinedStep
  <1> QED BY <1>1, <1>2, TypedAlways, PTL DEF Spec

\* Under the discipline no two handles are begun, and the database refuses its
\* connection while one is.
THEOREM OneTransactionAtATime ==
  ASSUME Disciplined
  PROVE  Spec => [](SingleHolder /\ ConnectionRefusedInTransaction)
  <1>1. Typed /\ OwnershipInv /\ DisciplinedInv
          => SingleHolder /\ ConnectionRefusedInTransaction
    BY DEF DisciplinedInv, ConnectionRefusedInTransaction
  <1> QED BY <1>1, DisciplinedAlways, PTL

\* Under the discipline close() never pulls the connection away under a handle
\* that is begun or suspended in a call.
THEOREM NoHandleDangles ==
  ASSUME Disciplined
  PROVE  Spec => []NoDanglingConnection
  <1>1. Typed /\ OwnershipInv /\ DisciplinedInv => NoDanglingConnection
    <2> SUFFICES ASSUME Typed, OwnershipInv, DisciplinedInv PROVE NoDanglingConnection
      OBVIOUS
    <2>1. \A h \in Handles : call[h].op # "none"
            => Begun(h) \/ call[h].op \in Begins
      BY DEF OwnershipInv, Typed, Callers, Ops
    <2> QED BY <2>1 DEF DisciplinedInv, NoDanglingConnection
  <1> QED BY <1>1, DisciplinedAlways, PTL

-----------------------------------------------------------------------------
(* What the calls report of writes, for clients that keep to the           *)
(* discipline, as long as no statement slipped.  The session has an open   *)
(* transaction only for a begun handle, or for one whose BEGIN has been    *)
(* answered, and is outside autocommit mode only for those or for one      *)
(* whose BEGIN is being served.                                            *)

Answered(c) == call[c].answer \in {"ok", "refused"}
Done(c, op) == call[c].op = op /\ call[c].answer = "ok"

\* The server has ended the transaction of h, as far as h's call will report.
Finished(h) ==
  \/ call[h].op = "rollback" /\ Answered(h)
  \/ Succeeded(h, "commit")
  \/ call[h].op \in Ends /\ call[h].answer = "second"

\* While the database is free the session is in no transaction; an answered BEGIN
\* left it in one, an answered ROLLBACK or a COMMIT that will be reported ended it.
SessionFollows ==
  /\ ~mInTransaction /\ (\A h \in Handles : call[h].op \in Begins => ~Answered(h))
       => server.tx \in {"none", "lost"}
  /\ \A h \in Handles :
       /\ Done(h, "transaction") \/ Done(h, "rebegin") => server.tx # "none"
       /\ call[h].op \in Begins /\ call[h].answer = "refused" =>
            /\ server.tx \in {"none", "lost"}
            /\ server.tx = "none" => backend = "mysql"
  /\ \A h \in Handles :
       Finished(h) => server.tx \in {"none", "lost"}
  /\ server.tx = "lost" /\ backend = "sqlite" => ~mConnection \/ call[Plain].op = "close"
  /\ server.tx = "aborted" => backend = "postgres"
  /\ call[Plain].op \in {"none", "close"} \cup Texts

\* The same of autocommit mode, which only MySQL's calls ever leave.
ModeFollows ==
  /\ backend # "mysql" => server.auto /\ \A c \in Callers : call[c].answer # "second"
  /\ server.tx = "lost" \/ server.auto \/ mInTransaction \/ \E h \in Handles : call[h].op \in Begins
  /\ \A h \in Handles :
       (call[h].op \in Begins /\ call[h].answer = "refused") \/ (call[h].op \in Ends /\ Answered(h))
         => server.tx = "lost" \/ server.auto

\* Only a begun handle has uncommitted writes, and only in a transaction.
DirtyIsBegun ==
  /\ server.tx \notin {"open", "aborted"} => server.dirty = {}
  /\ \A c \in server.dirty : c \in Handles /\ Begun(c)

\* On SQLite the successful writes of a begun handle await its COMMIT as long
\* as its transaction lives, and are kept once the COMMIT has succeeded.
WritesAreIn(h) ==
  backend = "sqlite" /\ Begun(h) =>
    /\ server.tx = "open" /\ (h \in wrote \/ Done(h, "write"))
         => h \in server.dirty
    /\ Done(h, "commit") /\ h \in wrote => h \in server.kept

\* A begun handle whose transaction can still be undone as a whole.
Intact(h) ==
  /\ Begun(h)
  /\ backend = "sqlite" => h \notin erred
  /\ backend = "sqlite" /\ call[h].op # "none" => call[h].answer # "refused"
  /\ call[h].op = "commit" => call[h].answer = "waiting"

UndoIsWhole(h) ==
  Intact(h) => /\ h \notin server.kept
               /\ server.tx = "none" => call[h].op = "rollback" /\ call[h].answer # "waiting"

InStep ==
  /\ SessionFollows /\ ModeFollows /\ DirtyIsBegun
  /\ \A h \in Handles : WritesAreIn(h) /\ UndoIsWhole(h)

\* Nothing ever slips on SQLite, whose calls are one statement each.
SqliteInStep == backend = "sqlite" => ~slipped /\ \A c \in Callers : call[c].answer # "second"

WritesInv == SqliteInStep /\ (~slipped => InStep)

Disciplines == Typed /\ OwnershipInv /\ DisciplinedInv

LEMMA WritesInit == Init => WritesInv
  BY PlainIsNoHandle DEF Init, WritesInv, SqliteInStep, InStep, SessionFollows, Finished, ModeFollows, DirtyIsBegun,
     WritesAreIn, UndoIsWhole, Intact, Begun, Begins, Ends, Texts, NoCall, Callers, Succeeded, Answered, Done

\* The same while no call is suspended.
Free == \A c \in Callers : call[c].op = "none"

Settled ==
  /\ ~mInTransaction => server.tx \in {"none", "lost"}
  /\ server.tx = "lost" /\ backend = "sqlite" => ~mConnection
  /\ server.tx = "aborted" => backend = "postgres"
  /\ server.tx = "lost" \/ server.auto \/ mInTransaction
  /\ backend # "mysql" => server.auto /\ \A c \in Callers : call[c].answer # "second"
  /\ DirtyIsBegun
  /\ \A h \in Handles :
       Begun(h) =>
         /\ backend = "sqlite" /\ server.tx = "open" /\ h \in wrote => h \in server.dirty
         /\ (backend = "sqlite" => h \notin erred) => h \notin server.kept /\ server.tx # "none"

\* With no call suspended, InStep says what Settled says.
LEMMA SettledIs ==
  ASSUME Free, InStep
  PROVE  Settled
  <1>1. \A c \in Callers : call[c].op = "none"
    BY DEF Free
  <1>2. /\ ~mInTransaction => server.tx \in {"none", "lost"}
        /\ server.tx = "lost" /\ backend = "sqlite" => ~mConnection
        /\ server.tx = "aborted" => backend = "postgres"
        /\ server.tx = "lost" \/ server.auto \/ mInTransaction
        /\ backend # "mysql" => server.auto /\ \A c \in Callers : call[c].answer # "second"
    BY <1>1 DEF InStep, SessionFollows, Finished, ModeFollows, Begins, Callers
  <1>3. ASSUME NEW h \in Handles, Begun(h)
        PROVE  /\ backend = "sqlite" /\ server.tx = "open" /\ h \in wrote => h \in server.dirty
               /\ (backend = "sqlite" => h \notin erred) => h \notin server.kept /\ server.tx # "none"
    <2>1. call[h].op = "none" /\ WritesAreIn(h) /\ UndoIsWhole(h)
      BY <1>1 DEF Callers, InStep
    <2> QED BY <1>3, <2>1 DEF WritesAreIn, UndoIsWhole, Intact
  <1> QED BY <1>2, <1>3 DEF InStep, Settled

LEMMA SettledAgain ==
  ASSUME Free', Settled'
  PROVE  InStep'
  <1>1. \A c \in Callers : call'[c].op = "none"
    BY DEF Free, Callers
  <1>2. SessionFollows' /\ ModeFollows'
    BY <1>1 DEF Settled, SessionFollows, Finished, ModeFollows, Begins, Ends, Texts, Succeeded, Answered, Done, Callers
  <1>3. ASSUME NEW h \in Handles PROVE WritesAreIn(h)' /\ UndoIsWhole(h)'
    <2>1. call'[h].op = "none"
      BY <1>1 DEF Callers
    <2> QED BY <2>1 DEF Settled, WritesAreIn, UndoIsWhole, Intact, Done
  <1> QED BY <1>2, <1>3 DEF InStep, Settled

\* What slipped stays so.
LEMMA SlippedStays ==
  ASSUME Typed, [Next]_vars
  PROVE  slipped => slipped'
  <1>1. ASSUME NEW h \in Handles, HandleStep(h) PROVE slipped => slipped'
    <2>1. CASE CallTransaction(h) \/ CallRebegin(h) \/ \E op \in Ends \cup Texts : CallInTransaction(h, op)
      BY <2>1 DEF CallTransaction, CallRebegin, CallInTransaction, Issue
    <2>2. CASE Destroy(h)
      BY <2>2, SyncRollbackIs DEF Destroy
    <2> QED BY <1>1, <2>1, <2>2 DEF HandleStep, Construct, ReturnBegun, ReturnBeginFailed, ReturnText,
                 ReturnEnded, ReturnEndFailed, Move, MoveObject, wire
  <1>2. ASSUME NEW c \in Callers, Serve(c) PROVE slipped => slipped'
    BY <1>2, ServeIs
  <1> QED BY <1>1, <1>2 DEF Next, CallPlain, Issue, ReturnPlain, CallClose, ReturnClose, EndResult,
               LoseServer, Over, wire, vars

\* A call is made: nothing but call[c] that these facts speak of changes.
Sends(c, op) ==
  /\ Free /\ op # "none" /\ (c = Plain => op \in Texts \cup {"close"})
  /\ call'[c].op = op
  /\ call'[c].answer = "waiting" \/ (call'[c].answer = "refused" /\ op \in Texts /\ backend = "postgres")
  /\ \A d \in Callers \ {c} : call'[d] = call[d]
  /\ UNCHANGED <<backend, mConnection, mInTransaction, server, wrote, erred>>
  /\ \A h \in Handles : Begun(h)' <=> Begun(h)

LEMMA SendsFollow ==
  ASSUME Settled, NEW c \in Callers, NEW op, Sends(c, op)
  PROVE  InStep'
  <1>1. \A d \in Callers : \/ call'[d].op = "none"
                           \/ d = c /\ call'[d].op = op /\ call'[d].answer = "waiting"
                           \/ /\ d = c /\ call'[d].op = op /\ op \in Texts
                              /\ call'[d].answer = "refused" /\ backend = "postgres"
    BY DEF Sends, Free
  <1>2. SessionFollows' /\ ModeFollows'
    <2>1. SessionFollows'
      BY <1>1, PlainIsNoHandle DEF Sends, Settled, SessionFollows, Finished, Begins, Ends, Texts, Answered, Succeeded,
         Done, Callers
    <2>2. \A d \in Callers : d # c => call'[d] = call[d]
      BY DEF Sends
    <2>3. backend # "mysql" => server.auto /\ \A d \in Callers : call'[d].answer # "second"
      BY <1>1, <2>2 DEF Sends, Settled
    <2>4. \A h \in Handles : h \in Callers
      BY DEF Callers
    <2> QED BY <1>1, <2>1, <2>3, <2>4 DEF Sends, Settled, ModeFollows, Begins, Ends, Texts, Answered
  <1>3. DirtyIsBegun'
    BY DEF Sends, Settled, DirtyIsBegun
  <1>4. ASSUME NEW h \in Handles PROVE WritesAreIn(h)' /\ UndoIsWhole(h)'
    <2>1. h \in Callers
      BY DEF Callers
    <2> QED BY <1>1, <2>1 DEF Sends, Settled, WritesAreIn, UndoIsWhole, Intact, Done, Texts
  <1> QED BY <1>2, <1>3, <1>4 DEF InStep

\* A call returns: it was the only one.
LEMMA ReturnFrees ==
  ASSUME Disciplines, NEW c \in Callers, call[c].op # "none", Return(c)
  PROVE  Free'
  <1>1. \A d \in Callers : d # c => call[d].op = "none"
    BY DEF Disciplines, DisciplinedInv
  <1> QED BY <1>1 DEF Disciplines, Typed, Return, NoCall, Free

\* Whoever is suspended in a call belongs to a begun handle, or nobody is begun.
LEMMA OneIsBegun ==
  ASSUME Disciplines, NEW c \in Callers, call[c].op # "none"
  PROVE  /\ \A d \in Callers \ {c} : call[d].op = "none"
         /\ call[c].op \in Ends \cup Texts /\ c \in Handles =>
              /\ Begun(c) /\ mOwns[c] /\ mInTransaction /\ mConnection
              /\ \A h \in Handles \ {c} : ~Begun(h)
         /\ c = Plain \/ call[c].op \in Begins =>
              ~mInTransaction /\ \A h \in Handles : ~Begun(h)
         /\ c \in Handles => call[c].op \in Ends \cup Texts \cup Begins
  <1>1. \A d \in Callers \ {c} : call[d].op = "none"
    BY DEF Disciplines, DisciplinedInv
  <1>2. ASSUME call[c].op \in Ends \cup Texts, c \in Handles
        PROVE  /\ Begun(c) /\ mOwns[c] /\ mInTransaction /\ mConnection
               /\ \A h \in Handles \ {c} : ~Begun(h)
    BY <1>2 DEF Disciplines, DisciplinedInv, OwnershipInv, SingleHolder
  <1>3. ASSUME c = Plain \/ call[c].op \in Begins
        PROVE  ~mInTransaction /\ \A h \in Handles : ~Begun(h)
    <2>1. ~mInTransaction
      BY <1>3, PlainIsNoHandle DEF Disciplines, DisciplinedInv, OwnershipInv, Begins, Ends, Texts, Callers
    <2> QED BY <2>1 DEF Disciplines, DisciplinedInv
  <1>4. c \in Handles => call[c].op \in Ends \cup Texts \cup Begins
    BY DEF Disciplines, Typed, OwnershipInv, Ops
  <1> QED BY <1>1, <1>2, <1>3, <1>4

\* The calls that can be made keep it.
LEMMA CallsFollow ==
  ASSUME Disciplines, InStep, Disciplined, ~slipped',
         \/ CallClose \/ \E op \in Texts : CallPlain(op)
         \/ \E h \in Handles : \/ CallTransaction(h) \/ CallRebegin(h)
                               \/ \E op \in Ends \cup Texts : CallInTransaction(h, op)
  PROVE  InStep'
  <1>1. Free
    BY DEF MayAct, InFlight, Disciplined, Free, CallPlain, CallClose, CallTransaction,
           CallRebegin, CallInTransaction
  <1>2. ASSUME NEW c \in Callers, NEW op \in Begins \cup Ends \cup Texts, c = Plain => op \in Texts, Issue(c, op),
               UNCHANGED <<backend, mConnection, mInTransaction, server, wrote, erred>>,
               \A h \in Handles : mState'[h] = mState[h] \/ {mState'[h], mState[h]} \subseteq {"absent", "Unused"}
        PROVE  Sends(c, op)
    <2>1. call \in [Callers -> [op : Ops, answer : Answers]]
      BY DEF Disciplines, Typed
    <2>2. op # "none"
      BY DEF Begins, Ends, Texts
    <2>3. /\ call'[c] = [op |-> op, answer |-> IF Refuses THEN "refused" ELSE "waiting"]
          /\ \A d \in Callers \ {c} : call'[d] = call[d]
      BY <1>2, <2>1 DEF Issue
    <2>4. Refuses => backend = "postgres" /\ op \in Texts
      BY <1>2 DEF Issue, Refuses
    <2>5. \A h \in Handles : Begun(h)' <=> Begun(h)
      BY <1>2 DEF Begun
    <2> QED BY <1>1, <1>2, <2>2, <2>3, <2>4, <2>5 DEF Sends
  <1>3. Settled
    BY <1>1, SettledIs
  <1>c. Plain \in Callers /\ \A h \in Handles : h \in Callers /\ h # Plain
    BY PlainIsNoHandle DEF Callers
  <1>4. ASSUME NEW op \in Texts, CallPlain(op) PROVE InStep'
    <2>1. Sends(Plain, op)
      BY <1>2, <1>4, <1>c DEF CallPlain, objects, told
    <2> QED BY <1>3, <1>c, <2>1, SendsFollow
  <1>5. CASE CallClose
    <2>1. call \in [Callers -> [op : Ops, answer : Answers]]
      BY DEF Disciplines, Typed
    <2>2. CASE mConnection
      <3>1. Sends(Plain, "close")
        BY <1>1, <1>5, <1>c, <2>1, <2>2 DEF CallClose, Sends, objects, told, Begun
      <3> QED BY <1>3, <1>c, <3>1, SendsFollow
    <2>3. CASE ~mConnection
      <3>1. /\ call' = [c \in Callers |-> NoCall]
            /\ UNCHANGED <<backend, mConnection, mInTransaction, mState, server, wrote, erred>>
        BY <1>5, <2>3 DEF CallClose, objects, told
      <3>2. Free' /\ \A c \in Callers : call'[c].answer # "second"
        BY <3>1 DEF NoCall, Free, Callers
      <3>3. Settled'
        BY <1>3, <3>1, <3>2 DEF Settled, DirtyIsBegun, Begun, Callers
      <3> QED BY <3>2, <3>3, SettledAgain
    <2> QED BY <2>2, <2>3
  <1>6. ASSUME NEW h \in Handles, CallTransaction(h) PROVE InStep'
    <2>1. \A g \in Handles : mState'[g] = mState[g] \/ {mState'[g], mState[g]} \subseteq {"absent", "Unused"}
      BY <1>6 DEF CallTransaction, Disciplines, Typed
    <2>2. /\ Issue(h, "transaction") /\ "transaction" \in Begins
          /\ UNCHANGED <<backend, mConnection, mInTransaction, server, wrote, erred>>
      BY <1>6 DEF CallTransaction, told, Begins
    <2>3. Sends(h, "transaction")
      BY <1>2, <1>c, <2>1, <2>2
    <2> QED BY <1>3, <1>c, <2>3, SendsFollow
  <1>7. ASSUME NEW h \in Handles, CallRebegin(h) PROVE InStep'
    <2>1. /\ Issue(h, "rebegin") /\ "rebegin" \in Begins
          /\ UNCHANGED <<backend, mConnection, mInTransaction, server, wrote, erred, mState>>
      BY <1>7 DEF CallRebegin, told, objects, Begins
    <2>2. Sends(h, "rebegin")
      BY <1>2, <1>c, <2>1
    <2> QED BY <1>3, <1>c, <2>2, SendsFollow
  <1>8. ASSUME NEW h \in Handles, NEW op \in Ends \cup Texts, CallInTransaction(h, op)
        PROVE  InStep'
    <2>1. Sends(h, op)
      BY <1>2, <1>8, <1>c DEF CallInTransaction, objects, told
    <2> QED BY <1>3, <1>c, <2>1, SendsFollow
  <1> QED BY <1>4, <1>5, <1>6, <1>7, <1>8

\* The return of a BEGIN that succeeded, or that PostgreSQL refused and the core
\* takes for one that succeeded.
LEMMA BegunFollows ==
  ASSUME Disciplines, InStep, NEW h \in Handles, ReturnBegun(h)
  PROVE  InStep'
  <1>1. /\ call[h].op \in Begins /\ call[h].op # "none" /\ h \in Callers /\ Return(h)
        /\ call[h].answer = "ok" \/ (call[h].answer = "refused" /\ backend = "postgres")
        /\ UNCHANGED <<backend, mConnection>>
    BY KnownBackends DEF ReturnBegun, Succeeded, Reports, Begins, Ends, Callers, Disciplines, Typed
  <1>2. Free' /\ ~mInTransaction /\ (\A g \in Handles : ~Begun(g)) /\ (h = Plain \/ call[Plain].op = "none")
    BY <1>1, ReturnFrees, OneIsBegun DEF Callers
  <1>3. server.tx # "none" /\ server.dirty = {}
    <2>1. server.tx # "none"
      BY <1>1, <1>2 DEF InStep, SessionFollows, Finished, Done, Begins
    <2>2. server.dirty = {}
      BY <1>2 DEF InStep, DirtyIsBegun
    <2> QED BY <2>1, <2>2
  <1>4. /\ server'.tx = server.tx /\ server'.dirty = {} /\ h \notin server'.kept /\ server'.auto = server.auto
        /\ h \notin wrote' /\ mInTransaction'
        /\ \A g \in Handles : Begun(g)' => g = h
    BY <1>2, <1>3 DEF ReturnBegun, Disciplines, Typed, Sessions, Begun
  <1>5. backend # "mysql" => server.auto /\ \A c \in Callers : call'[c].answer # "second"
    BY <1>1 DEF InStep, ModeFollows, Return, NoCall, Disciplines, Typed
  <1>6. /\ server.tx = "lost" /\ backend = "sqlite" => ~mConnection
        /\ server.tx = "aborted" => backend = "postgres"
    BY <1>1, <1>2, PlainIsNoHandle DEF InStep, SessionFollows, Finished
  <1>7. Settled'
    BY <1>1, <1>2, <1>3, <1>4, <1>5, <1>6 DEF Settled, DirtyIsBegun, Callers
  <1> QED BY <1>2, <1>7, SettledAgain

\* The other returns leave the server alone.
LEMMA ReturnsFollow ==
  ASSUME Disciplines, InStep,
         \/ ReturnPlain \/ ReturnClose
         \/ \E h \in Handles : ReturnBeginFailed(h) \/ ReturnText(h) \/ ReturnEnded(h) \/ ReturnEndFailed(h)
  PROVE  InStep'
  <1>a. ASSUME NEW c \in Callers, Return(c), UNCHANGED <<backend, server>>
        PROVE  backend' # "mysql" => server'.auto /\ \A d \in Callers : call'[d].answer # "second"
    BY <1>a DEF InStep, ModeFollows, Return, NoCall, Disciplines, Typed
  <1>1. ASSUME ReturnPlain \/ ReturnClose PROVE InStep'
    <2>1. /\ Plain \in Callers /\ call[Plain].op \in Texts \cup {"close"} /\ Return(Plain)
          /\ call[Plain].op # "none"
          /\ UNCHANGED <<backend, mInTransaction, server, mState>>
          /\ ~mConnection' \/ (mConnection' = mConnection /\ call[Plain].op # "close")
      BY <1>1 DEF ReturnPlain, ReturnClose, Succeeded, Failed, objects, Callers, Texts
    <2>2. Free' /\ ~mInTransaction /\ \A d \in Callers \ {Plain} : call[d].op = "none"
      BY <2>1, ReturnFrees, OneIsBegun
    <2>3. \A g \in Handles : ~Begun(g)
      BY <2>1, OneIsBegun
    <2>4. \A g \in Handles : call[g].op \notin Begins
      BY <2>2, PlainIsNoHandle DEF Begins, Callers
    <2>5. /\ server.tx \in {"none", "lost"} /\ server.dirty = {}
          /\ (server.tx = "lost" /\ backend = "sqlite" => ~mConnection')
          /\ server.tx = "lost" \/ server.auto
      BY <2>1, <2>2, <2>4 DEF InStep, SessionFollows, Finished, ModeFollows, DirtyIsBegun
    <2>6. Settled'
      BY <1>a, <2>1, <2>2, <2>3, <2>5 DEF Settled, DirtyIsBegun, Begun, Callers
    <2> QED BY <2>2, <2>6, SettledAgain
  <1>2. ASSUME NEW h \in Handles, ReturnBeginFailed(h) PROVE InStep'
    <2>1. /\ h \in Callers /\ call[h].op \in Begins /\ call[h].op # "none" /\ Return(h)
          /\ call[h].answer = "refused"
          /\ UNCHANGED <<backend, mConnection, mInTransaction, server>>
          /\ \A g \in Handles : Begun(g)' => Begun(g)
      BY <1>2 DEF ReturnBeginFailed, Failed, Callers, Begins, Begun, Disciplines, Typed
    <2>2. Free' /\ \A g \in Handles : ~Begun(g)
      BY <2>1, ReturnFrees, OneIsBegun
    <2>3. call[Plain].op = "none"
      BY <2>1, OneIsBegun, PlainIsNoHandle DEF Callers
    <2>a. server.tx \in {"none", "lost"} /\ (server.tx = "lost" \/ server.auto)
      BY <2>1 DEF InStep, SessionFollows, Finished, ModeFollows
    <2>b. server.dirty = {}
      BY <2>a DEF InStep, DirtyIsBegun
    <2>4. /\ server.tx \in {"none", "lost"} /\ server.dirty = {}
          /\ server.tx = "lost" => (backend = "sqlite" => ~mConnection)
          /\ server.tx = "lost" \/ server.auto
      BY <2>a, <2>b, <2>3 DEF InStep, SessionFollows, Finished
    <2>5. Settled'
      BY <1>a, <2>1, <2>2, <2>4 DEF Settled, DirtyIsBegun, Callers
    <2> QED BY <2>2, <2>5, SettledAgain
  <1>3. ASSUME NEW h \in Handles, ReturnText(h) \/ ReturnEnded(h) \/ ReturnEndFailed(h) PROVE InStep'
    <2>1. /\ h \in Callers /\ call[h].op \in Ends \cup Texts /\ call[h].op # "none" /\ Return(h)
          /\ UNCHANGED <<backend, mConnection, server>>
      BY <1>3 DEF ReturnText, ReturnEnded, ReturnEndFailed, Succeeded, Failed, Callers, Ends, Texts
    <2>2. Free' /\ Begun(h) /\ mOwns[h] /\ mInTransaction /\ mConnection /\ \A g \in Handles \ {h} : ~Begun(g)
      BY <2>1, ReturnFrees, OneIsBegun
    <2>3. call[Plain].op = "none" /\ WritesAreIn(h) /\ UndoIsWhole(h) /\ DirtyIsBegun
      BY <2>1, OneIsBegun, PlainIsNoHandle DEF Callers, InStep
    <2>m. /\ backend' # "mysql" => server'.auto /\ \A d \in Callers : call'[d].answer # "second"
          /\ server.tx = "aborted" => backend = "postgres"
          /\ server.tx = "lost" /\ backend = "sqlite" => ~mConnection
      <3>1. backend' # "mysql" => server'.auto /\ \A d \in Callers : call'[d].answer # "second"
        BY <1>a, <2>1
      <3> QED BY <2>3, <3>1 DEF InStep, SessionFollows, Finished
    <2>4. CASE ReturnText(h)
      <3>1. /\ call[h].op \in Texts /\ UNCHANGED <<mState, mInTransaction>>
            /\ \/ call[h].op = "write" /\ call[h].answer = "ok" /\ wrote' = wrote \cup {h} /\ erred' = erred
               \/ call[h].op = "query" /\ call[h].answer = "ok" /\ wrote' = wrote /\ erred' = erred
               \/ call[h].answer = "refused" /\ wrote' = wrote /\ erred' = erred \cup {h}
        BY <2>4 DEF ReturnText, Succeeded, Failed, Reports, objects, told, Texts
      <3>2. /\ backend = "sqlite" /\ server.tx = "open" /\ h \in wrote' => h \in server.dirty
            /\ (backend = "sqlite" => h \notin erred') => h \notin server.kept /\ server.tx # "none"
        BY <2>2, <2>3, <3>1 DEF WritesAreIn, UndoIsWhole, Intact, Done, Texts
      <3>3. Settled'
        BY <2>1, <2>2, <2>3, <2>m, <3>1, <3>2 DEF Settled, DirtyIsBegun, Begun, Callers
      <3> QED BY <2>2, <3>3, SettledAgain
    <2>5. CASE ReturnEndFailed(h)
      <3>1. UNCHANGED <<mState, mInTransaction, wrote>> /\ erred' = erred \cup {h} /\ backend = "sqlite"
        BY <2>5 DEF ReturnEndFailed, Failed, Reports, objects, Texts, Ends
      <3>2. backend = "sqlite" /\ server.tx = "open" /\ h \in wrote' => h \in server.dirty
        BY <2>2, <2>3, <3>1 DEF WritesAreIn
      <3>3. Settled'
        BY <2>1, <2>2, <2>3, <2>m, <3>1, <3>2 DEF Settled, DirtyIsBegun, Begun, Callers
      <3> QED BY <2>2, <3>3, SettledAgain
    <2>6. CASE ReturnEnded(h)
      <3>1. /\ (call[h].op = "rollback" /\ Answered(h)) \/ Succeeded(h, "commit")
            /\ call[h].op \in Ends /\ Answered(h)
            /\ ~Begun(h)' /\ \A g \in Handles \ {h} : mState'[g] = mState[g]
            /\ mInTransaction' = FALSE
        BY <2>2, <2>6 DEF ReturnEnded, Release, Succeeded, Answered, Begun, Disciplines, Typed, Ends
      <3>a. server.tx \in {"none", "lost"} /\ (server.tx = "lost" \/ server.auto)
        BY <3>1 DEF InStep, SessionFollows, Finished, ModeFollows
      <3>2. server.tx \in {"none", "lost"} /\ server.dirty = {} /\ (server.tx = "lost" \/ server.auto)
        BY <3>a DEF InStep, DirtyIsBegun
      <3>3. Settled'
        BY <2>1, <2>2, <2>3, <2>m, <3>1, <3>2 DEF Settled, DirtyIsBegun, Begun, Callers
      <3> QED BY <2>2, <3>3, SettledAgain
    <2> QED BY <1>3, <2>4, <2>5, <2>6
  <1> QED BY <1>1, <1>2, <1>3

\* Constructors, destructors and moves run while no call is suspended.
LEMMA ObjectsFollow ==
  ASSUME Disciplines, InStep, Disciplined, ~slipped',
         \E h \in Handles : Construct(h) \/ Destroy(h) \/ \E g \in Handles : Move(h, g)
  PROVE  InStep'
  <1>1. Free /\ call' = call
    BY DEF MayAct, InFlight, Disciplined, Free, Construct, Destroy, Move, MoveObject
  <1>2. Settled /\ Free'
    BY <1>1, SettledIs DEF Free
  <1>a. (\A c \in Callers : call[c].answer # "second") => \A c \in Callers : call'[c].answer # "second"
    BY <1>1
  <1>3. ASSUME NEW h \in Handles, Construct(h) PROVE Settled'
    <2>1. /\ UNCHANGED <<backend, mConnection, mInTransaction, server, wrote, erred>>
          /\ \A g \in Handles : Begun(g)' <=> Begun(g)
      BY <1>3 DEF Construct, told, Begun, Disciplines, Typed
    <2> QED BY <1>2, <1>a, <2>1 DEF Settled, DirtyIsBegun, Callers
  <1>4. ASSUME NEW h \in Handles, Destroy(h) PROVE Settled'
    <2>1. /\ ~Begun(h)' /\ \A g \in Handles \ {h} : Begun(g)' = Begun(g)
          /\ UNCHANGED <<backend, mConnection>> /\ wrote' = wrote \ {h} /\ erred' = erred \ {h}
          /\ mInTransaction' = (mInTransaction /\ ~mOwns[h])
      BY <1>4 DEF Destroy, Release, Begun, Disciplines, Typed
    <2>2. CASE Begun(h)
      <3>1. mOwns[h] /\ mLink[h] /\ mConnection /\ mInTransaction /\ \A g \in Handles \ {h} : ~Begun(g)
        BY <2>2 DEF Disciplines, OwnershipInv, DisciplinedInv, SingleHolder
      <3>2. SyncRollback
        BY <1>4, <2>2, <3>1 DEF Destroy, Begun
      <3>3. /\ server'.tx \in {"none", "lost"} /\ server'.dirty = {}
            /\ server'.tx = "lost" => server.tx = "lost"
            /\ server'.tx = "lost" \/ server'.auto
            /\ backend # "mysql" => server'.auto
        <4>s. server \in Sessions
          BY DEF Disciplines, Typed
        <4>d. /\ server.tx \notin {"open", "aborted"} => server.dirty = {}
              /\ backend # "mysql" => server.auto
          BY <1>2 DEF Settled, DirtyIsBegun
        <4>1. CASE backend # "mysql"
          <5>1. \E ok \in BOOLEAN : Rollback(ok)
            BY <3>2, <4>1 DEF SyncRollback
          <5>2. \/ server' = [server EXCEPT !.tx = "none", !.dirty = {}]
                \/ server' = server /\ server.tx \in {"none", "lost"}
            BY <5>1 DEF Rollback, Discard
          <5> QED BY <4>1, <4>d, <4>s, <5>2 DEF Sessions
        <4>2. CASE backend = "mysql"
          <5>1. \/ /\ \E on \in {server.auto, TRUE} :
                         server' = [server EXCEPT !.tx = "none", !.dirty = {}, !.auto = on]
                   /\ slipped' = (slipped \/ Astray)
                \/ server' = server /\ server.tx = "lost"
            BY <3>2, <4>2 DEF SyncRollback
          <5> QED BY <4>2, <4>d, <4>s, <5>1 DEF Sessions, Astray
        <4> QED BY <4>1, <4>2
      <3>4. \A g \in Handles : ~Begun(g)'
        BY <2>1, <3>1
      <3> QED BY <1>2, <1>a, <2>1, <3>1, <3>3, <3>4 DEF Settled, DirtyIsBegun, Callers
    <2>3. CASE ~Begun(h)
      <3>1. server' = server /\ ~mOwns[h]
        BY <1>4, <2>3 DEF Destroy, Disciplines, OwnershipInv, Begun
      <3> QED BY <1>2, <1>a, <2>1, <2>3, <3>1 DEF Settled, DirtyIsBegun, Callers
    <2> QED BY <2>2, <2>3
  <1>5. ASSUME NEW h \in Handles, NEW g \in Handles, Move(h, g) PROVE Settled'
    <2>1. /\ h # g /\ ~Begun(h)' /\ (Begun(g)' = Begun(h)) /\ ~Begun(g)
          /\ \A k \in Handles \ {h, g} : Begun(k)' = Begun(k)
      BY <1>5 DEF Move, MoveObject, Begun, Disciplines, Typed
    <2>2. /\ UNCHANGED <<backend, mConnection, mInTransaction>> /\ server'.tx = server.tx
          /\ server'.auto = server.auto
      BY <1>5 DEF Move, MoveObject, Disciplines, Typed, Sessions
    <2>3. /\ server'.dirty = Renamed(server.dirty, h, g) /\ server'.kept = Renamed(server.kept, h, g)
          /\ wrote' = Renamed(wrote, h, g) /\ erred' = Renamed(erred, h, g)
      BY <1>5 DEF Move, MoveObject, Disciplines, Typed, Sessions
    <2>4. ASSUME NEW S PROVE /\ g \in Renamed(S, h, g) <=> h \in S
                             /\ \A k : k \notin {h, g} => (k \in Renamed(S, h, g) <=> k \in S)
                             /\ h \notin Renamed(S, h, g)
                             /\ S = {} => Renamed(S, h, g) = {}
      BY <2>1 DEF Renamed
    <2>5. DirtyIsBegun'
      <3>1. server'.tx \notin {"open", "aborted"} => server'.dirty = {}
        BY <1>2, <2>2, <2>3, <2>4 DEF Settled, DirtyIsBegun
      <3>2. ASSUME NEW c \in server'.dirty PROVE c \in Handles /\ Begun(c)'
        <4>1. CASE c = g
          BY <1>2, <2>1, <2>3, <2>4, <3>2, <4>1 DEF Settled, DirtyIsBegun
        <4>2. CASE c # g
          <5>1. c # h /\ c \in server.dirty
            BY <2>3, <2>4, <3>2, <4>2
          <5> QED BY <1>2, <2>1, <4>2, <5>1 DEF Settled, DirtyIsBegun
        <4> QED BY <4>1, <4>2
      <3> QED BY <3>1, <3>2 DEF DirtyIsBegun
    <2>6. ASSUME NEW k \in Handles, Begun(k)'
          PROVE  \E b \in Handles :
                   /\ Begun(b)
                   /\ k \in wrote' <=> b \in wrote
                   /\ k \in erred' <=> b \in erred
                   /\ k \in server'.dirty <=> b \in server.dirty
                   /\ k \in server'.kept <=> b \in server.kept
      <3> DEFINE b == IF k = g THEN h ELSE k
      <3>1. b \in Handles /\ Begun(b) /\ k # h
        BY <2>1, <2>6
      <3>2. \A S : k \in Renamed(S, h, g) <=> b \in S
        BY <2>4, <3>1
      <3> QED BY <2>3, <3>1, <3>2
    <2> QED BY <1>2, <1>a, <2>2, <2>5, <2>6 DEF Settled, Callers
  <1> QED BY <1>2, <1>3, <1>4, <1>5, SettledAgain

\* The answer to a call of the program's own, or to a BEGIN, when the server has
\* executed its statement or one of its two.
LEMMA ServeOutside ==
  ASSUME Disciplines, InStep, ~slipped', NEW c \in Callers, Serve(c), c = Plain \/ call[c].op \in Begins
  PROVE  InStep'
  <1>1. PICK a \in {"second", "ok", "refused"} : call' = [call EXCEPT ![c].answer = a]
    BY ServeIs DEF Disciplines
  <1>2. /\ backend' = backend /\ mConnection' = mConnection /\ mInTransaction' = mInTransaction
        /\ mState' = mState /\ wrote' = wrote /\ erred' = erred /\ call[c].op # "none"
    BY ServeIs DEF Disciplines, objects, told
  <1>3. /\ call'[c].op = call[c].op /\ call'[c].answer = a
        /\ \A d \in Callers \ {c} : call'[d] = call[d] /\ call[d].op = "none"
        /\ \A h \in Handles : Begun(h)' <=> Begun(h)
    BY <1>1, <1>2, OneIsBegun DEF Disciplines, Typed, Begun
  <1>4. ~mInTransaction /\ \A h \in Handles : ~Begun(h)
    BY <1>2, OneIsBegun
  <1>5. ~Answered(c)
    BY ServeIs DEF Answered, Disciplines
  <1>6. /\ server.tx \in {"none", "lost"} /\ server.dirty = {}
        /\ c = Plain => server.tx = "lost" \/ server.auto
        /\ backend # "mysql" => server.auto
    <2>1. \A h \in Handles : h = c \/ call[h].op = "none"
      BY <1>3 DEF Callers
    <2>2. \A h \in Handles : call[h].op \in Begins => ~Answered(h) /\ h = c
      BY <1>5, <2>1 DEF Begins
    <2> QED BY <1>4, <2>2, PlainIsNoHandle DEF InStep, SessionFollows, Finished, ModeFollows, DirtyIsBegun
  <1>7. /\ c = Plain => call[c].op \in Texts \cup {"close"}
        /\ c # Plain => c \in Handles /\ call[c].op \in Begins
    BY <1>2 DEF Callers, InStep, SessionFollows, Finished
  <1>8. /\ c # Plain /\ a = "ok" => server'.tx = "open"
        /\ c # Plain /\ a = "refused" => /\ server'.tx \in {"none", "lost"}
                                         /\ server'.tx = "none" => backend = "mysql"
                                         /\ server'.tx = "lost" \/ server'.auto
        /\ c # Plain /\ a = "second" => server'.tx = server.tx /\ backend = "mysql"
        /\ c = Plain => /\ server'.tx = server.tx \/ (call[c].op = "close" /\ server'.tx = "lost")
                        /\ a # "second"
                        /\ server'.tx = "lost" \/ server'.auto
        /\ server'.tx = "lost" => server.tx = "lost" \/ call[c].op = "close"
        /\ server'.dirty = {}
        /\ backend # "mysql" => server'.auto /\ a # "second"
    <2>1. CASE c = Plain
      <3>1. ServeWhole(c)
        BY <1>7, <2>1 DEF Serve, ServeFirst, ServeSecond, InTwo, Begins, Ends, Texts
      <3>2. \E ok \in BOOLEAN :
              /\ \/ call[c].op = "write" /\ Write(c, ok)
                 \/ call[c].op = "query" /\ Query(ok)
                 \/ server' = server
                 \/ call[c].op = "close" /\ Drop
              /\ call' = [call EXCEPT ![c].answer = IF ok THEN "ok" ELSE "refused"]
        BY <1>7, <2>1, <3>1 DEF ServeWhole, Begins, Texts
      <3>3. a # "second"
        BY <1>1, <3>2 DEF Disciplines, Typed
      <3>4. FailInside => server' = server
        BY <1>6 DEF FailInside
      <3>w. \A ok \in BOOLEAN : Write(c, ok) \/ Query(ok) =>
              \/ server' = server
              \/ server' = [server EXCEPT !.kept = server.kept \cup {c}]
        BY <1>6, <2>1, <3>4 DEF Write, Query
      <3>s. server \in Sessions
        BY DEF Disciplines, Typed
      <3>5. /\ server'.tx = server.tx \/ (call[c].op = "close" /\ server'.tx = "lost")
            /\ server'.dirty = {} /\ server'.auto = server.auto
        BY <1>6, <3>2, <3>w, <3>s DEF Drop, Sessions
      <3> QED BY <1>6, <1>7, <2>1, <3>3, <3>5
    <2>2. CASE c # Plain /\ ServeWhole(c)
      <3>1. PICK ok \in BOOLEAN : Begin(ok) /\ call' = [call EXCEPT ![c].answer = IF ok THEN "ok" ELSE "refused"]
        BY <1>7, <2>2 DEF ServeWhole, Begins, Texts
      <3>2. backend # "mysql" /\ a = IF ok THEN "ok" ELSE "refused"
        BY <1>1, <1>7, <2>2, <3>1 DEF ServeWhole, InTwo, Disciplines, Typed
      <3>3. \/ ok /\ server' = [server EXCEPT !.tx = "open"]
            \/ ~ok /\ server.tx = "lost" /\ server' = server
        BY <1>6, <3>1 DEF Begin
      <3> QED BY <1>6, <1>7, <2>2, <3>2, <3>3 DEF Disciplines, Typed, Sessions
    <2>3. CASE c # Plain /\ ServeFirst(c)
      <3>0. call'[c].answer = "second"
        BY <2>3 DEF ServeFirst, Disciplines, Typed
      <3>1. SetAutocommit(FALSE) /\ backend = "mysql" /\ a = "second"
        BY <1>3, <1>7, <2>3, <3>0 DEF ServeFirst, InTwo, Begins, Ends
      <3>2. server'.tx = server.tx /\ server'.dirty = server.dirty
        BY <3>1 DEF SetAutocommit, Disciplines, Typed, Sessions
      <3> QED BY <1>6, <2>3, <3>1, <3>2
    <2>4. CASE c # Plain /\ ServeSecond(c)
      <3>1. PICK ok \in BOOLEAN :
              /\ Begin(ok) \/ (~ok /\ server' = server)
              /\ slipped' = (slipped \/ (Astray /\ (ok => call[c].op \in Ends)))
              /\ call' = [call EXCEPT ![c].answer = IF ok THEN "ok" ELSE "refused"]
        BY <1>7, <2>4 DEF ServeSecond, Begins, Ends
      <3>2. backend = "mysql" /\ a = IF ok THEN "ok" ELSE "refused"
        BY <1>1, <2>4, <3>1 DEF ServeSecond, InStep, ModeFollows, Disciplines, Typed
      <3>3. ~ok => server'.tx = "lost" \/ server'.auto
        BY <3>1 DEF Astray
      <3>4. \/ ok /\ server' = [server EXCEPT !.tx = "open"]
            \/ ~ok /\ server' = server
        BY <1>6, <3>1 DEF Begin
      <3> QED BY <1>6, <1>7, <2>4, <3>2, <3>3, <3>4 DEF Disciplines, Typed, Sessions
    <2> QED BY <2>1, <2>2, <2>3, <2>4 DEF Serve
  <1>9. call'[Plain].op = call[Plain].op /\ (c # Plain => call[Plain].op = "none")
    BY <1>3 DEF Callers
  <1>h. /\ \A h \in Handles : h # c => call'[h].op = "none"
        /\ c # Plain => c \in Handles
        /\ \A h \in Handles : h # Plain
    BY <1>3, <1>7, PlainIsNoHandle DEF Callers
  <1>10. SessionFollows'
    <2>1. CASE c = Plain
      BY <1>2, <1>3, <1>4, <1>6, <1>7, <1>8, <1>9, <1>h, <2>1
         DEF InStep, SessionFollows, Finished, Begins, Ends, Answered, Succeeded, Done
    <2>2. CASE c # Plain
      BY <1>2, <1>3, <1>4, <1>6, <1>7, <1>8, <1>9, <1>h, <2>2
         DEF InStep, SessionFollows, Finished, Begins, Ends, Answered, Succeeded, Done
    <2> QED BY <2>1, <2>2
  <1>11. ModeFollows'
    <2>1. backend' # "mysql" => server'.auto /\ \A d \in Callers : call'[d].answer # "second"
      BY <1>2, <1>3, <1>8 DEF InStep, ModeFollows
    <2>2. CASE c = Plain
      BY <1>2, <1>8, <1>h, <2>1, <2>2 DEF ModeFollows, Begins, Ends, Answered, Callers
    <2>3. CASE c # Plain
      BY <1>2, <1>3, <1>7, <1>8, <1>h, <2>1, <2>3 DEF ModeFollows, Begins, Ends, Answered, Callers
    <2> QED BY <2>2, <2>3
  <1>12. DirtyIsBegun'
    BY <1>8 DEF DirtyIsBegun
  <1>13. ASSUME NEW h \in Handles PROVE WritesAreIn(h)' /\ UndoIsWhole(h)'
    BY <1>3, <1>4 DEF WritesAreIn, UndoIsWhole, Intact
  <1> QED BY <1>10, <1>11, <1>12, <1>13 DEF InStep

\* The answer to a call of a begun handle.
LEMMA ServeInside ==
  ASSUME Disciplines, InStep, ~slipped', NEW c \in Callers, Serve(c), c # Plain, call[c].op \notin Begins
  PROVE  InStep'
  <1>1. PICK a \in {"second", "ok", "refused"} : call' = [call EXCEPT ![c].answer = a]
    BY ServeIs DEF Disciplines
  <1>2. /\ backend' = backend /\ mConnection' = mConnection /\ mInTransaction' = mInTransaction
        /\ mState' = mState /\ wrote' = wrote /\ erred' = erred /\ call[c].op # "none"
        /\ call[c].answer \in {"waiting", "second"}
    BY ServeIs DEF Disciplines, objects, told
  <1>3. /\ call'[c].op = call[c].op /\ call'[c].answer = a
        /\ \A d \in Callers \ {c} : call'[d] = call[d] /\ call[d].op = "none"
        /\ \A h \in Handles : Begun(h)' <=> Begun(h)
    BY <1>1, <1>2, OneIsBegun DEF Disciplines, Typed, Begun
  <1>4. /\ c \in Handles /\ call[c].op \in Ends \cup Texts
        /\ Begun(c) /\ mInTransaction /\ mConnection /\ \A h \in Handles \ {c} : ~Begun(h)
    BY <1>2, OneIsBegun DEF Callers
  <1>5. /\ call[Plain].op = "none" /\ call'[Plain].op = "none"
        /\ WritesAreIn(c) /\ UndoIsWhole(c) /\ DirtyIsBegun
        /\ \A h \in Handles : h # c => call'[h].op = "none"
    BY <1>3, <1>4 DEF InStep, Callers
  <1>6. /\ server.tx \in {"none", "open", "aborted", "lost"} /\ server.auto \in BOOLEAN
        /\ server.tx = "lost" => backend # "sqlite"
        /\ server.tx = "aborted" => backend = "postgres"
        /\ backend # "mysql" => server.auto
        /\ call[c].answer = "second" => backend = "mysql"
        /\ call[c].op \in Ends /\ call[c].answer = "second" => server.tx \in {"none", "lost"}
    <2>1. server.tx \in {"none", "open", "aborted", "lost"} /\ server.auto \in BOOLEAN
      BY DEF Disciplines, Typed, Sessions
    <2>2. (server.tx = "lost" => backend # "sqlite") /\ (server.tx = "aborted" => backend = "postgres")
      BY <1>4, <1>5 DEF InStep, SessionFollows, Finished
    <2>3. backend # "mysql" => server.auto /\ \A d \in Callers : call[d].answer # "second"
      BY DEF InStep, ModeFollows
    <2>4. call[c].op \in Ends /\ call[c].answer = "second" => server.tx \in {"none", "lost"}
      BY <1>4 DEF InStep, SessionFollows, Finished
    <2> QED BY <2>1, <2>2, <2>3, <2>4
  <1>7. /\ server.tx \notin {"open", "aborted"} => server.dirty = {}
        /\ \A d \in server.dirty : d \in Handles /\ Begun(d)
    BY <1>5 DEF DirtyIsBegun
  <1>8. /\ backend = "sqlite" /\ server.tx = "open" /\ c \in wrote => c \in server.dirty
        /\ call[c].answer = "waiting" /\ (backend = "sqlite" => c \notin erred)
             => c \notin server.kept /\ server.tx # "none"
        /\ call[c].op = "rollback" /\ (backend = "sqlite" => c \notin erred) => c \notin server.kept
    BY <1>2, <1>4, <1>5, <1>6 DEF WritesAreIn, UndoIsWhole, Intact
  <1>s. server \in Sessions
    BY DEF Disciplines, Typed
  <1>k. /\ Discard => server' = [server EXCEPT !.tx = "none", !.dirty = {}]
        /\ Keep => server' = [server EXCEPT !.tx = "none", !.dirty = {}, !.kept = server.kept \cup server.dirty]
    BY DEF Discard, Keep
  \* What the server, and autocommit mode, may have become.
  <1>9. ASSUME /\ server'.tx \in {"none", "open", "aborted", "lost"}
               /\ server'.tx = "lost" => backend # "sqlite"
               /\ server'.tx = "aborted" => backend = "postgres"
               /\ server'.tx \notin {"open", "aborted"} => server'.dirty = {}
               /\ \A d \in server'.dirty : d \in server.dirty \/ d = c
               /\ call[c].op \in Ends /\ (a # "refused" \/ backend # "sqlite" \/ call[c].op = "rollback")
                    => server'.tx \in {"none", "lost"}
               /\ backend # "mysql" => server'.auto /\ a # "second"
               /\ call[c].op \in Ends /\ a # "second" => server'.tx = "lost" \/ server'.auto
               /\ a = "second" => call[c].op \in Ends
               /\ WritesAreIn(c)' /\ UndoIsWhole(c)'
        PROVE  InStep'
    <2>1. SessionFollows'
      BY <1>2, <1>3, <1>4, <1>5, <1>9, PlainIsNoHandle
         DEF SessionFollows, Finished, Begins, Ends, Texts, Answered, Succeeded, Reports, Done
    <2>2. ModeFollows'
      <3>1. backend' # "mysql" => server'.auto /\ \A d \in Callers : call'[d].answer # "second"
        BY <1>2, <1>3, <1>9 DEF InStep, ModeFollows
      <3> QED BY <1>2, <1>3, <1>4, <1>5, <1>9, <3>1 DEF ModeFollows, Begins, Ends, Texts, Answered, Callers
    <2>3. DirtyIsBegun'
      BY <1>3, <1>4, <1>7, <1>9 DEF DirtyIsBegun
    <2>4. \A h \in Handles \ {c} : WritesAreIn(h)' /\ UndoIsWhole(h)'
      BY <1>3, <1>4 DEF WritesAreIn, UndoIsWhole, Intact
    <2> QED BY <1>9, <2>1, <2>2, <2>3, <2>4 DEF InStep
  <1>10. CASE call[c].op \in Ends /\ ServeWhole(c)
    <2>1. backend # "mysql" /\ call[c].answer = "waiting"
      BY <1>10 DEF ServeWhole, InTwo
    <2>2. PICK ok \in BOOLEAN :
            /\ \/ call[c].op = "commit" /\ Commit(ok)
               \/ call[c].op = "rollback" /\ Rollback(ok)
            /\ call' = [call EXCEPT ![c].answer = IF ok THEN "ok" ELSE "refused"]
      BY <1>10 DEF ServeWhole, Begins, Ends, Texts
    <2>3. a = IF ok THEN "ok" ELSE "refused"
      BY <1>1, <2>2 DEF Disciplines, Typed
    <2>4. CASE call[c].op = "commit"
      <3>1. Commit(ok)
        BY <2>2, <2>4
      <3>2. /\ ok \/ backend # "sqlite" => server'.tx \in {"none", "lost"}
            /\ server'.tx \in {"none", "lost"} => server'.dirty = {}
            /\ server'.tx \in {"lost", "aborted", "open"} => server'.tx = server.tx /\ server'.dirty = server.dirty
            /\ server'.tx \in {"none", "open", "lost"}
            /\ backend = "sqlite" /\ ok => server.tx = "open" /\ server'.kept = server.kept \cup server.dirty
            /\ server'.auto = server.auto
        BY <1>6, <1>7, <1>s, <1>k, <3>1 DEF Commit, Sessions
      <3>3. WritesAreIn(c)' /\ UndoIsWhole(c)'
        BY <1>2, <1>3, <1>8, <2>3, <2>4, <3>2 DEF WritesAreIn, UndoIsWhole, Intact, Done
      <3> QED BY <1>6, <1>7, <1>9, <2>1, <2>3, <2>4, <3>2, <3>3
    <2>5. CASE call[c].op = "rollback"
      <3>1. Rollback(ok)
        BY <2>2, <2>5
      <3>2. /\ server'.tx \in {"none", "lost"} /\ server'.dirty = {} /\ server'.kept = server.kept
            /\ server'.tx = "lost" => server.tx = "lost"
            /\ server'.auto = server.auto
        BY <1>6, <1>7, <1>s, <1>k, <3>1 DEF Rollback, Sessions
      <3>3. WritesAreIn(c)' /\ UndoIsWhole(c)'
        BY <1>2, <1>3, <1>8, <2>1, <2>3, <2>5, <3>2 DEF WritesAreIn, UndoIsWhole, Intact, Done
      <3> QED BY <1>6, <1>7, <1>9, <2>1, <2>3, <2>5, <3>2, <3>3
    <2> QED BY <2>2, <2>4, <2>5
  <1>11. CASE call[c].op \in Ends /\ ServeFirst(c)
    <2>1. /\ backend = "mysql" /\ call[c].answer = "waiting" /\ ~OutOfSync
          /\ \E ok \in BOOLEAN :
               \/ call[c].op = "commit" /\ Commit(ok)
               \/ call[c].op = "rollback" /\ Rollback(ok)
      BY <1>11 DEF ServeFirst, InTwo, Begins, Ends
    <2>2. a = "second"
      BY <1>1, <1>11 DEF ServeFirst, Disciplines, Typed
    <2>3. /\ server'.tx \in {"none", "lost"} /\ server'.dirty = {}
          /\ call[c].op = "rollback" => server'.kept = server.kept
      BY <1>6, <1>7, <1>s, <1>k, <2>1 DEF Commit, Rollback, Sessions
    <2>4. WritesAreIn(c)' /\ UndoIsWhole(c)'
      BY <1>2, <1>3, <1>8, <1>11, <2>1, <2>2, <2>3 DEF WritesAreIn, UndoIsWhole, Intact, Ends
    <2> QED BY <1>9, <1>11, <2>1, <2>2, <2>3, <2>4
  <1>12. CASE call[c].op \in Ends /\ ServeSecond(c)
    <2>1. /\ backend = "mysql" /\ SetAutocommit(TRUE) /\ a = "ok"
          /\ slipped' = (slipped \/ Astray)
      BY <1>1, <1>6, <1>12 DEF ServeSecond, Begins, Ends, Disciplines, Typed
    <2>2. server.tx \in {"none", "lost"} /\ server.dirty = {}
      BY <1>6, <1>7, <1>12 DEF ServeSecond
    <2>3. /\ server'.tx = server.tx /\ server'.dirty = {} /\ server'.kept = server.kept
          /\ server'.tx = "lost" \/ server'.auto
      <3>1. server'.tx = "lost" \/ server'.auto
        BY <2>1 DEF Astray
      <3>2. \/ server' = server
            \/ server' = [server EXCEPT !.auto = TRUE]
            \/ server' = [server EXCEPT !.tx = "none", !.auto = TRUE, !.dirty = {},
                                        !.kept = server.kept \cup server.dirty] /\ server.tx # "lost"
        BY <2>1 DEF SetAutocommit
      <3>3. server.kept \cup server.dirty = server.kept
        BY <2>2
      <3> QED BY <1>s, <2>2, <3>1, <3>2, <3>3 DEF Sessions
    <2>4. WritesAreIn(c)' /\ UndoIsWhole(c)'
      BY <1>2, <1>3, <1>8, <1>12, <2>1, <2>3 DEF WritesAreIn, UndoIsWhole, Intact, Ends
    <2> QED BY <1>9, <1>12, <2>1, <2>2, <2>3, <2>4
  <1>13. CASE call[c].op \in Texts
    <2>1. ServeWhole(c)
      BY <1>6, <1>13 DEF Serve, ServeFirst, ServeSecond, InTwo, Begins, Ends, Texts
    <2>2. PICK ok \in BOOLEAN :
            /\ \/ call[c].op = "write" /\ Write(c, ok)
               \/ call[c].op = "query" /\ Query(ok)
               \/ ~ok /\ server' = server /\ backend = "mysql"
            /\ call' = [call EXCEPT ![c].answer = IF ok THEN "ok" ELSE "refused"]
      BY <1>13, <2>1 DEF ServeWhole, Begins, Texts, OutOfSync
    <2>3. a = (IF ok THEN "ok" ELSE "refused") /\ call[c].answer = "waiting"
      BY <1>1, <2>1, <2>2 DEF ServeWhole, Disciplines, Typed
    <2>4. \/ server' = server
          \/ server' = [server EXCEPT !.dirty = server.dirty \cup {c}] /\ server.tx = "open" /\ ok
          \/ server' = [server EXCEPT !.kept = server.kept \cup {c}] /\ server.tx = "none" /\ ok
          \/ server' = [server EXCEPT !.tx = "open", !.dirty = server.dirty \cup {c}]
               /\ server.tx = "none" /\ ~server.auto /\ ok
          \/ server' = [server EXCEPT !.tx = "aborted"] /\ server.tx = "open" /\ backend = "postgres" /\ ~ok
          \/ server' = [server EXCEPT !.tx = "none", !.dirty = {}] /\ backend = "sqlite" /\ ~ok
          \/ server' = [server EXCEPT !.dirty = {}] /\ backend = "mysql" /\ ~ok
      BY <1>k, <2>2 DEF Write, Query, FailInside
    <2>5. /\ server'.tx = "lost" => server.tx = "lost"
          /\ server'.tx \in {"none", "open", "aborted", "lost"}
          /\ server'.tx = "aborted" => backend = "postgres"
          /\ server'.tx \notin {"open", "aborted"} => server'.dirty = {}
          /\ server'.auto = server.auto
      BY <1>6, <1>7, <1>s, <2>4 DEF Sessions
    <2>d. \A d \in server'.dirty : d \in server.dirty \/ d = c
      <3>1. \/ server'.dirty = server.dirty \/ server'.dirty = {}
            \/ server'.dirty = server.dirty \cup {c}
        BY <1>s, <2>4 DEF Sessions
      <3> QED BY <3>1
    <2>6. /\ server.tx # "none" => server'.kept = server.kept
          /\ server.tx # "none" /\ (ok \/ backend # "sqlite") => server'.tx # "none"
      BY <1>6, <1>s, <2>4 DEF Sessions
    <2>7. backend = "sqlite" /\ server'.tx = "open" =>
            /\ server.tx = "open" /\ (c \in server.dirty => c \in server'.dirty)
            /\ (ok /\ call[c].op = "write") => c \in server'.dirty
      <3>1. backend = "sqlite" => server.auto
        BY <1>6
      <3>2. backend = "sqlite" /\ server'.tx = "open" =>
              server.tx = "open" /\ (c \in server.dirty => c \in server'.dirty)
        BY <1>s, <2>4, <3>1 DEF Sessions
      <3>4. ok /\ call[c].op = "write" => Write(c, TRUE)
        BY <2>2
      <3>5. ok /\ call[c].op = "write" /\ server.tx = "open" => c \in server'.dirty
        BY <1>s, <3>4 DEF Write, Sessions
      <3> QED BY <3>2, <3>5
    <2>8. WritesAreIn(c)'
      BY <1>2, <1>3, <1>8, <1>13, <2>3, <2>7 DEF WritesAreIn, Done, Texts
    <2>9. UndoIsWhole(c)'
      BY <1>2, <1>3, <1>8, <1>13, <2>3, <2>6 DEF UndoIsWhole, Intact, Texts
    <2>10. call[c].op \notin Ends
      BY <1>13 DEF Ends, Texts
    <2> QED BY <1>6, <1>9, <2>3, <2>5, <2>d, <2>8, <2>9, <2>10
  <1> QED BY <1>4, <1>10, <1>11, <1>12, <1>13 DEF Serve

\* The driver of a database never changes.
LEMMA BackendStays ==
  ASSUME [Next]_vars
  PROVE  backend' = backend
  BY DEF Next, HandleStep, CallTransaction, Construct, CallRebegin, CallInTransaction, ReturnBegun,
     ReturnBeginFailed, ReturnText, ReturnEnded, ReturnEndFailed, Destroy, Move, MoveObject, Serve,
     CallPlain, ReturnPlain, CallClose, ReturnClose, EndResult, LoseServer, Over, vars

\* Nothing slips on SQLite.
LEMMA SqliteStep ==
  ASSUME Typed, SqliteInStep, [Next]_vars
  PROVE  SqliteInStep'
  <1>1. backend' = backend
    BY BackendStays
  <1> SUFFICES ASSUME backend = "sqlite"
               PROVE  ~slipped' /\ \A c \in Callers : call'[c].answer # "second"
    BY <1>1 DEF SqliteInStep, Callers
  <1> USE DEF wire, Typed, SqliteInStep
  <1>i. ASSUME NEW c \in Callers, NEW op, Issue(c, op)
        PROVE  ~slipped' /\ \A d \in Callers : call'[d].answer # "second"
    BY <1>i DEF Issue, Refuses
  <1>r. ASSUME NEW c \in Callers, Return(c) PROVE \A d \in Callers : call'[d].answer # "second"
    BY <1>r DEF Return, NoCall
  <1>h. Plain \in Callers /\ \A h \in Handles : h \in Callers
    BY DEF Callers
  <1>2. ASSUME NEW h \in Handles, HandleStep(h)
        PROVE ~slipped' /\ \A c \in Callers : call'[c].answer # "second"
    <2>1. CASE CallTransaction(h) \/ CallRebegin(h) \/ \E op \in Ends \cup Texts : CallInTransaction(h, op)
      BY <1>h, <1>i, <2>1 DEF CallTransaction, CallRebegin, CallInTransaction
    <2>2. CASE \/ ReturnBegun(h) \/ ReturnBeginFailed(h) \/ ReturnText(h) \/ ReturnEnded(h) \/ ReturnEndFailed(h)
      BY <1>h, <1>r, <2>2 DEF ReturnBegun, ReturnBeginFailed, ReturnText, ReturnEnded, ReturnEndFailed
    <2>3. CASE Destroy(h)
      <3>1. slipped' = slipped /\ call' = call
        BY <2>3 DEF Destroy, SyncRollback
      <3> QED BY <3>1
    <2>4. CASE Construct(h) \/ \E g \in Handles : Move(h, g)
      <3>1. slipped' = slipped /\ call' = call
        BY <2>4 DEF Construct, Move, MoveObject
      <3> QED BY <3>1
    <2> QED BY <1>2, <2>1, <2>2, <2>3, <2>4 DEF HandleStep
  <1>3. ASSUME NEW c \in Callers, Serve(c)
        PROVE ~slipped' /\ \A d \in Callers : call'[d].answer # "second"
    <2>1. ServeWhole(c)
      BY <1>3 DEF Serve, ServeFirst, ServeSecond, InTwo
    <2> QED BY <2>1 DEF ServeWhole
  <1>4. ASSUME (\E op \in Texts : CallPlain(op)) \/ ReturnPlain \/ ReturnClose \/ CallClose
        PROVE ~slipped' /\ \A d \in Callers : call'[d].answer # "second"
    <2>1. CASE CallClose
      <3>1. slipped' = slipped /\ \A d \in Callers : call'[d].answer \in {call[d].answer, "waiting", "none"}
        BY <1>h, <2>1 DEF CallClose, NoCall
      <3> QED BY <3>1
    <2>2. ASSUME NEW op \in Texts, CallPlain(op)
          PROVE ~slipped' /\ \A d \in Callers : call'[d].answer # "second"
      BY <1>h, <1>i, <2>2 DEF CallPlain
    <2>3. CASE ReturnPlain \/ ReturnClose
      BY <1>h, <1>r, <2>3 DEF ReturnPlain, ReturnClose
    <2> QED BY <1>4, <2>1, <2>2, <2>3
  <1>5. ASSUME EndResult \/ LoseServer \/ UNCHANGED vars
        PROVE ~slipped' /\ \A d \in Callers : call'[d].answer # "second"
    BY <1>5 DEF EndResult, LoseServer, vars
  <1> QED BY <1>2, <1>3, <1>4, <1>5 DEF Next, Over

\* The inductive step.
LEMMA WritesStep ==
  ASSUME Disciplines, WritesInv, Disciplined, [Next]_vars
  PROVE  WritesInv'
  <1>1. SqliteInStep'
    BY SqliteStep DEF WritesInv, Disciplines
  <1> SUFFICES ASSUME ~slipped' PROVE InStep'
    BY <1>1 DEF WritesInv
  <1>2. InStep
    BY SlippedStays DEF WritesInv, Disciplines
  <1>3. CASE LoseServer
    <2>1. /\ backend # "sqlite" /\ server'.tx = "lost" /\ server'.dirty = {} /\ server'.kept = server.kept
          /\ server'.auto = server.auto
          /\ UNCHANGED <<backend, mConnection, mInTransaction, mState, call, wrote, erred>>
      BY <1>3 DEF LoseServer, Drop, objects, told, Disciplines, Typed, Sessions
    <2> QED BY <1>2, <2>1 DEF InStep, SessionFollows, Finished, ModeFollows, DirtyIsBegun, WritesAreIn, UndoIsWhole,
                        Intact, Begun, Answered, Succeeded, Reports, Done
  <1>4. CASE EndResult \/ UNCHANGED vars
    <2>1. UNCHANGED <<backend, mConnection, mInTransaction, mState, call, server, wrote, erred>>
      BY <1>4 DEF EndResult, vars, objects, told
    <2> QED BY <1>2, <2>1 DEF InStep, SessionFollows, Finished, ModeFollows, DirtyIsBegun, WritesAreIn, UndoIsWhole,
                        Intact, Begun, Answered, Succeeded, Reports, Done
  <1>5. ASSUME NEW c \in Callers, Serve(c) PROVE InStep'
    BY <1>2, <1>5, ServeInside, ServeOutside
  <1> QED BY <1>2, <1>3, <1>4, <1>5, CallsFollow, BegunFollows, ReturnsFollow, ObjectsFollow
          DEF Next, HandleStep, Over

\* Only the return of a commit makes a handle committed.
LEMMA LosesNever ==
  ASSUME Disciplines, InStep, [Next]_vars, NEW h \in Handles, backend = "sqlite"
  PROVE  ~Loses(h)
  <1> SUFFICES ASSUME Begun(h), mState'[h] = "Committed" PROVE h \notin wrote \/ h \in server'.kept
    BY DEF Loses
  <1> USE DEF Disciplines, Typed, Begun
  <1>1. ReturnEnded(h) /\ Succeeded(h, "commit")
    BY DEF Next, HandleStep, CallTransaction, Construct, CallRebegin, CallInTransaction, ReturnBegun,
       ReturnBeginFailed, ReturnText, ReturnEnded, ReturnEndFailed, Destroy, Move, MoveObject, Serve,
       CallPlain, ReturnPlain, CallClose, ReturnClose, EndResult, LoseServer, Over, objects, vars
  <1>2. call[h] = [op |-> "commit", answer |-> "ok"]
    BY <1>1 DEF Succeeded, Reports, Callers
  <1>3. WritesAreIn(h) /\ server' = server
    BY <1>1 DEF ReturnEnded, InStep
  <1> QED BY <1>2, <1>3 DEF WritesAreIn, Done

\* Only the return of a rollback, or the destructor, undoes a begun handle.
LEMMA LeaksNever ==
  ASSUME Disciplines, InStep, [Next]_vars, ~slipped', NEW h \in Handles, backend = "sqlite" => h \notin erred
  PROVE  ~Leaks(h)
  <1> SUFFICES ASSUME Begun(h), mState'[h] \in {"RolledBack", "absent"}
               PROVE h \notin server'.kept /\ h \notin server'.dirty
    BY DEF Leaks
  <1> USE DEF Disciplines, Typed, Begun
  <1>1. (ReturnEnded(h) /\ Succeeded(h, "rollback")) \/ Destroy(h)
    <2>1. ASSUME NEW g \in Handles, HandleStep(g) PROVE g = h /\ (ReturnEnded(h) \/ Destroy(h))
      <3>1. CASE \/ CallTransaction(g) \/ Construct(g) \/ CallRebegin(g) \/ ReturnBegun(g)
                 \/ \E op \in Ends \cup Texts : CallInTransaction(g, op)
        BY <3>1 DEF CallTransaction, Construct, CallRebegin, ReturnBegun, CallInTransaction, objects
      <3>2. CASE ReturnBeginFailed(g) \/ ReturnText(g) \/ ReturnEndFailed(g)
        BY <3>2 DEF ReturnBeginFailed, Failed, OwnershipInv, Begins, ReturnText, ReturnEndFailed, objects
      <3>3. CASE ReturnEnded(g) \/ Destroy(g)
        BY <3>3 DEF ReturnEnded, Destroy
      <3>4. CASE \E k \in Handles : Move(g, k)
        BY <3>4 DEF Move, MoveObject
      <3> QED BY <2>1, <3>1, <3>2, <3>3, <3>4 DEF HandleStep
    <2>2. CASE \/ \E c \in Callers : Serve(c)
               \/ (\E op \in Texts : CallPlain(op)) \/ ReturnPlain \/ CallClose \/ ReturnClose
               \/ EndResult \/ LoseServer \/ UNCHANGED vars
      BY <2>2 DEF Serve, CallPlain, ReturnPlain, CallClose, ReturnClose, EndResult, LoseServer, objects, vars
    <2>3. ReturnEnded(h) => Succeeded(h, "rollback")
      BY DEF ReturnEnded
    <2> QED BY <2>1, <2>2, <2>3 DEF Next, Over
  <1>2. CASE ReturnEnded(h) /\ Succeeded(h, "rollback")
    <2>1. Answered(h) /\ call[h].op = "rollback" /\ (backend = "sqlite" => call[h].answer # "refused")
      BY <1>2 DEF Succeeded, Reports, Answered, Callers
    <2>2. h \notin server.kept /\ server.dirty = {}
      <3>1. server.tx \in {"none", "lost"} /\ UndoIsWhole(h) /\ Intact(h)
        BY <2>1 DEF InStep, SessionFollows, Finished, Intact
      <3> QED BY <2>1, <3>1 DEF InStep, UndoIsWhole, DirtyIsBegun
    <2> QED BY <1>2, <2>2 DEF ReturnEnded
  <1>3. CASE Destroy(h)
    <2>1. mOwns[h] /\ mLink[h] /\ mConnection
      BY DEF OwnershipInv, DisciplinedInv
    <2>2. call[h] = NoCall /\ SyncRollback
      BY <1>3, <2>1 DEF Destroy
    <2>3. h \notin server.kept /\ server.tx # "none"
      BY <2>2 DEF InStep, UndoIsWhole, Intact, NoCall
    <2>4. server.tx = "lost" => server.dirty = {}
      BY DEF InStep, DirtyIsBegun
    <2>5. CASE backend # "mysql"
      <3>1. \E ok \in BOOLEAN : Rollback(ok)
        BY <2>2, <2>5 DEF SyncRollback
      <3> QED BY <2>3, <2>4, <3>1 DEF Rollback, Discard, Sessions
    <2>6. CASE backend = "mysql"
      BY <2>2, <2>3, <2>4, <2>6 DEF SyncRollback, Sessions
    <2> QED BY <2>5, <2>6
  <1> QED BY <1>1, <1>2, <1>3

\* Under the discipline, and until a statement slips, commits, rollbacks and
\* destructions do to the writes what they report, and a write of the program's
\* own is in nobody's transaction; on SQLite no statement slips.
THEOREM WritesLand ==
  ASSUME Disciplined
  PROVE  Spec => WritesLandAsReported
  <1>1. Init => WritesInv
    BY WritesInit
  <1>2. Disciplines /\ WritesInv /\ [Next]_vars => WritesInv'
    BY WritesStep
  <1>3. Disciplines /\ WritesInv /\ [Next]_vars /\ ~slipped' => InStep
    BY SlippedStays DEF WritesInv, Disciplines
  <1>4. Disciplines /\ WritesInv /\ [Next]_vars /\ ~slipped'
          => \A h \in Handles : backend = "sqlite" => ~Loses(h)
    BY <1>3, LosesNever
  <1>5. Disciplines /\ WritesInv /\ [Next]_vars /\ ~slipped'
          => \A h \in Handles : (backend = "sqlite" => h \notin erred) => ~Leaks(h)
    BY <1>3, LeaksNever
  <1>6. Disciplines /\ WritesInv /\ [Next]_vars /\ ~slipped' => ~Caught
    BY <1>3, PlainIsNoHandle DEF InStep, DirtyIsBegun, Caught
  <1>7. Disciplines /\ WritesInv /\ [Next]_vars => (slipped' => backend # "sqlite")
    BY <1>2, BackendStays DEF WritesInv, SqliteInStep
  <1> QED BY <1>1, <1>2, <1>4, <1>5, <1>6, <1>7, DisciplinedAlways, PTL
       DEF Spec, Disciplines, WritesLandAsReported

-----------------------------------------------------------------------------
(* The lock implements TransactionLock.                                    *)

\* What the refinement mapping yields: the begun handle, or nobody.
LEMMA HolderIs ==
  ASSUME SingleHolder
  PROVE  /\ \A h \in Handles : Begun(h) => Holder = h
         /\ (\A h \in Handles : ~Begun(h)) => Holder = Plain
  BY DEF Holder, SingleHolder

\* Every step of the objects is a step, or a stutter, of the abstract lock.
LEMMA LockStep ==
  /\ Typed /\ OwnershipInv /\ DisciplinedInv
  /\ (Typed /\ OwnershipInv /\ DisciplinedInv)'
  /\ [Next]_vars
  => [Lock!Next]_(Lock!vars)
  <1> SUFFICES ASSUME Typed, OwnershipInv, DisciplinedInv,
                      Typed', OwnershipInv', DisciplinedInv', [Next]_vars
               PROVE  [Lock!Next]_(Lock!vars)
    OBVIOUS
  <1> USE DEF Lock!vars
  <1>h. /\ \A h \in Handles : Begun(h) => Holder = h
        /\ (\A h \in Handles : ~Begun(h)) => Holder = Plain
    BY HolderIs DEF DisciplinedInv
  <1>i. /\ \A h \in Handles : Begun(h)' => Holder' = h
        /\ (\A h \in Handles : ~Begun(h)') => Holder' = Plain
    <2>1. SingleHolder'
      BY DEF DisciplinedInv
    <2> QED BY <2>1 DEF Holder, SingleHolder
  <1>s. ASSUME \A h \in Handles : Begun(h)' <=> Begun(h), UNCHANGED mInTransaction
        PROVE [Lock!Next]_(Lock!vars)
    <2>1. CASE \E h \in Handles : Begun(h)
      BY <1>h, <1>i, <1>s, <2>1
    <2>2. CASE \A h \in Handles : ~Begun(h)
      BY <1>h, <1>i, <1>s, <2>2
    <2> QED BY <2>1, <2>2
  <1>e. ASSUME NEW h \in Handles, Begun(h), \A g \in Handles : ~Begun(g)',
               mInTransaction' = FALSE
        PROVE [Lock!Next]_(Lock!vars)
    <2>1. Holder = h /\ Holder' = Plain /\ h # Plain
      BY <1>e, <1>h, <1>i, PlainIsNoHandle
    <2> QED BY <1>e, <2>1 DEF Lock!Next, Lock!Free
  <1>1. ASSUME NEW h \in Handles, ReturnBegun(h) PROVE [Lock!Next]_(Lock!vars)
    <2>1. call[h].op \in Begins /\ ~mInTransaction
      BY <1>1 DEF ReturnBegun, Succeeded, DisciplinedInv, Begins
    <2>2. Holder = Plain
      BY <1>h, <2>1 DEF DisciplinedInv
    <2>3. Begun(h)'
      BY <1>1 DEF ReturnBegun, Begun, Typed
    <2>4. Holder' = h /\ mInTransaction' = TRUE
      BY <1>1, <1>i, <2>3 DEF ReturnBegun
    <2> QED BY <2>2, <2>4 DEF Lock!Next, Lock!Acquire
  <1>2. ASSUME NEW h \in Handles, ReturnEnded(h) PROVE [Lock!Next]_(Lock!vars)
    <2>1. Begun(h) /\ mOwns[h]
      BY <1>2 DEF ReturnEnded, Succeeded, OwnershipInv, Ends
    <2>2. \A g \in Handles : ~Begun(g)'
      BY <1>2, <2>1 DEF ReturnEnded, Begun, Typed, DisciplinedInv, SingleHolder
    <2>3. mInTransaction' = FALSE
      BY <1>2, <2>1 DEF ReturnEnded, Release
    <2> QED BY <1>e, <2>1, <2>2, <2>3
  <1>3. ASSUME NEW h \in Handles, Destroy(h) PROVE [Lock!Next]_(Lock!vars)
    <2>1. CASE Begun(h)
      <3>1. \A g \in Handles : ~Begun(g)'
        BY <1>3, <2>1 DEF Destroy, Begun, Typed, DisciplinedInv, SingleHolder
      <3>2. mInTransaction' = FALSE
        BY <1>3, <2>1 DEF Destroy, Release, OwnershipInv
      <3> QED BY <1>e, <2>1, <3>1, <3>2
    <2>2. CASE ~Begun(h)
      <3>1. \A g \in Handles : Begun(g)' <=> Begun(g)
        BY <1>3, <2>2 DEF Destroy, Begun, Typed
      <3>2. UNCHANGED mInTransaction
        BY <1>3, <2>2 DEF Destroy, Release, OwnershipInv, Typed
      <3> QED BY <1>s, <3>1, <3>2
    <2> QED BY <2>1, <2>2
  <1>4. ASSUME NEW h \in Handles, NEW g \in Handles, Move(h, g)
        PROVE [Lock!Next]_(Lock!vars)
    <2>1. CASE Begun(h)
      <3>1. Begun(g)'
        BY <1>4, <2>1 DEF Move, MoveObject, Begun, Typed
      <3>2. Holder = h /\ Holder' = g /\ h # Plain /\ UNCHANGED mInTransaction
        BY <1>4, <1>h, <1>i, <2>1, <3>1, PlainIsNoHandle DEF Move, MoveObject
      <3> QED BY <3>2 DEF Lock!Next, Lock!PassOn
    <2>2. CASE ~Begun(h)
      <3>1. \A k \in Handles : Begun(k)' <=> Begun(k)
        BY <1>4, <2>2 DEF Move, MoveObject, Begun, Typed
      <3> QED BY <1>s, <1>4, <3>1 DEF Move, MoveObject
    <2> QED BY <2>1, <2>2
  <1>5. ASSUME NEW h \in Handles,
               \/ CallTransaction(h) \/ Construct(h) \/ CallRebegin(h)
               \/ ReturnBeginFailed(h) \/ ReturnText(h) \/ ReturnEndFailed(h)
        PROVE [Lock!Next]_(Lock!vars)
    <2>1. \A g \in Handles : Begun(g)' <=> Begun(g)
      BY <1>5 DEF CallTransaction, Available, Construct, CallRebegin, ReturnBeginFailed, Failed,
                  ReturnText, ReturnEndFailed, objects, Begun, Typed, OwnershipInv, Begins
    <2>2. UNCHANGED mInTransaction
      BY <1>5 DEF CallTransaction, Available, Construct, CallRebegin, ReturnBeginFailed,
                  ReturnText, ReturnEndFailed
    <2> QED BY <1>s, <2>1, <2>2
  <1>6. ASSUME UNCHANGED <<mInTransaction, mState>> PROVE [Lock!Next]_(Lock!vars)
    BY <1>s, <1>6 DEF Begun
  <1>7. ASSUME NEW h \in Handles, NEW op \in Ends \cup Texts, CallInTransaction(h, op)
        PROVE [Lock!Next]_(Lock!vars)
    BY <1>6, <1>7 DEF CallInTransaction, objects
  <1>8. ASSUME NEW c \in Callers, Serve(c) PROVE [Lock!Next]_(Lock!vars)
    BY <1>6, <1>8 DEF Serve, objects
  <1>9. ASSUME \/ (\E op \in Texts : CallPlain(op)) \/ ReturnPlain \/ CallClose \/ ReturnClose
               \/ EndResult \/ LoseServer \/ UNCHANGED vars
        PROVE [Lock!Next]_(Lock!vars)
    BY <1>6, <1>9 DEF CallPlain, ReturnPlain, CallClose, ReturnClose, EndResult, LoseServer, objects, vars
  <1> QED BY <1>1, <1>2, <1>3, <1>4, <1>5, <1>7, <1>8, <1>9 DEF Next, HandleStep, Over

\* Under the discipline the transaction lock of SqlDatabase is TransactionLock.
THEOREM ImplementsTransactionLock ==
  ASSUME Disciplined
  PROVE  Spec => LockSpec
  <1>1. Init => Lock!Init
    <2> SUFFICES ASSUME Init PROVE Lock!Init
      OBVIOUS
    <2>1. \A h \in Handles : ~Begun(h)
      BY DEF Init, Begun
    <2> QED BY <2>1 DEF Init, Lock!Init, Holder
  <1> QED BY <1>1, LockStep, DisciplinedAlways, PTL DEF Spec, LockSpec, Lock!Spec
=============================================================================
