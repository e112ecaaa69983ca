------------------------ MODULE SqliteHandles_proofs ------------------------
(***************************************************************************)
(* Theorems about SqliteHandles, for every number of clients, result sets, *)
(* statements, handles and compiled statements.                            *)
(*                                                                         *)
(* HandleLivesWithVdbes is not inductive.  That the last holder may close  *)
(* a handle needs that a compiled statement has a holder, that each of its *)
(* holders has its handle as well, and that a call under way owns the      *)
(* object it works on.  What clients keep to is not needed for that; that  *)
(* a torn copy of mSqlite has no share in its handle is part of it.        *)
(*                                                                         *)
(* The second part is what holds when clients keep to the rules.  A result *)
(* set does not know where its compiled statement is: that the rows it     *)
(* gives are all rows of one run needs the link between the two, and that  *)
(* nobody else moves the statement ("one").  What execute() returns is     *)
(* what the handle counted last: that this is its own write, or one that   *)
(* finished since, needs that the write gives no rows ("plain") and that   *)
(* the connection keeps its handle ("session").                            *)
(***************************************************************************)
EXTENDS SqliteHandles, TLAPS, SequenceTheorems

Making   == {"prepare", "prepared", "refused"}
Told     == {"row", "done", "error"}
Stepping == {"step"} \cup Told

\* The object of a call is in the state the call's next step expects.
FindsObject(c) ==
  LET o == call[c].obj
  IN /\ o # None => obj[o].life # "none"
     /\ call[c].at \in Making =>
          /\ call[c].op \in {"query", "execute", "prepare"}
          /\ o \in (IF call[c].op = "prepare" THEN Stmts ELSE Sets)
          /\ obj[o].life = "local"
          /\ obj[o].vdbe # None <=> call[c].at = "prepared"
     /\ call[c].at \in Stepping =>
          /\ call[c].op \in {"execute", "next"}
          /\ o \in Sets /\ obj[o].vdbe # None
          /\ obj[o].life = (IF call[c].op = "next" THEN "live" ELSE "local")
     /\ call[c].at = "finalize" =>
          /\ call[c].op = "close"
          /\ o \in Stmts /\ obj[o].life = "live" /\ obj[o].vdbe # None
     /\ call[c].op = "execute" => call[c].at \in Making \cup Stepping
     /\ call[c].op = "next" => call[c].at \in Stepping
     /\ call[c].at \in {"open", "write", "drop"} => call[c].op \in {"connect", "disconnect"}

\* A call works on an object of its own.
CallsOwnObjects ==
  /\ \A c, d \in Clients : call[c].obj # None /\ call[c].obj = call[d].obj => c = d
  /\ \A c \in Clients : FindsObject(c)

\* A vdbe has a holder, and its holders have its handle and its command.
VdbesHaveHolders ==
  /\ \A o \in Objects :
       obj[o].vdbe # None =>
         /\ obj[o].of # None
         /\ vdbe[obj[o].vdbe].of = obj[o].of /\ vdbe[obj[o].vdbe].cmd = obj[o].cmd
  /\ \A v \in Vdbes :
       IF vdbe[v].of = None THEN vdbe[v] = NoVdbe ELSE \E o \in Objects : obj[o].vdbe = v
  /\ \A p, q \in Stmts : obj[p].vdbe # None /\ obj[p].vdbe = obj[q].vdbe => p = q

\* A handle somebody has a share in is open, and none is given up.
HeldIsOpen ==
  /\ conn # None => handle[conn].state = "open"
  /\ \A o \in Objects : obj[o].of # None /\ ~obj[o].bare => handle[obj[o].of].state = "open"
  /\ \A h \in Handles : handle[h].state # "leaked"

HandleInv == TypeOK /\ CallsOwnObjects /\ VdbesHaveHolders /\ HeldIsOpen

-----------------------------------------------------------------------------
(* Types of single records, and facts about single steps.                  *)

HandleType == [state : {"none", "new", "open", "leaked", "lost"}, counts : SUBSET Clients]
VdbeType   == [of : Handles \cup {None}, cmd : Commands \cup {NoCommand}, row : Nat]
ObjectType == [life : {"none", "local", "live"}, of : Handles \cup {None}, bare : BOOLEAN,
               vdbe : Vdbes \cup {None}, cmd : Commands \cup {NoCommand}]
ReadType   == [seen : Seq(Nat), runs : Nat, told : {"none", "end", "error"}]
CallType   == [op : Ops, at : Points, obj : Objects \cup {None}, stmt : Stmts \cup {None}]

\* The records the source starts from are of their types.
LEMMA FreshRecords ==
  /\ NoHandle \in HandleType /\ NoVdbe \in VdbeType /\ NoObject \in ObjectType
  /\ Unread \in ReadType /\ NoCall \in CallType
  BY DEF NoHandle, NoVdbe, NoObject, Unread, NoCall, NoCommand, HandleType, VdbeType, ObjectType,
         ReadType, CallType, Ops, Points

\* Forgetting the calls that were counted for touches the counts only.
LEMMA ForgottenKeepsStates ==
  ASSUME NEW hs \in [Handles -> HandleType], NEW c
  PROVE  /\ Forgotten(c, hs) \in [Handles -> HandleType]
         /\ \A h \in Handles : Forgotten(c, hs)[h].state = hs[h].state
  BY DEF Forgotten, HandleType

\* The deleter of sqlite3 (sqlite.cpp:450): a handle nobody has a share in is
\* closed.  When every compiled statement left has a holder with its handle, that
\* is refused only for the sake of a torn copy.
LEMMA ClosedInOrder ==
  ASSUME NEW c \in Handles \cup {None}, NEW objs, handle \in [Handles -> HandleType],
         \A o \in Objects : objs[o].vdbe \in Vdbes => vdbe[objs[o].vdbe].of = objs[o].of
  PROVE  /\ Closed(c, objs) \in [Handles -> HandleType]
         /\ \A h \in Handles :
              IF h \in Shares(c, objs) \/ handle[h].state # "open"
                THEN Closed(c, objs)[h] = handle[h]
                ELSE Closed(c, objs)[h].state \in {"none", "lost"} /\ Closed(c, objs)[h].counts \subseteq handle[h].counts
  <1> DEFINE alive == {objs[o].vdbe : o \in Objects} \cap Vdbes
             gone(h) ==
               IF \E v \in alive : vdbe[v].of = h
                 THEN [handle[h] EXCEPT !.state = IF \E o \in Objects : objs[o].bare /\ objs[o].of = h
                                                    THEN "lost" ELSE "leaked"]
               ELSE NoHandle
  <1>1. Closed(c, objs) =
          [h \in Handles |-> IF h \in Shares(c, objs) \/ handle[h].state # "open" THEN handle[h] ELSE gone(h)]
    BY DEF Closed
  <1>2. ASSUME NEW h \in Handles, h \notin Shares(c, objs)
        PROVE  gone(h) \in HandleType /\ gone(h).state \in {"none", "lost"} /\ gone(h).counts \subseteq handle[h].counts
    <2>1. CASE \E v \in alive : vdbe[v].of = h
      <3>1. PICK o \in Objects : objs[o].vdbe \in Vdbes /\ vdbe[objs[o].vdbe].of = h
        BY <2>1
      <3>2. objs[o].of = h
        BY <3>1
      <3>3. objs[o].bare
        BY <1>2, <3>2 DEF Shares
      <3>4. gone(h) = [handle[h] EXCEPT !.state = "lost"]
        BY <2>1, <3>2, <3>3
      <3> HIDE DEF gone
      <3> QED BY <3>4 DEF HandleType
    <2>2. CASE ~(\E v \in alive : vdbe[v].of = h)
      <3>1. gone(h) = NoHandle
        BY <2>2
      <3> HIDE DEF gone
      <3> QED BY <3>1, FreshRecords DEF NoHandle
    <2> QED BY <2>1, <2>2
  <1> HIDE DEF gone
  <1> QED BY <1>1, <1>2

\* Letting go of objects, and putting another handle into mSqlite: compiled
\* statements and handles without a holder go, and no others.
LEMMA HeldKeeps ==
  ASSUME HandleInv, NEW c \in Handles \cup {None}, c # None => handle[c].state = "open",
         NEW objs \in [Objects -> ObjectType], \A o \in Objects : objs[o] \in {obj[o], NoObject},
         conn' = c, obj' = objs,
         vdbe' = [v \in Vdbes |-> IF \E o \in Objects : objs[o].vdbe = v THEN vdbe[v] ELSE NoVdbe],
         handle' \in [Handles -> HandleType],
         \A h \in Handles : handle'[h].state = Closed(c, objs)[h].state
  PROVE  vdbe' \in [Vdbes -> VdbeType] /\ VdbesHaveHolders' /\ HeldIsOpen'
  <1> USE DEF HandleInv
  <1>1. /\ None \notin Vdbes \cup Handles /\ Stmts \subseteq Objects
        /\ NoObject.vdbe = None /\ NoObject.of = None /\ NoVdbe.of = None
        /\ vdbe \in [Vdbes -> VdbeType] /\ handle \in [Handles -> HandleType]
        /\ obj \in [Objects -> ObjectType]
    BY NoneIsNothing DEF TypeOK, NoObject, NoVdbe, VdbeType, HandleType, ObjectType, Objects
  <1>2. \A o \in Objects : objs[o].vdbe # None =>
          /\ objs[o].vdbe \in Vdbes /\ objs[o] = obj[o]
          /\ vdbe'[objs[o].vdbe] = vdbe[objs[o].vdbe]
    BY <1>1 DEF ObjectType
  <1>3. vdbe' \in [Vdbes -> VdbeType]
    BY <1>1, FreshRecords
  <1>4. VdbesHaveHolders'
    <2>1. \A o \in Objects :
            obj'[o].vdbe # None =>
              /\ obj'[o].of # None
              /\ vdbe'[obj'[o].vdbe].of = obj'[o].of /\ vdbe'[obj'[o].vdbe].cmd = obj'[o].cmd
      BY <1>2 DEF VdbesHaveHolders
    <2>2. \A v \in Vdbes :
            IF vdbe'[v].of = None THEN vdbe'[v] = NoVdbe ELSE \E o \in Objects : obj'[o].vdbe = v
      BY <1>1 DEF VdbesHaveHolders
    <2>3. \A p, q \in Stmts : obj'[p].vdbe # None /\ obj'[p].vdbe = obj'[q].vdbe => p = q
      BY <1>1, <1>2 DEF VdbesHaveHolders
    <2> QED BY <2>1, <2>2, <2>3 DEF VdbesHaveHolders
  <1>5. HeldIsOpen'
    <2>1. \A o \in Objects : objs[o].vdbe \in Vdbes => vdbe[objs[o].vdbe].of = objs[o].of
      BY <1>1, <1>2 DEF VdbesHaveHolders
    <2>2. \A h \in Handles :
            IF h \in Shares(c, objs) \/ handle[h].state # "open"
              THEN handle'[h].state = handle[h].state
              ELSE handle'[h].state \in {"none", "lost"}
      BY <1>1, <2>1, ClosedInOrder
    <2>3. \A o \in Objects : objs[o].of # None /\ ~objs[o].bare =>
            objs[o].of \in Handles /\ objs[o] = obj[o] /\ objs[o].of \in Shares(c, objs)
      BY <1>1 DEF ObjectType, Shares
    <2>4. conn' # None => handle'[conn'].state = "open"
      BY <2>2 DEF Shares
    <2>5. \A o \in Objects : obj'[o].of # None /\ ~obj'[o].bare => handle'[obj'[o].of].state = "open"
      BY <2>2, <2>3 DEF HeldIsOpen
    <2>6. \A h \in Handles : handle'[h].state # "leaked"
      BY <2>2 DEF HeldIsOpen
    <2> QED BY <2>4, <2>5, <2>6 DEF HeldIsOpen
  <1> QED BY <1>3, <1>4, <1>5

-----------------------------------------------------------------------------
(* Init and the actions.                                                   *)

LEMMA InitEstablishes == Init => HandleInv
  <1> SUFFICES ASSUME Init PROVE HandleInv
    OBVIOUS
  <1>1. PICK h \in Handles :
          /\ conn = h
          /\ handle = [g \in Handles |-> IF g = h THEN [NoHandle EXCEPT !.state = "open"] ELSE NoHandle]
    BY DEF Init
  <1>2. [NoHandle EXCEPT !.state = "open"] \in HandleType /\ [NoHandle EXCEPT !.state = "open"].state = "open"
    BY DEF NoHandle, HandleType
  <1>3. TypeOK
    <2>1. handle \in [Handles -> HandleType]
      BY <1>1, <1>2, FreshRecords
    <2>2. NoObject.life = "none" /\ NoObject.of = None
      BY DEF NoObject
    <2> QED BY <1>1, <2>1, <2>2, FreshRecords
        DEF Init, TypeOK, HandleType, VdbeType, ObjectType, ReadType, CallType, Objects
  <1>4. CallsOwnObjects
    BY DEF Init, CallsOwnObjects, FindsObject, NoCall, Making, Stepping, Told
  <1>5. VdbesHaveHolders
    BY DEF Init, VdbesHaveHolders, NoObject, NoVdbe, Objects
  <1>6. HeldIsOpen
    BY <1>1, <1>2 DEF Init, HeldIsOpen, NoObject, NoHandle
  <1> QED BY <1>3, <1>4, <1>5, <1>6 DEF HandleInv

\* The types of the parts, and what is known of the objects and calls.
LEMMA Types ==
  ASSUME TypeOK
  PROVE  /\ conn \in Handles \cup {None}
         /\ handle \in [Handles -> HandleType] /\ vdbe \in [Vdbes -> VdbeType]
         /\ obj \in [Objects -> ObjectType] /\ read \in [Sets -> ReadType]
         /\ call \in [Clients -> CallType]
         /\ \A c \in Clients : call[c].obj # None => call[c].obj \in Objects
         /\ \A o \in Objects : obj[o].life # "none" <=> obj[o].of # None
         /\ \A s \in Sets : s \in Objects /\ (obj[s].life = "live" => obj[s].vdbe # None)
         /\ \A p \in Stmts : p \in Objects /\ p \notin Sets
         /\ None \notin Objects \cup Vdbes \cup Handles \cup Clients
  BY NoneIsNothing, PlacesAreApart DEF TypeOK, Objects, HandleType, VdbeType, ObjectType, ReadType, CallType

\* A call finds its object as it was when a step touches neither.
LEMMA FindsObjectStill ==
  ASSUME NEW c \in Clients, FindsObject(c), call'[c] = call[c],
         call[c].obj # None => obj'[call[c].obj] = obj[call[c].obj]
  PROVE  FindsObject(c)'
  <1>1. None \notin Sets \cup Stmts
    BY NoneIsNothing
  <1> QED BY <1>1 DEF FindsObject

\* When every other call finds its object as it was, and not as that of c, the
\* calls own their objects.
LEMMA CallsStillOwn ==
  ASSUME CallsOwnObjects, NEW c \in Clients, FindsObject(c)',
         \A d \in Clients \ {c} :
           /\ call'[d] = call[d]
           /\ call[d].obj # None =>
                obj'[call[d].obj] = obj[call[d].obj] /\ call[d].obj # call'[c].obj
  PROVE  CallsOwnObjects'
  <1>1. \A d \in Clients \ {c} : FindsObject(d)'
    BY FindsObjectStill DEF CallsOwnObjects
  <1>2. \A d, e \in Clients : call'[d].obj # None /\ call'[d].obj = call'[e].obj => d = e
    BY DEF CallsOwnObjects
  <1> QED BY <1>1, <1>2 DEF CallsOwnObjects

\* When nothing is let go of, what is shared stays so.
LEMMA NothingLetGo ==
  ASSUME TypeOK, VdbesHaveHolders, HeldIsOpen, conn' = conn,
         \A o \in Objects :
           /\ obj'[o].of = obj[o].of /\ obj'[o].bare = obj[o].bare
           /\ obj'[o].vdbe = obj[o].vdbe /\ obj'[o].cmd = obj[o].cmd,
         \A v \in Vdbes :
           /\ vdbe'[v].of = vdbe[v].of /\ vdbe'[v].cmd = vdbe[v].cmd
           /\ vdbe[v].of = None => vdbe'[v] = vdbe[v],
         \A h \in Handles : handle'[h].state = handle[h].state
  PROVE  VdbesHaveHolders' /\ HeldIsOpen'
  <1>1. \A o \in Objects : obj[o].vdbe \in Vdbes \cup {None} /\ obj[o].of \in Handles \cup {None}
    BY Types DEF ObjectType
  <1>2. VdbesHaveHolders'
    BY <1>1, Types DEF VdbesHaveHolders
  <1>3. HeldIsOpen'
    BY <1>1, Types DEF HeldIsOpen
  <1> QED BY <1>2, <1>3

\* A step that only moves a call.
LEMMA MovingCallPreserves ==
  ASSUME HandleInv, NEW c \in Clients, NEW k \in CallType,
         call' = [call EXCEPT ![c] = k], UNCHANGED <<conn, handle, vdbe, obj, read>>,
         k.obj # None => \A d \in Clients \ {c} : call[d].obj # k.obj,
         FindsObject(c)'
  PROVE  HandleInv'
  <1> USE DEF HandleInv
  <1>1. TypeOK'
    <2>1. call' \in [Clients -> CallType]
      BY Types
    <2> QED BY <2>1 DEF TypeOK, CallType
  <1>2. CallsOwnObjects'
    <2>1. call'[c] = k /\ \A d \in Clients \ {c} : call'[d] = call[d]
      BY Types
    <2> QED BY <2>1, CallsStillOwn
  <1>3. VdbesHaveHolders' /\ HeldIsOpen'
    BY NothingLetGo
  <1> QED BY <1>1, <1>2, <1>3

LEMMA CallCommandPreserves ==
  ASSUME HandleInv, NEW c \in Clients, NEW op \in {"query", "execute", "prepare"},
         NEW o \in Objects, NEW cmd \in Commands, CallCommand(c, op, o, cmd)
  PROVE  HandleInv'
  <1> USE DEF HandleInv
  <1>1. o # None /\ call[c] = NoCall /\ obj[o].life = "none"
        /\ o \in (IF op = "prepare" THEN Stmts ELSE Sets)
    BY NoneIsNothing, Types DEF CallCommand, Idle, Objects
  <1>p. PICK h \in Handles, bare \in BOOLEAN :
          /\ Copied(h, bare)
          /\ obj' = [obj EXCEPT ![o] = [life |-> "local", of |-> h, bare |-> bare,
                                        vdbe |-> None, cmd |-> cmd]]
    BY DEF CallCommand
  <1> DEFINE new == [life |-> "local", of |-> h, bare |-> bare, vdbe |-> None, cmd |-> cmd]
             start == [op |-> op, at |-> "prepare", obj |-> o, stmt |-> None]
  <1>2. obj' = [obj EXCEPT ![o] = new] /\ call' = [call EXCEPT ![c] = start]
        /\ UNCHANGED <<conn, handle, vdbe, read>>
    BY <1>p DEF CallCommand, Start
  <1>3. new \in ObjectType /\ start \in CallType
    BY <1>1 DEF ObjectType, CallType, Ops, Points
  <1>4. obj[o].vdbe = None
    BY <1>1 DEF TypeOK, VdbesHaveHolders
  <1>5. TypeOK'
    <2>1. obj' \in [Objects -> ObjectType] /\ call' \in [Clients -> CallType]
      BY <1>2, <1>3, Types
    <2>2. \A p \in Objects : obj'[p] = IF p = o THEN new ELSE obj[p]
      BY <1>2, Types
    <2>3. \A p \in Objects : obj'[p].life # "none" <=> obj'[p].of # None
      BY <1>1, <2>2, Types
    <2>4. \A s \in Sets : obj'[s].life = "live" => obj'[s].vdbe # None
      BY <2>2, Types
    <2> QED BY <1>2, <2>1, <2>3, <2>4 DEF TypeOK, ObjectType, CallType
  <1>6. CallsOwnObjects'
    <2>1. \A d \in Clients \ {c} : call'[d] = call[d] /\ call[d].obj # o
                                   /\ (call[d].obj # None => obj'[call[d].obj] = obj[call[d].obj])
      BY <1>1, <1>2, Types DEF CallsOwnObjects, FindsObject
    <2>2. call'[c] = start /\ obj'[o] = new
      BY <1>2, Types
    <2>3. FindsObject(c)'
      BY <1>1, <2>2 DEF FindsObject, Making, Stepping, Told
    <2> QED BY <2>1, <2>2, <2>3, CallsStillOwn
  <1>7. VdbesHaveHolders'
    BY <1>1, <1>2, <1>4, Types DEF VdbesHaveHolders, Objects
  <1>8. HeldIsOpen'
    <2>1. /\ obj'[o].of = h /\ obj'[o].bare = bare
          /\ \A p \in Objects \ {o} : obj'[p] = obj[p]
      BY <1>2, Types
    <2>2. ~bare => h = conn
      BY <1>p DEF Copied
    <2> QED BY <1>2, <2>1, <2>2 DEF HeldIsOpen
  <1> QED BY <1>5, <1>6, <1>7, <1>8

LEMMA WorkPreparePreserves ==
  ASSUME HandleInv, NEW c \in Clients, WorkPrepare(c)
  PROVE  HandleInv'
  <1> USE DEF HandleInv
  <1> DEFINE o == call[c].obj
  <1>1. /\ call[c].at = "prepare" /\ FindsObject(c) /\ UNCHANGED <<conn, handle, read>>
        /\ o \in Objects /\ obj[o].life = "local" /\ obj[o].vdbe = None /\ obj[o].of \in Handles
    <2>1. call[c].at = "prepare" /\ FindsObject(c) /\ UNCHANGED <<conn, handle, read>>
      BY DEF WorkPrepare, CallsOwnObjects
    <2>2. o \in Objects /\ obj[o].life = "local" /\ obj[o].vdbe = None
      BY <2>1, Types DEF FindsObject, Making
    <2> QED BY <2>1, <2>2, Types DEF ObjectType
  <1>2. CASE Goto(c, "refused") /\ UNCHANGED <<vdbe, obj>>
    <2> DEFINE k == [call[c] EXCEPT !.at = "refused"]
    <2>1. k \in CallType /\ k.obj = o /\ k.op = call[c].op /\ k.at = "refused"
      BY Types DEF CallType, Points
    <2>2. call' = [call EXCEPT ![c] = k]
      BY <1>2 DEF Goto
    <2>3. call'[c] = k /\ obj' = obj
      BY <1>2, <2>2, Types
    <2> HIDE DEF k
    <2>4. FindsObject(c)'
      BY <1>1, <2>1, <2>3 DEF FindsObject, Making, Stepping, Told
    <2>5. \A d \in Clients \ {c} : call[d].obj # k.obj
      BY <1>1, <2>1, Types DEF CallsOwnObjects
    <2> QED BY <1>1, <1>2, <2>1, <2>2, <2>4, <2>5, MovingCallPreserves
  <1>3. ASSUME NEW v \in Vdbes, vdbe[v] = NoVdbe,
               vdbe' = [vdbe EXCEPT ![v] = [of |-> obj[o].of, cmd |-> obj[o].cmd, row |-> 0]],
               obj' = [obj EXCEPT ![o].vdbe = v], Goto(c, "prepared")
        PROVE  HandleInv'
    <2> DEFINE new == [obj[o] EXCEPT !.vdbe = v]
               made == [of |-> obj[o].of, cmd |-> obj[o].cmd, row |-> 0]
               k == [call[c] EXCEPT !.at = "prepared"]
    <2>1. /\ new \in ObjectType /\ new.vdbe = v /\ new.of = obj[o].of /\ new.cmd = obj[o].cmd
          /\ new.bare = obj[o].bare /\ new.life = "local" /\ made \in VdbeType
      <3>1. obj[o] \in ObjectType
        BY <1>1, Types
      <3> QED BY <1>1, <3>1 DEF ObjectType, VdbeType
    <2>2. k \in CallType /\ k.obj = o /\ k.op = call[c].op /\ k.at = "prepared"
      BY Types DEF CallType, Points
    <2>3. /\ obj' = [obj EXCEPT ![o] = new] /\ vdbe' = [vdbe EXCEPT ![v] = made]
          /\ call' = [call EXCEPT ![c] = k]
      BY <1>3 DEF Goto
    <2>4. made.of = obj[o].of /\ made.cmd = obj[o].cmd
      OBVIOUS
    <2>5. \A p \in Objects : obj[p].vdbe # v
      BY <1>3, Types DEF VdbesHaveHolders, NoVdbe
    <2> HIDE DEF new, made, k
    <2>6. /\ obj' \in [Objects -> ObjectType] /\ vdbe' \in [Vdbes -> VdbeType]
          /\ call' \in [Clients -> CallType]
          /\ obj'[o] = new /\ vdbe'[v] = made /\ call'[c] = k
          /\ \A p \in Objects \ {o} : obj'[p] = obj[p]
          /\ \A w \in Vdbes \ {v} : vdbe'[w] = vdbe[w]
          /\ \A d \in Clients \ {c} : call'[d] = call[d]
      BY <1>1, <2>1, <2>2, <2>3, Types
    <2>7. TypeOK'
      <3>1. \A p \in Objects : obj'[p].life # "none" <=> obj'[p].of # None
        BY <1>1, <2>1, <2>6, Types
      <3>2. \A s \in Sets : obj'[s].life = "live" => obj'[s].vdbe # None
        BY <2>1, <2>6, Types
      <3> QED BY <1>1, <2>6, <3>1, <3>2 DEF TypeOK, ObjectType, VdbeType, CallType
    <2>8. CallsOwnObjects'
      <3>1. FindsObject(c)'
        BY <1>1, <2>1, <2>2, <2>6, Types DEF FindsObject, Making, Stepping, Told
      <3>2. \A d \in Clients \ {c} : call[d].obj # None => call[d].obj \in Objects \ {o}
        BY <1>1, Types DEF CallsOwnObjects
      <3> QED BY <2>2, <2>6, <3>1, <3>2, CallsStillOwn
    <2>9. VdbesHaveHolders'
      <3>1. \A p \in Objects :
              obj'[p].vdbe # None =>
                /\ obj'[p].of # None
                /\ vdbe'[obj'[p].vdbe].of = obj'[p].of /\ vdbe'[obj'[p].vdbe].cmd = obj'[p].cmd
        <4>1. ASSUME NEW p \in Objects \ {o}, obj'[p].vdbe # None
              PROVE  /\ obj'[p].of # None
                     /\ vdbe'[obj'[p].vdbe].of = obj'[p].of
                     /\ vdbe'[obj'[p].vdbe].cmd = obj'[p].cmd
          BY <2>5, <2>6, <4>1, Types DEF VdbesHaveHolders, ObjectType
        <4> QED BY <1>1, <2>1, <2>4, <2>6, <4>1, Types
      <3>2. \A w \in Vdbes :
              IF vdbe'[w].of = None THEN vdbe'[w] = NoVdbe ELSE \E p \in Objects : obj'[p].vdbe = w
        <4>1. \E p \in Objects : obj'[p].vdbe = v
          BY <1>1, <2>1, <2>6
        <4>2. vdbe'[v].of # None
          BY <1>1, <2>4, <2>6, Types
        <4>3. ASSUME NEW w \in Vdbes \ {v}, vdbe[w].of # None
              PROVE  \E p \in Objects : obj'[p].vdbe = w
          <5>1. PICK p \in Objects : obj[p].vdbe = w
            BY <4>3 DEF VdbesHaveHolders
          <5> QED BY <1>1, <2>6, <5>1, Types
        <4> QED BY <2>6, <4>1, <4>2, <4>3 DEF VdbesHaveHolders
      <3>3. \A p, q \in Stmts : obj'[p].vdbe # None /\ obj'[p].vdbe = obj'[q].vdbe => p = q
        BY <2>1, <2>5, <2>6, Types DEF VdbesHaveHolders
      <3> QED BY <3>1, <3>2, <3>3 DEF VdbesHaveHolders
    <2>10. HeldIsOpen'
      BY <1>1, <2>1, <2>6 DEF HeldIsOpen
    <2> QED BY <2>7, <2>8, <2>9, <2>10
  <1> QED BY <1>2, <1>3 DEF WorkPrepare

\* query() and prepare() hand over what they made; execute() goes on.
LEMMA ReturnPreparedPreserves ==
  ASSUME HandleInv, NEW c \in Clients, ReturnPrepared(c)
  PROVE  HandleInv'
  <1> USE DEF HandleInv
  <1> DEFINE o == call[c].obj
  <1>1. /\ call[c].at = "prepared" /\ FindsObject(c) /\ UNCHANGED <<conn, handle, vdbe, read>>
        /\ o \in Objects /\ obj[o].life = "local" /\ obj[o].vdbe # None
    <2>1. call[c].at = "prepared" /\ FindsObject(c) /\ UNCHANGED <<conn, handle, vdbe, read>>
      BY DEF ReturnPrepared, CallsOwnObjects
    <2> QED BY <2>1, Types DEF FindsObject, Making
  <1>2. CASE call[c].op = "execute"
    <2> DEFINE k == [call[c] EXCEPT !.at = "step"]
    <2>1. k \in CallType /\ k.obj = o /\ k.op = "execute" /\ k.at = "step"
      BY <1>2, Types DEF CallType, Points
    <2>2. call' = [call EXCEPT ![c] = k] /\ obj' = obj
      BY <1>2 DEF ReturnPrepared, Goto
    <2>3. call'[c] = k
      BY <2>2, Types
    <2> HIDE DEF k
    <2>4. FindsObject(c)'
      BY <1>1, <1>2, <2>1, <2>2, <2>3 DEF FindsObject, Making, Stepping, Told
    <2>5. \A d \in Clients \ {c} : call[d].obj # k.obj
      BY <1>1, <2>1, Types DEF CallsOwnObjects
    <2> QED BY <1>1, <2>1, <2>2, <2>4, <2>5, MovingCallPreserves
  <1>3. CASE call[c].op # "execute"
    <2> DEFINE new == [obj[o] EXCEPT !.life = "live"]
    <2>1. /\ new \in ObjectType /\ new.vdbe = obj[o].vdbe /\ new.of = obj[o].of
          /\ new.bare = obj[o].bare /\ new.cmd = obj[o].cmd /\ new.life = "live"
      BY <1>1, Types DEF ObjectType
    <2>2. obj' = [obj EXCEPT ![o] = new] /\ call' = [call EXCEPT ![c] = NoCall]
      BY <1>3 DEF ReturnPrepared, Hangup
    <2> HIDE DEF new
    <2>3. /\ obj' \in [Objects -> ObjectType] /\ call' \in [Clients -> CallType]
          /\ obj'[o] = new /\ call'[c] = NoCall
          /\ \A p \in Objects \ {o} : obj'[p] = obj[p]
          /\ \A d \in Clients \ {c} : call'[d] = call[d]
      BY <1>1, <2>1, <2>2, Types, FreshRecords
    <2>4. TypeOK'
      <3>1. \A p \in Objects : obj'[p].life # "none" <=> obj'[p].of # None
        BY <1>1, <2>1, <2>3, Types
      <3>2. \A s \in Sets : obj'[s].life = "live" => obj'[s].vdbe # None
        BY <1>1, <2>1, <2>3, Types
      <3> QED BY <1>1, <2>3, <3>1, <3>2 DEF TypeOK, ObjectType, CallType
    <2>5. CallsOwnObjects'
      <3>1. FindsObject(c)'
        BY <2>3 DEF FindsObject, NoCall, Making, Stepping, Told
      <3>2. \A d \in Clients \ {c} : call[d].obj # None => call[d].obj \in Objects \ {o}
        BY <1>1, Types DEF CallsOwnObjects
      <3>3. call'[c].obj = None
        BY <2>3 DEF NoCall
      <3> QED BY <2>3, <3>1, <3>2, <3>3, CallsStillOwn
    <2>6. VdbesHaveHolders' /\ HeldIsOpen'
      BY <1>1, <2>1, <2>3, NothingLetGo
    <2> QED BY <2>4, <2>5, <2>6
  <1> QED BY <1>2, <1>3

\* A step of the connection or of a client that lets go of objects.
LEMMA LettingGoKeeps ==
  ASSUME HandleInv, NEW c \in Handles \cup {None}, c # None => handle[c].state = "open",
         NEW objs \in [Objects -> ObjectType], \A o \in Objects : objs[o] \in {obj[o], NoObject},
         conn' = c, obj' = objs,
         vdbe' = [v \in Vdbes |-> IF \E o \in Objects : objs[o].vdbe = v THEN vdbe[v] ELSE NoVdbe],
         NEW d, handle' \in {Closed(c, objs), Forgotten(d, Closed(c, objs))},
         read' \in [Sets -> ReadType], call' \in [Clients -> CallType], CallsOwnObjects'
  PROVE  HandleInv'
  <1> USE DEF HandleInv
  <1>1. /\ handle' \in [Handles -> HandleType]
        /\ vdbe' \in [Vdbes -> VdbeType] /\ VdbesHaveHolders' /\ HeldIsOpen'
    <2>1. \A o \in Objects : objs[o].vdbe \in Vdbes => vdbe[objs[o].vdbe].of = objs[o].of
      BY Types DEF VdbesHaveHolders, NoObject
    <2>2. Closed(c, objs) \in [Handles -> HandleType]
      BY <2>1, ClosedInOrder, Types
    <2>3. /\ handle' \in [Handles -> HandleType]
          /\ \A h \in Handles : handle'[h].state = Closed(c, objs)[h].state
      BY <2>2, ForgottenKeepsStates
    <2> QED BY <2>3, HeldKeeps
  <1>2. NoObject.life = "none" /\ NoObject.of = None
    BY DEF NoObject
  <1>3. TypeOK'
    <2>1. \A p \in Objects : obj'[p].life # "none" <=> obj'[p].of # None
      BY <1>2, Types
    <2>2. \A s \in Sets : obj'[s].life = "live" => obj'[s].vdbe # None
      BY <1>2, Types
    <2> QED BY <1>1, <2>1, <2>2
        DEF TypeOK, HandleType, VdbeType, ObjectType, ReadType, CallType
  <1> QED BY <1>1, <1>3

\* The half-made object of a refused command goes.
LEMMA ReturnRefusedPreserves ==
  ASSUME HandleInv, NEW c \in Clients, ReturnRefused(c)
  PROVE  HandleInv'
  <1> USE DEF HandleInv
  <1> DEFINE o == call[c].obj
             objs == [obj EXCEPT ![o] = NoObject]
  <1>1. call[c].at = "refused" /\ FindsObject(c) /\ o \in Objects
    <2>1. call[c].at = "refused" /\ FindsObject(c)
      BY DEF ReturnRefused, CallsOwnObjects
    <2> QED BY <2>1, Types DEF FindsObject, Making
  <1>2. /\ objs \in [Objects -> ObjectType]
        /\ \A p \in Objects : objs[p] = IF p = o THEN NoObject ELSE obj[p]
    BY Types, FreshRecords
  <1>3. Held(conn, objs) /\ call' = [call EXCEPT ![c] = NoCall] /\ read' = read
    BY DEF ReturnRefused, Hangup
  <1> HIDE DEF objs
  <1>4. /\ conn' = conn /\ obj' = objs /\ handle' = Closed(conn, objs)
        /\ vdbe' = [v \in Vdbes |-> IF \E p \in Objects : objs[p].vdbe = v THEN vdbe[v] ELSE NoVdbe]
    BY <1>3 DEF Held
  <1>5. CallsOwnObjects'
    <2>1. call'[c] = NoCall /\ NoCall.obj = None /\ \A d \in Clients \ {c} : call'[d] = call[d]
      BY <1>3, Types DEF NoCall
    <2>2. FindsObject(c)'
      BY <2>1 DEF FindsObject, NoCall, Making, Stepping, Told
    <2>3. \A d \in Clients \ {c} : call[d].obj # None => call[d].obj \in Objects \ {o}
      BY <1>1, Types DEF CallsOwnObjects
    <2> QED BY <1>2, <1>4, <2>1, <2>2, <2>3, CallsStillOwn
  <1>6. conn # None => handle[conn].state = "open"
    BY DEF HeldIsOpen
  <1>7. call' \in [Clients -> CallType]
    BY <1>3, Types, FreshRecords
  <1>8. \A p \in Objects : objs[p] \in {obj[p], NoObject}
    BY <1>2
  <1> QED BY <1>2, <1>3, <1>4, <1>5, <1>6, <1>7, <1>8, LettingGoKeeps, Types

\* A new result set of a statement shares what the statement holds.
LEMMA SharingKeeps ==
  ASSUME HandleInv, NEW s \in Sets, NEW p \in Stmts, NEW life \in {"local", "live"},
         obj[p].life = "live", obj[p].vdbe # None, obj[s].life = "none",
         obj' = [obj EXCEPT ![s] = Share(p, life)],
         UNCHANGED <<conn, handle, vdbe, read>>, call' \in [Clients -> CallType]
  PROVE  /\ TypeOK' /\ VdbesHaveHolders' /\ HeldIsOpen'
         /\ \A o \in Objects \ {s} : obj'[o] = obj[o]
         /\ obj'[s].vdbe = obj[p].vdbe /\ obj'[s].life = life
         /\ obj'[s].of = obj[p].of /\ obj'[s].bare = obj[p].bare /\ obj'[s].cmd = obj[p].cmd
  <1> USE DEF HandleInv
  <1> DEFINE new == Share(p, life)
  <1>1. /\ new \in ObjectType /\ new.vdbe = obj[p].vdbe /\ new.of = obj[p].of
        /\ new.bare = obj[p].bare /\ new.cmd = obj[p].cmd /\ new.life = life
    BY Types DEF Share, ObjectType
  <1>2. obj[s].vdbe = None /\ obj[s].of = None
    BY Types DEF VdbesHaveHolders
  <1> DEFINE objs == [obj EXCEPT ![s] = new]
  <1>3. obj' \in [Objects -> ObjectType] /\ obj'[s] = new /\ \A o \in Objects \ {s} : obj'[o] = obj[o]
    <2>1. obj' = objs
      OBVIOUS
    <2> HIDE DEF new
    <2> QED BY <1>1, <2>1, Types
  <1> HIDE DEF new
  <1>4. TypeOK'
    <2>1. \A o \in Objects : obj'[o].life # "none" <=> obj'[o].of # None
      BY <1>1, <1>3, Types
    <2>2. \A t \in Sets : obj'[t].life = "live" => obj'[t].vdbe # None
      BY <1>1, <1>3, Types
    <2> QED BY <1>3, <2>1, <2>2 DEF TypeOK, ObjectType, CallType
  <1>5. VdbesHaveHolders'
    <2>1. \A o \in Objects :
            obj'[o].vdbe # None =>
              /\ obj'[o].of # None
              /\ vdbe[obj'[o].vdbe].of = obj'[o].of /\ vdbe[obj'[o].vdbe].cmd = obj'[o].cmd
      BY <1>1, <1>3, Types DEF VdbesHaveHolders
    <2>2. \A v \in Vdbes : (\E o \in Objects : obj[o].vdbe = v) => \E o \in Objects : obj'[o].vdbe = v
      <3>1. ASSUME NEW v \in Vdbes, NEW o \in Objects, obj[o].vdbe = v
            PROVE  obj'[o].vdbe = v
        BY <1>2, <1>3, <3>1, Types
      <3> QED BY <3>1
    <2>3. \A q, r \in Stmts : obj'[q].vdbe # None /\ obj'[q].vdbe = obj'[r].vdbe => q = r
      BY <1>3, Types DEF VdbesHaveHolders
    <2> QED BY <2>1, <2>2, <2>3 DEF VdbesHaveHolders
  <1>6. HeldIsOpen'
    BY <1>1, <1>3, Types DEF HeldIsOpen
  <1> QED BY <1>1, <1>3, <1>4, <1>5, <1>6

LEMMA QueryPreparedPreserves ==
  ASSUME HandleInv, NEW s \in Sets, NEW p \in Stmts, QueryPrepared(s, p)
  PROVE  HandleInv'
  <1> USE DEF HandleInv
  <1>1. TypeOK' /\ VdbesHaveHolders' /\ HeldIsOpen' /\ \A o \in Objects \ {s} : obj'[o] = obj[o]
    BY SharingKeeps, Types DEF QueryPrepared
  <1>2. CallsOwnObjects'
    <2>1. obj[s].life = "none" /\ call' = call
      BY DEF QueryPrepared
    <2>2. \A c \in Clients : call[c].obj # None => call[c].obj \in Objects \ {s}
      BY <2>1, Types DEF CallsOwnObjects, FindsObject
    <2>3. \A c \in Clients : FindsObject(c)'
      BY <1>1, <2>1, <2>2, FindsObjectStill DEF CallsOwnObjects
    <2> QED BY <2>1, <2>3 DEF CallsOwnObjects
  <1> QED BY <1>1, <1>2

LEMMA ExecutePreparedPreserves ==
  ASSUME HandleInv, NEW c \in Clients, NEW s \in Sets, NEW p \in Stmts, ExecutePrepared(c, s, p)
  PROVE  HandleInv'
  <1> USE DEF HandleInv
  <1> DEFINE k == [op |-> "execute", at |-> "step", obj |-> s, stmt |-> p]
  <1>1. k \in CallType
    BY Types DEF CallType, Ops, Points
  <1>2. call' = [call EXCEPT ![c] = k] /\ obj[s].life = "none"
    BY DEF ExecutePrepared, Start
  <1>3. /\ call' \in [Clients -> CallType] /\ call'[c] = k
        /\ \A d \in Clients \ {c} : call'[d] = call[d]
    BY <1>1, <1>2, Types
  <1>4. /\ TypeOK' /\ VdbesHaveHolders' /\ HeldIsOpen'
        /\ \A o \in Objects \ {s} : obj'[o] = obj[o]
        /\ obj'[s].vdbe # None /\ obj'[s].life = "local"
    BY <1>3, SharingKeeps DEF ExecutePrepared
  <1>5. CallsOwnObjects'
    <2>1. \A d \in Clients : call[d].obj # None => call[d].obj \in Objects \ {s}
      BY <1>2, Types DEF CallsOwnObjects, FindsObject
    <2>2. FindsObject(c)'
      BY <1>3, <1>4, Types DEF FindsObject, Making, Stepping, Told
    <2> QED BY <1>3, <1>4, <2>1, <2>2, CallsStillOwn
  <1> QED BY <1>4, <1>5

LEMMA CallNextPreserves ==
  ASSUME HandleInv, NEW c \in Clients, NEW s \in Sets, CallNext(c, s)
  PROVE  HandleInv'
  <1> DEFINE k == [op |-> "next", at |-> "step", obj |-> s, stmt |-> None]
  <1>1. k \in CallType
    BY Types DEF CallType, Ops, Points, HandleInv
  <1>2. /\ call' = [call EXCEPT ![c] = k] /\ UNCHANGED <<conn, handle, vdbe, obj, read>>
        /\ obj[s].life = "live" /\ \A d \in Clients : call[d].obj # s
    BY DEF CallNext, Start, InUse
  <1>3. call'[c] = k
    BY <1>2, Types DEF HandleInv
  <1>4. FindsObject(c)'
    BY <1>2, <1>3, Types DEF FindsObject, Making, Stepping, Told, HandleInv
  <1> QED BY <1>1, <1>2, <1>4, MovingCallPreserves

\* sqlite3_step() changes where a vdbe is, and a count.
LEMMA WorkStepPreserves ==
  ASSUME HandleInv, NEW c \in Clients, WorkStep(c)
  PROVE  HandleInv'
  <1> USE DEF HandleInv
  <1> DEFINE s == call[c].obj
             v == obj[s].vdbe
  <1>1. /\ call[c].at = "step" /\ FindsObject(c) /\ UNCHANGED <<conn, obj>>
        /\ s \in Sets /\ v \in Vdbes /\ vdbe[v].of \in Handles
    <2>1. call[c].at = "step" /\ FindsObject(c) /\ UNCHANGED <<conn, obj>>
      BY DEF WorkStep, CallsOwnObjects
    <2>2. s \in Sets /\ obj[s].vdbe # None
      BY <2>1 DEF FindsObject, Stepping
    <2> QED BY <2>1, <2>2, Types DEF ObjectType, VdbesHaveHolders
  <1>2. PICK r \in {"row", "done", "error"} : Step(c, s, v, r) /\ Goto(c, r)
    BY DEF WorkStep
  <1> DEFINE k == [call[c] EXCEPT !.at = r]
             at == [vdbe[v] EXCEPT !.row = IF r = "row" THEN @ + 1 ELSE 0]
             runs == IF vdbe[v].row = 0 THEN read[s].runs + 1 ELSE read[s].runs
             now == [read[s] EXCEPT !.runs = runs]
  <1>3. k \in CallType /\ k.obj = s /\ k.op = call[c].op /\ k.at = r
    BY Types DEF CallType, Points
  <1>4. at \in VdbeType /\ at.of = vdbe[v].of /\ at.cmd = vdbe[v].cmd
    BY <1>1, Types DEF VdbeType
  <1>5. now \in ReadType
    <2>1. read[s] \in ReadType /\ runs \in Nat
      BY <1>1, Types DEF ReadType
    <2> HIDE DEF runs
    <2> QED BY <2>1 DEF ReadType
  <1>6. /\ call' = [call EXCEPT ![c] = k] /\ vdbe' = [vdbe EXCEPT ![v] = at]
        /\ read' = [read EXCEPT ![s] = now]
    BY <1>2 DEF Step, Goto
  <1> HIDE DEF k, at, now
  <1>7. /\ call' \in [Clients -> CallType] /\ vdbe' \in [Vdbes -> VdbeType]
        /\ read' \in [Sets -> ReadType]
        /\ call'[c] = k /\ \A d \in Clients \ {c} : call'[d] = call[d]
        /\ vdbe'[v] = at /\ \A w \in Vdbes \ {v} : vdbe'[w] = vdbe[w]
    BY <1>1, <1>3, <1>4, <1>5, <1>6, Types
  <1>8. /\ handle' \in [Handles -> HandleType]
        /\ \A h \in Handles : handle'[h].state = handle[h].state
    <2> DEFINE g == vdbe[v].of
               new == [handle[g] EXCEPT !.counts = @ \cup {c}]
    <2>1. g \in Handles /\ new \in HandleType /\ new.state = handle[g].state
      <3>1. g \in Handles /\ handle[g] \in HandleType
        BY <1>1, Types
      <3> HIDE DEF g
      <3>2. handle[g].counts \cup {c} \in SUBSET Clients
        BY <3>1 DEF HandleType
      <3> QED BY <3>1, <3>2 DEF HandleType
    <2>2. handle' = handle \/ handle' = [handle EXCEPT ![g] = new]
      BY <1>2 DEF Step
    <2> HIDE DEF g, new
    <2> QED BY <2>1, <2>2, Types
  <1>9. TypeOK'
    BY <1>1, <1>7, <1>8 DEF TypeOK, HandleType, VdbeType, ReadType, CallType
  <1>10. CallsOwnObjects'
    <2>1. FindsObject(c)'
      BY <1>1, <1>3, <1>7, Types DEF FindsObject, Making, Stepping, Told
    <2>2. \A d \in Clients \ {c} : call[d].obj # s
      BY <1>1, Types DEF CallsOwnObjects
    <2> QED BY <1>1, <1>3, <1>7, <2>1, <2>2, CallsStillOwn
  <1>11. VdbesHaveHolders' /\ HeldIsOpen'
    <2>1. \A w \in Vdbes :
            /\ vdbe'[w].of = vdbe[w].of /\ vdbe'[w].cmd = vdbe[w].cmd
            /\ vdbe[w].of = None => vdbe'[w] = vdbe[w]
      BY <1>1, <1>4, <1>7, Types
    <2> QED BY <1>1, <1>8, <2>1, NothingLetGo
  <1> QED BY <1>9, <1>10, <1>11

LEMMA ReturnNextPreserves ==
  ASSUME HandleInv, NEW c \in Clients, ReturnNext(c)
  PROVE  HandleInv'
  <1> USE DEF HandleInv
  <1> DEFINE s == call[c].obj
  <1>1. /\ call[c].at \in Told /\ s \in Sets /\ obj[s].vdbe \in Vdbes
        /\ UNCHANGED <<conn, vdbe, obj>> /\ handle' = Forgotten(c, handle)
        /\ call' = [call EXCEPT ![c] = NoCall]
    <2>1. /\ call[c].at \in Told /\ FindsObject(c) /\ UNCHANGED <<conn, vdbe, obj>>
          /\ handle' = Forgotten(c, handle) /\ call' = [call EXCEPT ![c] = NoCall]
      BY DEF ReturnNext, CallsOwnObjects, Told, Hangup
    <2>2. s \in Sets /\ obj[s].vdbe # None
      BY <2>1 DEF FindsObject, Stepping
    <2> QED BY <2>1, <2>2, Types DEF ObjectType
  <1>2. Tell(s, call[c].at) \in ReadType
    <2>1. read[s] \in ReadType /\ vdbe[obj[s].vdbe].row \in Nat
      BY <1>1, Types DEF VdbeType
    <2>2. Append(read[s].seen, vdbe[obj[s].vdbe].row) \in Seq(Nat)
      BY <2>1 DEF ReadType
    <2> QED BY <1>1, <2>1, <2>2 DEF Tell, ReadType, Told
  <1>3. read' \in [Sets -> ReadType] /\ call' \in [Clients -> CallType]
    BY <1>1, <1>2, Types, FreshRecords DEF ReturnNext
  <1>4. /\ handle' \in [Handles -> HandleType]
        /\ \A h \in Handles : handle'[h].state = handle[h].state
    BY <1>1, ForgottenKeepsStates, Types
  <1>5. TypeOK'
    BY <1>1, <1>3, <1>4 DEF TypeOK, HandleType, ReadType, CallType
  <1>6. CallsOwnObjects'
    <2>1. call'[c] = NoCall /\ NoCall.obj = None /\ \A d \in Clients \ {c} : call'[d] = call[d]
      BY <1>1, Types DEF NoCall
    <2>2. FindsObject(c)'
      BY <2>1 DEF FindsObject, NoCall, Making, Stepping, Told
    <2> QED BY <1>1, <2>1, <2>2, CallsStillOwn
  <1>7. VdbesHaveHolders' /\ HeldIsOpen'
    BY <1>1, <1>4, NothingLetGo
  <1> QED BY <1>5, <1>6, <1>7

\* execute() lets go of its result set when it has asked for the count.
LEMMA ReturnExecutePreserves ==
  ASSUME HandleInv, NEW c \in Clients, ReturnExecute(c)
  PROVE  HandleInv'
  <1> USE DEF HandleInv
  <1> DEFINE s == call[c].obj
             objs == [obj EXCEPT ![s] = NoObject]
  <1>1. call[c].at \in Told /\ s \in Sets /\ s # None
    <2>1. call[c].at \in Told /\ FindsObject(c)
      BY DEF ReturnExecute, CallsOwnObjects, Told
    <2> QED BY <2>1, Types DEF FindsObject, Stepping
  <1>2. /\ conn' = conn /\ obj' = objs /\ handle' = Forgotten(c, Closed(conn, objs))
        /\ vdbe' = [v \in Vdbes |-> IF \E p \in Objects : objs[p].vdbe = v THEN vdbe[v] ELSE NoVdbe]
        /\ read' = [read EXCEPT ![s] = Unread] /\ call' = [call EXCEPT ![c] = NoCall]
    BY DEF ReturnExecute, Hangup
  <1>3. /\ objs \in [Objects -> ObjectType]
        /\ \A p \in Objects : objs[p] = IF p = s THEN NoObject ELSE obj[p]
    BY Types, FreshRecords
  <1> HIDE DEF objs
  <1>4. CallsOwnObjects'
    <2>1. call'[c] = NoCall /\ NoCall.obj = None /\ \A d \in Clients \ {c} : call'[d] = call[d]
      BY <1>2, Types DEF NoCall
    <2>2. FindsObject(c)'
      BY <2>1 DEF FindsObject, NoCall, Making, Stepping, Told
    <2>3. \A d \in Clients \ {c} : call[d].obj # None => call[d].obj \in Objects \ {s}
      BY <1>1, Types DEF CallsOwnObjects
    <2> QED BY <1>2, <1>3, <2>1, <2>2, <2>3, CallsStillOwn
  <1>5. conn # None => handle[conn].state = "open"
    BY DEF HeldIsOpen
  <1>6. read' \in [Sets -> ReadType] /\ call' \in [Clients -> CallType]
    BY <1>2, Types, FreshRecords
  <1>7. \A p \in Objects : objs[p] \in {obj[p], NoObject}
    BY <1>3
  <1> QED BY <1>2, <1>3, <1>4, <1>5, <1>6, <1>7, LettingGoKeeps, Types

\* The calls that work on no object, and close().
LEMMA CallConnectionPreserves ==
  ASSUME HandleInv, NEW c \in Clients,
         CallConnect(c) \/ CallDisconnect(c) \/ ReturnOver(c) \/ \E p \in Stmts : CallClose(c, p)
  PROVE  HandleInv'
  <1> USE DEF HandleInv
  <1>1. ASSUME NEW op \in Ops, NEW at \in {"open", "drop", "none"},
               op \notin {"execute", "next"}, at # "none" => op \in {"connect", "disconnect"},
               call' = [call EXCEPT ![c] = [op |-> op, at |-> at, obj |-> None, stmt |-> None]],
               UNCHANGED <<conn, handle, vdbe, obj, read>>
        PROVE  HandleInv'
    <2> DEFINE k == [op |-> op, at |-> at, obj |-> None, stmt |-> None]
    <2>1. k \in CallType
      BY DEF CallType, Points
    <2>2. call'[c] = k
      BY <1>1, Types
    <2>3. FindsObject(c)'
      BY <1>1, <2>2 DEF FindsObject, Making, Stepping, Told
    <2> QED BY <1>1, <2>1, <2>3, MovingCallPreserves
  <1>2. ASSUME NEW p \in Stmts, CallClose(c, p) PROVE HandleInv'
    <2> DEFINE k == [op |-> "close", at |-> "finalize", obj |-> p, stmt |-> None]
    <2>1. k \in CallType
      BY Types DEF CallType, Ops, Points
    <2>2. /\ call' = [call EXCEPT ![c] = k] /\ UNCHANGED <<conn, handle, vdbe, obj, read>>
          /\ obj[p].life = "live" /\ obj[p].vdbe # None /\ \A d \in Clients : call[d].obj # p
      BY <1>2 DEF CallClose, Start, InUse
    <2>3. call'[c] = k
      BY <2>2, Types
    <2>4. FindsObject(c)'
      BY <2>2, <2>3, Types DEF FindsObject, Making, Stepping, Told
    <2> QED BY <2>1, <2>2, <2>4, MovingCallPreserves
  <1>3. CASE CallConnect(c)
    BY <1>1, <1>3 DEF CallConnect, Start, Ops
  <1>4. CASE CallDisconnect(c)
    BY <1>1, <1>4 DEF CallDisconnect, Start, Ops
  <1>5. CASE ReturnOver(c)
    BY <1>1, <1>5 DEF ReturnOver, Hangup, NoCall, Ops
  <1> QED BY <1>2, <1>3, <1>4, <1>5

\* A work step whose call is then over and keeps its object: what is left to
\* show of the calls.
LEMMA OverOwns ==
  ASSUME HandleInv, NEW c \in Clients, Goto(c, "over"), call[c].op \notin {"execute", "next"},
         \A o \in Objects : obj'[o].life = obj[o].life,
         \A o \in Objects : o # call[c].obj => obj'[o] = obj[o]
  PROVE  CallsOwnObjects' /\ call' \in [Clients -> CallType]
  <1> USE DEF HandleInv
  <1> DEFINE k == [call[c] EXCEPT !.at = "over"]
  <1>1. k \in CallType /\ k.obj = call[c].obj /\ k.op = call[c].op /\ k.at = "over"
    BY Types DEF CallType, Points
  <1>2. call' = [call EXCEPT ![c] = k]
    BY DEF Goto
  <1> HIDE DEF k
  <1>3. /\ call' \in [Clients -> CallType] /\ call'[c] = k
        /\ \A d \in Clients \ {c} : call'[d] = call[d]
    BY <1>1, <1>2, Types
  <1>4. FindsObject(c)'
    <2>1. call[c].obj # None => call[c].obj \in Objects /\ obj[call[c].obj].life # "none"
      BY Types DEF CallsOwnObjects, FindsObject
    <2> QED BY <1>1, <1>3, <2>1 DEF FindsObject, Making, Stepping, Told
  <1>5. \A d \in Clients \ {c} :
          call[d].obj # None => call[d].obj \in Objects /\ call[d].obj # call[c].obj
    BY Types DEF CallsOwnObjects
  <1> QED BY <1>1, <1>3, <1>4, <1>5, CallsStillOwn

\* connect() opens a handle that nobody has yet.
LEMMA WorkOpenPreserves ==
  ASSUME HandleInv, NEW c \in Clients, WorkOpen(c)
  PROVE  HandleInv'
  <1> USE DEF HandleInv
  <1>1. /\ call[c].at = "open" /\ FindsObject(c) /\ UNCHANGED <<conn, vdbe, obj, read>>
        /\ call[c].op \in {"connect", "disconnect"}
    BY DEF WorkOpen, CallsOwnObjects, FindsObject
  <1>2. PICK at \in {"write", "over"} : Goto(c, at)
    BY DEF WorkOpen
  <1> DEFINE k == [call[c] EXCEPT !.at = at]
  <1>3. k \in CallType /\ k.obj = call[c].obj /\ k.op = call[c].op /\ k.at = at
    BY Types DEF CallType, Points
  <1>4. call' = [call EXCEPT ![c] = k]
    BY <1>2 DEF Goto
  <1> HIDE DEF k
  <1>5. /\ call' \in [Clients -> CallType] /\ call'[c] = k
        /\ \A d \in Clients \ {c} : call'[d] = call[d]
    BY <1>3, <1>4, Types
  <1>6. /\ handle' \in [Handles -> HandleType]
        /\ \A h \in Handles :
             handle'[h].state = handle[h].state \/ (handle[h].state = "none" /\ handle'[h].state = "new")
    <2>1. CASE handle' = handle
      BY <2>1, Types
    <2>2. ASSUME NEW h \in Handles, handle[h].state = "none", handle' = [handle EXCEPT ![h].state = "new"]
          PROVE  <1>6!1 /\ <1>6!2
      <3> DEFINE new == [handle[h] EXCEPT !.state = "new"]
      <3>1. new \in HandleType /\ new.state = "new"
        BY Types DEF HandleType
      <3>2. handle' = [handle EXCEPT ![h] = new]
        BY <2>2
      <3> HIDE DEF new
      <3> QED BY <2>2, <3>1, <3>2, Types
    <2> QED BY <2>1, <2>2 DEF WorkOpen
  <1>7. TypeOK'
    BY <1>1, <1>5, <1>6 DEF TypeOK, HandleType, CallType
  <1>8. CallsOwnObjects'
    <2>1. FindsObject(c)'
      BY <1>1, <1>3, <1>5 DEF FindsObject, Making, Stepping, Told
    <2>2. \A d \in Clients \ {c} : call[d].obj # None => call[d].obj # call[c].obj
      BY Types DEF CallsOwnObjects
    <2> QED BY <1>1, <1>3, <1>5, <2>1, <2>2, CallsStillOwn
  <1>9. VdbesHaveHolders'
    BY <1>1 DEF VdbesHaveHolders
  <1>10. HeldIsOpen'
    <2>1. \A o \in Objects : obj[o].of \in Handles \cup {None}
      BY Types DEF ObjectType
    <2> QED BY <1>1, <1>6, <2>1, Types DEF HeldIsOpen
  <1> QED BY <1>7, <1>8, <1>9, <1>10

\* connect() puts its handle into mSqlite; what was there may go.
LEMMA WorkConnectPreserves ==
  ASSUME HandleInv, NEW c \in Clients, WorkConnect(c)
  PROVE  HandleInv'
  <1> USE DEF HandleInv
  <1>1. /\ call[c].op \notin {"execute", "next"} /\ Goto(c, "over") /\ UNCHANGED <<vdbe, obj, read>>
    BY DEF WorkConnect, CallsOwnObjects, FindsObject, Making, Stepping, Told
  <1>2. CallsOwnObjects' /\ call' \in [Clients -> CallType]
    BY <1>1, OverOwns
  <1>3. PICK h \in Handles :
          /\ handle[h].state = "new" /\ conn' = h
          /\ handle' = [Closed(h, obj) EXCEPT ![h].state = "open"]
    BY DEF WorkConnect
  <1> DEFINE hs == Closed(h, obj)
             new == [hs[h] EXCEPT !.state = "open"]
  <1>4. /\ hs \in [Handles -> HandleType]
        /\ \A g \in Handles :
             IF g \in Shares(h, obj) \/ handle[g].state # "open"
               THEN hs[g].state = handle[g].state ELSE hs[g].state \in {"none", "lost"}
    <2>1. \A o \in Objects : obj[o].vdbe \in Vdbes => vdbe[obj[o].vdbe].of = obj[o].of
      BY Types DEF VdbesHaveHolders
    <2> QED BY <2>1, ClosedInOrder, Types
  <1>5. handle' = [hs EXCEPT ![h] = new]
    BY <1>3
  <1> HIDE DEF hs
  <1>6. new \in HandleType /\ new.state = "open"
    BY <1>4 DEF HandleType
  <1> HIDE DEF new
  <1>7. /\ handle' \in [Handles -> HandleType]
        /\ handle'[h].state = "open"
        /\ \A g \in Handles \ {h} : handle'[g].state = hs[g].state
    BY <1>4, <1>5, <1>6
  <1>8. TypeOK'
    BY <1>1, <1>2, <1>3, <1>7 DEF TypeOK, HandleType, CallType
  <1>9. VdbesHaveHolders'
    BY <1>1 DEF VdbesHaveHolders
  <1>10. HeldIsOpen'
    <2>1. \A o \in Objects : obj[o].of # None /\ ~obj[o].bare =>
            obj[o].of \in Handles /\ obj[o].of \in Shares(h, obj)
      BY Types DEF ObjectType, Shares
    <2>2. \A o \in Objects : obj[o].of # None /\ ~obj[o].bare => handle'[obj[o].of].state = "open"
      BY <1>4, <1>7, <2>1 DEF HeldIsOpen
    <2>3. \A g \in Handles : handle'[g].state # "leaked"
      BY <1>4, <1>7 DEF HeldIsOpen
    <2> QED BY <1>1, <1>3, <1>7, <2>2, <2>3 DEF HeldIsOpen
  <1> QED BY <1>2, <1>8, <1>9, <1>10

LEMMA WorkDisconnectPreserves ==
  ASSUME HandleInv, NEW c \in Clients, WorkDisconnect(c)
  PROVE  HandleInv'
  <1> USE DEF HandleInv
  <1>1. call[c].op \notin {"execute", "next"} /\ Goto(c, "over") /\ Held(None, obj) /\ read' = read
    BY DEF WorkDisconnect, CallsOwnObjects, FindsObject, Making, Stepping, Told
  <1>2. CallsOwnObjects' /\ call' \in [Clients -> CallType]
    BY <1>1, OverOwns DEF Held
  <1> QED BY <1>1, <1>2, LettingGoKeeps, Types DEF Held

\* close() keeps the statement and finalizes the vdbe, or resets it when result
\* sets hold it too (sqlite.cpp:329-342).
LEMMA WorkClosePreserves ==
  ASSUME HandleInv, NEW c \in Clients, WorkClose(c)
  PROVE  HandleInv'
  <1> USE DEF HandleInv
  <1> DEFINE p == call[c].obj
             v == obj[p].vdbe
             new == [obj[p] EXCEPT !.vdbe = None]
             objs == [obj EXCEPT ![p].vdbe = None]
             shared == \E o \in Objects : objs[o].vdbe = v
             at == IF shared THEN [vdbe[v] EXCEPT !.row = 0] ELSE NoVdbe
  <1>1. /\ call[c].at = "finalize" /\ FindsObject(c) /\ Goto(c, "over") /\ UNCHANGED <<conn, read>>
        /\ call[c].op \notin {"execute", "next"}
    BY DEF WorkClose, CallsOwnObjects, FindsObject, Making, Stepping, Told
  <1>2. p \in Stmts /\ p \in Objects /\ obj[p].life = "live" /\ v \in Vdbes
    BY <1>1, Types DEF FindsObject, ObjectType
  <1>3. obj' = objs /\ handle' = handle
    BY DEF WorkClose
  <1>4. vdbe' = [vdbe EXCEPT ![v] = at]
    BY DEF WorkClose
  <1>5. /\ new \in ObjectType /\ new.vdbe = None /\ new.life = "live"
        /\ new.of = obj[p].of /\ new.bare = obj[p].bare /\ new.cmd = obj[p].cmd
    BY <1>2, Types DEF ObjectType
  <1>6. at \in VdbeType /\ (shared => at.of = vdbe[v].of /\ at.cmd = vdbe[v].cmd)
        /\ (~shared => at = NoVdbe)
    BY <1>2, Types, FreshRecords DEF VdbeType
  <1>7. objs = [obj EXCEPT ![p] = new]
    OBVIOUS
  <1> HIDE DEF new
  <1>8. /\ objs \in [Objects -> ObjectType] /\ objs[p] = new
        /\ \A o \in Objects \ {p} : objs[o] = obj[o]
    BY <1>2, <1>5, <1>7, Types
  <1> HIDE DEF objs
  <1>9. /\ vdbe' \in [Vdbes -> VdbeType] /\ vdbe'[v] = at /\ \A w \in Vdbes \ {v} : vdbe'[w] = vdbe[w]
    <2> HIDE DEF at
    <2> QED BY <1>2, <1>4, <1>6, Types
  <1>10. /\ handle' \in [Handles -> HandleType]
         /\ \A h \in Handles : handle'[h].state = handle[h].state
    BY <1>3, Types
  <1>11. CallsOwnObjects' /\ call' \in [Clients -> CallType]
    <2>1. \A o \in Objects : obj'[o].life = obj[o].life
      BY <1>2, <1>3, <1>5, <1>8
    <2> QED BY <1>1, <1>3, <1>8, <2>1, OverOwns
  <1>12. TypeOK'
    <2>1. \A o \in Objects : obj'[o].life # "none" <=> obj'[o].of # None
      BY <1>2, <1>3, <1>5, <1>8, Types
    <2>2. \A s \in Sets : obj'[s].life = "live" => obj'[s].vdbe # None
      BY <1>2, <1>3, <1>8, Types
    <2> QED BY <1>1, <1>3, <1>8, <1>9, <1>10, <1>11, <2>1, <2>2
        DEF TypeOK, HandleType, VdbeType, ObjectType, CallType
  <1>13. VdbesHaveHolders'
    <2>1. ASSUME NEW o \in Objects, objs[o].vdbe # None
          PROVE  /\ objs[o].of # None
                 /\ vdbe'[objs[o].vdbe].of = objs[o].of /\ vdbe'[objs[o].vdbe].cmd = objs[o].cmd
      <3>1. objs[o] = obj[o] /\ obj[o].vdbe \in Vdbes
        BY <1>5, <1>8, <2>1, Types DEF ObjectType
      <3>2. CASE obj[o].vdbe = v
        <4>1. shared
          BY <2>1, <3>1, <3>2
        <4>2. obj[o].of # None /\ vdbe[v].of = obj[o].of /\ vdbe[v].cmd = obj[o].cmd
          BY <2>1, <3>1, <3>2 DEF VdbesHaveHolders
        <4> HIDE DEF shared, at
        <4>3. vdbe'[v] = at /\ at.of = vdbe[v].of /\ at.cmd = vdbe[v].cmd
          BY <1>6, <1>9, <4>1
        <4> QED BY <3>1, <3>2, <4>2, <4>3
      <3>3. CASE obj[o].vdbe # v
        BY <1>9, <2>1, <3>1, <3>3 DEF VdbesHaveHolders
      <3> QED BY <3>2, <3>3
    <2>2. ASSUME NEW w \in Vdbes
          PROVE  IF vdbe'[w].of = None THEN vdbe'[w] = NoVdbe ELSE \E o \in Objects : objs[o].vdbe = w
      <3>1. CASE w # v
        <4>1. \A o \in Objects : obj[o].vdbe = w => objs[o].vdbe = w
          BY <1>8, <3>1
        <4> QED BY <1>9, <3>1, <4>1 DEF VdbesHaveHolders
      <3>2. CASE w = v /\ shared
        <4>1. vdbe[v].of # None
          BY <1>2, Types DEF VdbesHaveHolders
        <4> QED BY <1>6, <1>9, <3>2, <4>1
      <3>3. CASE w = v /\ ~shared
        BY <1>6, <1>9, <3>3 DEF NoVdbe
      <3> QED BY <3>1, <3>2, <3>3
    <2>3. \A q, r \in Stmts : objs[q].vdbe # None /\ objs[q].vdbe = objs[r].vdbe => q = r
      BY <1>2, <1>5, <1>8, Types DEF VdbesHaveHolders
    <2> QED BY <1>3, <2>1, <2>2, <2>3 DEF VdbesHaveHolders
  <1>14. HeldIsOpen'
    <2>1. \A o \in Objects : /\ obj'[o].of = obj[o].of /\ obj'[o].bare = obj[o].bare
                              /\ obj[o].of \in Handles \cup {None}
      BY <1>2, <1>3, <1>5, <1>8, Types DEF ObjectType
    <2> QED BY <1>1, <1>10, <2>1, Types DEF HeldIsOpen
  <1> QED BY <1>11, <1>12, <1>13, <1>14

LEMMA ResetPreserves ==
  ASSUME HandleInv, NEW p \in Stmts, Reset(p)
  PROVE  HandleInv'
  <1> USE DEF HandleInv
  <1> DEFINE v == obj[p].vdbe
             at == [vdbe[v] EXCEPT !.row = 0]
  <1>1. /\ v \in Vdbes /\ vdbe' = [vdbe EXCEPT ![v] = at]
        /\ UNCHANGED <<conn, handle, obj, read, call>>
    BY Types DEF Reset, ObjectType
  <1>2. at \in VdbeType /\ at.of = vdbe[v].of /\ at.cmd = vdbe[v].cmd /\ vdbe[v].of # None
    BY <1>1, Types DEF VdbeType, VdbesHaveHolders
  <1> HIDE DEF at
  <1>3. vdbe' \in [Vdbes -> VdbeType] /\ vdbe'[v] = at /\ \A w \in Vdbes \ {v} : vdbe'[w] = vdbe[w]
    BY <1>1, <1>2, Types
  <1>4. /\ handle' \in [Handles -> HandleType]
        /\ \A h \in Handles : handle'[h].state = handle[h].state
    BY <1>1, Types
  <1>5. TypeOK'
    BY <1>1, <1>3, <1>4 DEF TypeOK, HandleType, VdbeType
  <1>6. CallsOwnObjects'
    BY <1>1 DEF CallsOwnObjects, FindsObject
  <1>7. VdbesHaveHolders' /\ HeldIsOpen'
    BY <1>1, <1>2, <1>3, <1>4, NothingLetGo
  <1> QED BY <1>5, <1>6, <1>7

LEMMA DestroyPreserves ==
  ASSUME HandleInv, NEW o \in Objects, Destroy(o)
  PROVE  HandleInv'
  <1> USE DEF HandleInv
  <1> DEFINE objs == [obj EXCEPT ![o] = NoObject]
  <1>1. /\ Held(conn, objs) /\ call' = call /\ \A c \in Clients : call[c].obj # o
        /\ read' = IF o \in Sets THEN [read EXCEPT ![o] = Unread] ELSE read
    BY DEF Destroy, InUse
  <1>2. /\ objs \in [Objects -> ObjectType]
        /\ \A q \in Objects : objs[q] = IF q = o THEN NoObject ELSE obj[q]
    BY Types, FreshRecords
  <1> HIDE DEF objs
  <1>3. /\ conn' = conn /\ obj' = objs /\ handle' = Closed(conn, objs)
        /\ vdbe' = [v \in Vdbes |-> IF \E q \in Objects : objs[q].vdbe = v THEN vdbe[v] ELSE NoVdbe]
    BY <1>1 DEF Held
  <1>4. CallsOwnObjects'
    <2>1. \A c \in Clients : call[c].obj # None => obj'[call[c].obj] = obj[call[c].obj]
      BY <1>1, <1>2, <1>3, Types
    <2>2. \A c \in Clients : FindsObject(c)'
      BY <1>1, <2>1, FindsObjectStill DEF CallsOwnObjects
    <2> QED BY <1>1, <2>2 DEF CallsOwnObjects
  <1>5. conn # None => handle[conn].state = "open"
    BY DEF HeldIsOpen
  <1>6. read' \in [Sets -> ReadType] /\ call' \in [Clients -> CallType]
    BY <1>1, Types, FreshRecords
  <1>7. \A q \in Objects : objs[q] \in {obj[q], NoObject}
    BY <1>2
  <1> QED BY <1>2, <1>3, <1>4, <1>5, <1>6, <1>7, LettingGoKeeps, Types

LEMMA DestroyConnectionPreserves ==
  ASSUME HandleInv, DestroyConnection
  PROVE  HandleInv'
  <1> USE DEF HandleInv
  <1>1. Held(None, obj) /\ UNCHANGED <<read, call>>
    BY DEF DestroyConnection
  <1>2. CallsOwnObjects'
    BY <1>1 DEF Held, CallsOwnObjects, FindsObject
  <1> QED BY <1>1, <1>2, LettingGoKeeps, Types DEF Held

-----------------------------------------------------------------------------
LEMMA StepPreserves ==
  ASSUME HandleInv, [Next]_vars
  PROVE  HandleInv'
  <1>1. ASSUME NEW c \in Clients,
               \/ WorkPrepare(c) \/ WorkStep(c) \/ WorkOpen(c) \/ WorkConnect(c) \/ WorkDisconnect(c) \/ WorkClose(c)
               \/ ReturnPrepared(c) \/ ReturnRefused(c) \/ ReturnNext(c) \/ ReturnExecute(c)
        PROVE  HandleInv'
    BY <1>1, WorkPreparePreserves, WorkStepPreserves, WorkOpenPreserves, WorkConnectPreserves,
       WorkDisconnectPreserves, WorkClosePreserves, ReturnPreparedPreserves,
       ReturnRefusedPreserves, ReturnNextPreserves, ReturnExecutePreserves
  <1>2. ASSUME NEW c \in Clients,
               CallConnect(c) \/ CallDisconnect(c) \/ ReturnOver(c) \/ \E p \in Stmts : CallClose(c, p)
        PROVE  HandleInv'
    BY <1>2, CallConnectionPreserves
  <1>3. ASSUME NEW c \in Clients, NEW s \in Sets,
               CallNext(c, s) \/ \E p \in Stmts : ExecutePrepared(c, s, p) \/ QueryPrepared(s, p)
        PROVE  HandleInv'
    BY <1>3, CallNextPreserves, ExecutePreparedPreserves, QueryPreparedPreserves
  <1>4. ASSUME NEW s \in Sets, NEW p \in Stmts, QueryPrepared(s, p) PROVE HandleInv'
    BY <1>4, QueryPreparedPreserves
  <1>5. ASSUME NEW c \in Clients, NEW op \in {"query", "execute", "prepare"}, NEW o \in Objects,
               NEW cmd \in Commands, CallCommand(c, op, o, cmd)
        PROVE  HandleInv'
    BY <1>5, CallCommandPreserves
  <1>6. CASE UNCHANGED vars
    <2>1. TypeOK'
      BY <1>6 DEF vars, HandleInv, TypeOK
    <2>2. CallsOwnObjects' /\ VdbesHaveHolders' /\ HeldIsOpen'
      BY <1>6 DEF vars, HandleInv, CallsOwnObjects, FindsObject, VdbesHaveHolders, HeldIsOpen
    <2> QED BY <2>1, <2>2 DEF HandleInv
  <1> QED BY <1>1, <1>2, <1>3, <1>4, <1>5, <1>6, ResetPreserves, DestroyPreserves,
             DestroyConnectionPreserves DEF Next

\* The connection's objects are well typed, and a live result set has the
\* compiled statement it reads (sqlite.cpp:113-128).
THEOREM SqliteTypeCorrect == Spec => []TypeOK
  <1>1. HandleInv => TypeOK
    BY DEF HandleInv
  <1> QED BY <1>1, InitEstablishes, StepPreserves, PTL DEF Spec

\* Whatever clients do, sqlite3_close() is never refused and no compiled statement
\* outlives its handle, but for statements made with a torn copy of mSqlite; and no
\* object reaches another handle's statements (sqlite.cpp:303-307, 452, 469, 487-500).
THEOREM HandlesLiveWithVdbes == Spec => []HandleLivesWithVdbes
  <1>1. HandleInv => HandleLivesWithVdbes
    BY Types DEF HandleInv, HandleLivesWithVdbes, HeldIsOpen, VdbesHaveHolders
  <1> QED BY <1>1, InitEstablishes, StepPreserves, PTL DEF Spec

-----------------------------------------------------------------------------
(* Rows and counts, under the rules.                                       *)

Pending(s) == \E c \in Clients : call[c].obj = s /\ call[c].at \in Told

\* A result set has its vdbe for itself, and a statement that is being closed
\* has none in common with a result set.
SetsApart ==
  /\ \A s, t \in Sets : obj[s].vdbe # None /\ obj[s].vdbe = obj[t].vdbe => s = t
  /\ \A c \in Clients :
       call[c].at = "finalize" => \A s \in Sets : obj[s].vdbe # obj[call[c].obj].vdbe

\* A result set that was not told the end is where its vdbe is.
SetFollows(s) ==
  LET row == vdbe[obj[s].vdbe].row
  IN /\ obj[s].vdbe = None => read[s] = Unread
     /\ \A i \in 1..Len(read[s].seen) : read[s].seen[i] = i
     /\ read[s].told = "end" => read[s].runs = 1 /\ Len(read[s].seen) = obj[s].cmd.rows
     /\ obj[s].vdbe # None /\ read[s].told = "none" /\ ~Pending(s) =>
          Len(read[s].seen) = row /\ read[s].runs = (IF row = 0 THEN 0 ELSE 1)

\* The call that comes back from sqlite3_step() is about to tell the next row,
\* or the end of a run that was read from its first row on.
CallFollows(c) ==
  LET s == call[c].obj
  IN /\ s \in Sets /\ call[c].at \in {"prepared"} \cup Stepping => read[s].told = "none"
     /\ call[c].at = "row" =>
          read[s].runs = 1 /\ vdbe[obj[s].vdbe].row = Len(read[s].seen) + 1
     /\ call[c].at = "done" => read[s].runs = 1 /\ Len(read[s].seen) = obj[s].cmd.rows

ReadsFollow ==
  /\ SetsApart
  /\ \A s \in Sets : SetFollows(s)
  /\ \A c \in Clients : CallFollows(c)

-----------------------------------------------------------------------------
(* Rows.                                                                   *)

\* A step by client c (or None) that touches object x (or None) alone.
Touches(c, x) ==
  /\ \A d \in Clients \ {c} : call'[d] = call[d] /\ (call[d].obj # None => call[d].obj # x)
  /\ c \in Clients /\ call[c].at \in Told => call[c].obj = x
  /\ \A s \in Sets \ {x} :
       /\ read'[s] = read[s] /\ obj'[s].vdbe = obj[s].vdbe /\ obj'[s].cmd = obj[s].cmd
       /\ obj[s].vdbe # None => vdbe'[obj[s].vdbe].row = vdbe[obj[s].vdbe].row

\* The other result sets are where they were.
LEMMA OthersFollow ==
  ASSUME HandleInv, ReadsFollow, NEW c, NEW x, Touches(c, x)
  PROVE  /\ \A s \in Sets \ {x} : SetFollows(s)'
         /\ \A d \in Clients \ {c} : CallFollows(d)'
  <1> USE DEF Touches
  <1>1. ASSUME NEW s \in Sets \ {x} PROVE SetFollows(s)'
    <2>1. SetFollows(s)
      BY DEF ReadsFollow
    <2>2. Pending(s) => Pending(s)'
      <3>1. ASSUME NEW d \in Clients, call[d].obj = s, call[d].at \in Told
            PROVE  call'[d] = call[d]
        BY <3>1
      <3> QED BY <3>1 DEF Pending
    <2> QED BY <2>1, <2>2 DEF SetFollows
  <1>2. ASSUME NEW d \in Clients \ {c} PROVE CallFollows(d)'
    <2>1. CallFollows(d) /\ FindsObject(d) /\ call'[d] = call[d]
      BY DEF ReadsFollow, HandleInv, CallsOwnObjects
    <2>2. CASE call[d].at \in Stepping
      <3>1. call[d].obj \in Sets \ {x} /\ obj[call[d].obj].vdbe # None
        BY <2>1, <2>2, Types DEF FindsObject, HandleInv
      <3> QED BY <2>1, <3>1 DEF CallFollows
    <2>3. CASE call[d].at \notin Stepping
      <3>1. call[d].obj \in Sets => call[d].obj \in Sets \ {x}
        BY Types DEF HandleInv
      <3> QED BY <2>1, <2>3, <3>1 DEF CallFollows, Stepping, Told
    <2> QED BY <2>2, <2>3
  <1> QED BY <1>1, <1>2

\* Sets stay apart when no object gets a vdbe and no call starts to finalize.
LEMMA ApartStill ==
  ASSUME HandleInv, SetsApart,
         \A o \in Objects : obj'[o].vdbe \in {obj[o].vdbe, None},
         \A c \in Clients :
           call'[c].at = "finalize" =>
             call'[c] = call[c] /\ obj'[call[c].obj].vdbe = obj[call[c].obj].vdbe
  PROVE  SetsApart'
  <1>1. \A s \in Sets : obj'[s].vdbe \in {obj[s].vdbe, None}
    BY Types DEF HandleInv
  <1>2. \A c \in Clients : call[c].at = "finalize" => obj[call[c].obj].vdbe # None
    BY DEF HandleInv, CallsOwnObjects, FindsObject
  <1> QED BY <1>1, <1>2 DEF SetsApart

\* A result set that was not read is where a reset vdbe is.
LEMMA UnreadFollows ==
  ASSUME NEW s \in Sets, read'[s] = Unread,
         obj'[s].vdbe # None => vdbe'[obj'[s].vdbe].row = 0
  PROVE  SetFollows(s)'
  <1>1. /\ read'[s].seen = <<>> /\ read'[s].told = "none" /\ read'[s].runs = 0
        /\ Len(read'[s].seen) = 0
    BY DEF Unread
  <1> QED BY <1>1 DEF SetFollows

\* Moving a call changes where it is.
LEMMA GotoMoves ==
  ASSUME HandleInv, NEW c \in Clients, NEW at, Goto(c, at)
  PROVE  /\ call'[c].at = at /\ call'[c].op = call[c].op
         /\ call'[c].obj = call[c].obj /\ call'[c].stmt = call[c].stmt
         /\ \A d \in Clients \ {c} : call'[d] = call[d]
  BY Types DEF HandleInv, Goto, CallType

LEMMA CallCommandFollows ==
  ASSUME HandleInv, ReadsFollow, NEW c \in Clients, NEW op \in {"query", "execute", "prepare"},
         NEW o \in Objects, NEW cmd \in Commands, CallCommand(c, op, o, cmd)
  PROVE  ReadsFollow'
  <1> USE DEF HandleInv
  <1>p. PICK h \in Handles, bare \in BOOLEAN :
          obj' = [obj EXCEPT ![o] = [life |-> "local", of |-> h, bare |-> bare,
                                     vdbe |-> None, cmd |-> cmd]]
    BY DEF CallCommand
  <1> DEFINE new == [life |-> "local", of |-> h, bare |-> bare, vdbe |-> None, cmd |-> cmd]
             start == [op |-> op, at |-> "prepare", obj |-> o, stmt |-> None]
  <1>1. /\ call[c] = NoCall /\ obj[o].life = "none" /\ obj[o].vdbe = None
        /\ obj' = [obj EXCEPT ![o] = new] /\ call' = [call EXCEPT ![c] = start]
        /\ UNCHANGED <<conn, handle, vdbe, read>>
    BY <1>p, Types DEF CallCommand, Idle, Start, VdbesHaveHolders
  <1>2. /\ obj'[o] = new /\ call'[c] = start
        /\ \A p \in Objects \ {o} : obj'[p] = obj[p]
        /\ \A d \in Clients \ {c} : call'[d] = call[d]
    BY <1>1, Types
  <1>3. \A d \in Clients : call[d].obj # None => call[d].obj # o
    BY <1>1 DEF CallsOwnObjects, FindsObject
  <1>4. /\ \A s \in Sets \ {o} : SetFollows(s)'
        /\ \A d \in Clients \ {c} : CallFollows(d)'
    <2>1. Touches(c, o)
      BY <1>1, <1>2, <1>3, Types DEF Touches, NoCall, Told
    <2> QED BY <2>1, OthersFollow
  <1>5. SetsApart'
    BY <1>1, <1>2, <1>3, ApartStill, Types DEF ReadsFollow, CallsOwnObjects, FindsObject
  <1>6. o \in Sets => SetFollows(o)'
    <2>1. o \in Sets => read[o] = Unread
      BY <1>1 DEF ReadsFollow, SetFollows
    <2> QED BY <1>1, <1>2, <2>1, UnreadFollows
  <1>7. CallFollows(c)'
    BY <1>2 DEF CallFollows, Stepping, Told
  <1> QED BY <1>4, <1>5, <1>6, <1>7 DEF ReadsFollow

\* A new compiled statement has not been run.
LEMMA WorkPrepareFollows ==
  ASSUME HandleInv, ReadsFollow, NEW c \in Clients, WorkPrepare(c)
  PROVE  ReadsFollow'
  <1> USE DEF HandleInv
  <1>1. PICK o \in Objects :
          /\ call[c].at = "prepare" /\ call[c].obj = o /\ obj[o].vdbe = None /\ read' = read
          /\ o \in Sets => read[o] = Unread
    <2>1. call[c].at = "prepare" /\ FindsObject(c) /\ read' = read
      BY DEF WorkPrepare, CallsOwnObjects
    <2>2. call[c].obj \in Objects /\ obj[call[c].obj].vdbe = None
      BY <2>1, Types DEF FindsObject, Making
    <2> QED BY <2>1, <2>2 DEF ReadsFollow, SetFollows
  <1>2. PICK at \in {"prepared", "refused"} : Goto(c, at)
    BY DEF WorkPrepare
  <1>3. /\ call'[c].at = at /\ call'[c].obj = o
        /\ \A d \in Clients \ {c} : call'[d] = call[d] /\ (call[d].obj # None => call[d].obj # o)
    BY <1>1, <1>2, GotoMoves DEF CallsOwnObjects
  <1>4. CallFollows(c)'
    BY <1>1, <1>3 DEF CallFollows, Stepping, Told, Unread
  <1>5. CASE UNCHANGED <<vdbe, obj>>
    <2>1. /\ \A s \in Sets \ {o} : SetFollows(s)'
          /\ \A d \in Clients \ {c} : CallFollows(d)'
      <3>1. Touches(c, o)
        BY <1>1, <1>3, <1>5, Types DEF Touches, Told
      <3> QED BY <3>1, OthersFollow
    <2>2. SetsApart'
      BY <1>1, <1>3, <1>5, ApartStill DEF ReadsFollow
    <2>3. o \in Sets => SetFollows(o)'
      BY <1>1, <1>5, UnreadFollows
    <2> QED BY <1>4, <2>1, <2>2, <2>3 DEF ReadsFollow
  <1>6. ASSUME NEW v \in Vdbes, vdbe[v] = NoVdbe, at = "prepared",
               vdbe' = [vdbe EXCEPT ![v] = [of |-> obj[o].of, cmd |-> obj[o].cmd, row |-> 0]],
               obj' = [obj EXCEPT ![o].vdbe = v]
        PROVE  ReadsFollow'
    <2>1. \A p \in Objects : obj[p].vdbe # v
      BY <1>6, Types DEF VdbesHaveHolders, NoVdbe
    <2>2. /\ obj'[o].vdbe = v /\ vdbe'[v].row = 0
          /\ \A p \in Objects \ {o} : obj'[p] = obj[p]
          /\ \A w \in Vdbes \ {v} : vdbe'[w] = vdbe[w]
      BY <1>1, <1>6, Types DEF ObjectType
    <2>3. \A s \in Sets \ {o} : obj[s].vdbe # None => vdbe'[obj[s].vdbe].row = vdbe[obj[s].vdbe].row
      BY <2>1, <2>2, Types DEF ObjectType
    <2>4. /\ \A s \in Sets \ {o} : SetFollows(s)'
          /\ \A d \in Clients \ {c} : CallFollows(d)'
      <3>1. Touches(c, o)
        BY <1>1, <1>3, <2>2, <2>3, Types DEF Touches, Told
      <3> QED BY <3>1, OthersFollow
    <2>5. SetsApart'
      <3>1. \A s, t \in Sets : obj'[s].vdbe # None /\ obj'[s].vdbe = obj'[t].vdbe => s = t
        BY <2>1, <2>2, Types DEF ReadsFollow, SetsApart
      <3>2. ASSUME NEW d \in Clients, call'[d].at = "finalize", NEW s \in Sets
            PROVE  obj'[s].vdbe # obj'[call'[d].obj].vdbe
        <4>1. d # c /\ call'[d] = call[d]
          BY <1>3, <3>2
        <4>2. /\ call[d].obj \in Objects \ {o} /\ obj[call[d].obj].vdbe # None
          BY <1>3, <3>2, <4>1, Types DEF CallsOwnObjects, FindsObject
        <4>3. obj[s].vdbe # obj[call[d].obj].vdbe
          BY <3>2, <4>1 DEF ReadsFollow, SetsApart
        <4> QED BY <2>1, <2>2, <4>1, <4>2, <4>3, Types
      <3> QED BY <3>1, <3>2 DEF SetsApart
    <2>6. o \in Sets => SetFollows(o)'
      BY <1>1, <2>2, UnreadFollows
    <2> QED BY <1>4, <2>4, <2>5, <2>6 DEF ReadsFollow
  <1>7. CASE at = "refused"
    <2>1. UNCHANGED <<vdbe, obj>>
      <3>1. ~Goto(c, "prepared")
        BY <1>3, <1>7, GotoMoves
      <3> QED BY <3>1 DEF WorkPrepare
    <2> QED BY <1>5, <2>1
  <1>8. CASE at = "prepared"
    <2>1. \E v \in Vdbes :
            /\ vdbe[v] = NoVdbe
            /\ vdbe' = [vdbe EXCEPT ![v] = [of |-> obj[o].of, cmd |-> obj[o].cmd, row |-> 0]]
            /\ obj' = [obj EXCEPT ![o].vdbe = v]
      <3>1. ~Goto(c, "refused")
        BY <1>3, <1>8, GotoMoves
      <3> QED BY <1>1, <3>1 DEF WorkPrepare
    <2> QED BY <1>6, <1>8, <2>1
  <1> QED BY <1>7, <1>8

LEMMA ReturnPreparedFollows ==
  ASSUME HandleInv, ReadsFollow, NEW c \in Clients, ReturnPrepared(c)
  PROVE  ReadsFollow'
  <1> USE DEF HandleInv
  <1>1. PICK o \in Objects :
          /\ call[c].at = "prepared" /\ call[c].obj = o /\ obj[o].vdbe # None
          /\ UNCHANGED <<conn, handle, vdbe, read>>
    <2>1. call[c].at = "prepared" /\ FindsObject(c) /\ UNCHANGED <<conn, handle, vdbe, read>>
      BY DEF ReturnPrepared, CallsOwnObjects
    <2> QED BY <2>1, Types DEF FindsObject, Making
  <1>2. /\ \A p \in Objects : obj'[p].vdbe = obj[p].vdbe /\ obj'[p].cmd = obj[p].cmd
        /\ \A p \in Objects \ {o} : obj'[p] = obj[p]
        /\ \/ call'[c] = NoCall
           \/ call'[c].at = "step" /\ call'[c].obj = o
        /\ \A d \in Clients \ {c} : call'[d] = call[d]
    <2>1. CASE call[c].op = "execute"
      BY <1>1, <2>1, GotoMoves DEF ReturnPrepared
    <2>2. CASE call[c].op # "execute"
      <3>1. obj' = [obj EXCEPT ![o].life = "live"] /\ call' = [call EXCEPT ![c] = NoCall]
        BY <1>1, <2>2 DEF ReturnPrepared, Hangup
      <3> QED BY <3>1, Types DEF ObjectType
    <2> QED BY <2>1, <2>2
  <1>3. \A d \in Clients \ {c} : call[d].obj # None => call[d].obj # o
    BY <1>1, Types DEF CallsOwnObjects
  <1>4. /\ \A s \in Sets \ {o} : SetFollows(s)'
        /\ \A d \in Clients \ {c} : CallFollows(d)'
    <2>1. Touches(c, o)
      BY <1>1, <1>2, <1>3, Types DEF Touches, Told
    <2> QED BY <2>1, OthersFollow
  <1>5. SetsApart'
    <2>1. \A d \in Clients : call'[d].at = "finalize" => call'[d] = call[d]
      BY <1>2 DEF NoCall
    <2> QED BY <1>2, <1>3, <2>1, ApartStill, Types
            DEF ReadsFollow, CallsOwnObjects, FindsObject
  <1>6. o \in Sets => SetFollows(o)'
    <2>1. ~Pending(o)
      BY <1>1, <1>3, Types DEF Pending, Told
    <2>2. o \in Sets => SetFollows(o)
      BY DEF ReadsFollow
    <2> QED BY <1>1, <1>2, <2>1, <2>2 DEF SetFollows
  <1>7. CallFollows(c)'
    <2>1. o \in Sets => read[o].told = "none"
      BY <1>1 DEF ReadsFollow, CallFollows
    <2> QED BY <1>1, <1>2, <2>1, Types DEF CallFollows, NoCall
  <1> QED BY <1>4, <1>5, <1>6, <1>7 DEF ReadsFollow

\* Letting go of an object o (or None) that no call but that of c (or None) has.
LetsGo(c, o, objs) ==
  /\ \A p \in Objects : objs[p] = IF p = o THEN NoObject ELSE obj[p]
  /\ obj' = objs
  /\ vdbe' = [v \in Vdbes |-> IF \E p \in Objects : objs[p].vdbe = v THEN vdbe[v] ELSE NoVdbe]
  /\ \A s \in Sets : read'[s] = IF s = o THEN Unread ELSE read[s]
  /\ \A d \in Clients \ {c} : call'[d] = call[d] /\ (call[d].obj # None => call[d].obj # o)
  /\ c \in Clients => call'[c].at \in {"none", "over"} /\ (call[c].at \in Told => call[c].obj = o)

LEMMA LettingGoFollows ==
  ASSUME HandleInv, ReadsFollow, NEW c, NEW o, NEW objs, LetsGo(c, o, objs)
  PROVE  ReadsFollow'
  <1> USE DEF HandleInv, LetsGo
  <1>1. \A s \in Sets \ {o} :
          /\ read'[s] = read[s] /\ obj'[s].vdbe = obj[s].vdbe /\ obj'[s].cmd = obj[s].cmd
          /\ obj[s].vdbe # None => vdbe'[obj[s].vdbe].row = vdbe[obj[s].vdbe].row
    <2>1. ASSUME NEW s \in Sets \ {o}, obj[s].vdbe # None
          PROVE  vdbe'[obj[s].vdbe] = vdbe[obj[s].vdbe]
      <3>1. s \in Objects /\ objs[s].vdbe = obj[s].vdbe /\ obj[s].vdbe \in Vdbes
        BY <2>1, Types DEF ObjectType
      <3> QED BY <3>1
    <2> QED BY <2>1, Types
  <1>2. /\ \A s \in Sets \ {o} : SetFollows(s)'
        /\ \A d \in Clients \ {c} : CallFollows(d)'
    <2>1. Touches(c, o)
      BY <1>1 DEF Touches
    <2> QED BY <2>1, OthersFollow
  <1>3. SetsApart'
    <2>1. \A p \in Objects : obj'[p].vdbe \in {obj[p].vdbe, None}
      BY DEF NoObject
    <2>2. \A d \in Clients : call'[d].at = "finalize" =>
             call'[d] = call[d] /\ call[d].obj \in Objects /\ call[d].obj # o
      BY Types DEF CallsOwnObjects, FindsObject
    <2> QED BY <2>1, <2>2, ApartStill DEF ReadsFollow
  <1>4. \A s \in Sets : s = o => SetFollows(s)'
    <2>1. \A s \in Sets : s = o => read'[s] = Unread /\ obj'[s].vdbe = None
      BY Types DEF NoObject
    <2> QED BY <2>1, UnreadFollows
  <1>5. c \in Clients => CallFollows(c)'
    BY DEF CallFollows, Stepping, Told
  <1> QED BY <1>2, <1>3, <1>4, <1>5 DEF ReadsFollow

LEMMA ReturnRefusedFollows ==
  ASSUME HandleInv, ReadsFollow, NEW c \in Clients, ReturnRefused(c)
  PROVE  ReadsFollow'
  <1> USE DEF HandleInv
  <1>1. PICK o \in Objects :
          /\ call[c].at = "refused" /\ call[c].obj = o /\ obj[o].vdbe = None
          /\ o \in Sets => read[o] = Unread
    <2>1. call[c].at = "refused" /\ FindsObject(c)
      BY DEF ReturnRefused, CallsOwnObjects
    <2>2. call[c].obj \in Objects /\ obj[call[c].obj].vdbe = None
      BY <2>1, Types DEF FindsObject, Making
    <2> QED BY <2>1, <2>2 DEF ReadsFollow, SetFollows
  <1> DEFINE objs == [obj EXCEPT ![o] = NoObject]
  <1>2. /\ Held(conn, objs) /\ call' = [call EXCEPT ![c] = NoCall] /\ read' = read
        /\ \A p \in Objects : objs[p] = IF p = o THEN NoObject ELSE obj[p]
    BY <1>1, Types DEF ReturnRefused, Hangup
  <1>3. /\ call'[c].at = "none"
        /\ \A d \in Clients \ {c} : call'[d] = call[d] /\ (call[d].obj # None => call[d].obj # o)
    BY <1>1, <1>2, Types DEF CallsOwnObjects, NoCall
  <1> HIDE DEF objs
  <1>4. LetsGo(c, o, objs)
    BY <1>1, <1>2, <1>3, Types DEF LetsGo, Held, Told
  <1> QED BY <1>4, LettingGoFollows

LEMMA ReturnExecuteFollows ==
  ASSUME HandleInv, ReadsFollow, NEW c \in Clients, ReturnExecute(c)
  PROVE  ReadsFollow'
  <1> USE DEF HandleInv
  <1>1. PICK o \in Sets : call[c].at \in Told /\ call[c].obj = o
    <2>1. call[c].at \in Told /\ FindsObject(c)
      BY DEF ReturnExecute, CallsOwnObjects, Told
    <2> QED BY <2>1 DEF FindsObject, Stepping
  <1> DEFINE objs == [obj EXCEPT ![o] = NoObject]
  <1>2. /\ obj' = objs /\ call' = [call EXCEPT ![c] = NoCall]
        /\ vdbe' = [v \in Vdbes |-> IF \E p \in Objects : objs[p].vdbe = v THEN vdbe[v] ELSE NoVdbe]
        /\ read' = [read EXCEPT ![o] = Unread]
        /\ \A p \in Objects : objs[p] = IF p = o THEN NoObject ELSE obj[p]
        /\ \A s \in Sets : read'[s] = IF s = o THEN Unread ELSE read[s]
    BY <1>1, Types DEF ReturnExecute, Hangup
  <1>3. /\ call'[c].at = "none"
        /\ \A d \in Clients \ {c} : call'[d] = call[d] /\ (call[d].obj # None => call[d].obj # o)
    BY <1>1, <1>2, Types DEF CallsOwnObjects, NoCall
  <1> HIDE DEF objs
  <1>4. LetsGo(c, o, objs)
    BY <1>1, <1>2, <1>3 DEF LetsGo
  <1> QED BY <1>4, LettingGoFollows

LEMMA DestroyFollows ==
  ASSUME HandleInv, ReadsFollow, NEW o \in Objects, Destroy(o)
  PROVE  ReadsFollow'
  <1> USE DEF HandleInv
  <1> DEFINE objs == [obj EXCEPT ![o] = NoObject]
  <1>1. /\ Held(conn, objs) /\ call' = call /\ \A d \in Clients : call[d].obj # o
        /\ read' = IF o \in Sets THEN [read EXCEPT ![o] = Unread] ELSE read
        /\ \A p \in Objects : objs[p] = IF p = o THEN NoObject ELSE obj[p]
    BY Types DEF Destroy, InUse
  <1>2. \A s \in Sets : read'[s] = IF s = o THEN Unread ELSE read[s]
    BY <1>1, Types
  <1>3. None \notin Clients
    BY Types
  <1> HIDE DEF objs
  <1>4. LetsGo(None, o, objs)
    BY <1>1, <1>2, <1>3 DEF LetsGo, Held
  <1> QED BY <1>4, LettingGoFollows

LEMMA DisconnectFollows ==
  ASSUME HandleInv, ReadsFollow,
         DestroyConnection \/ \E c \in Clients : WorkDisconnect(c)
  PROVE  ReadsFollow'
  <1> USE DEF HandleInv
  <1>1. /\ None \notin Objects \cup Clients /\ Sets \subseteq Objects
        /\ \A p \in Objects : obj[p] = IF p = None THEN NoObject ELSE obj[p]
    BY Types
  <1>2. CASE DestroyConnection
    <2>1. Held(None, obj) /\ UNCHANGED <<read, call>>
      BY <1>2 DEF DestroyConnection
    <2>2. \A s \in Sets : read'[s] = IF s = None THEN Unread ELSE read[s]
      BY <1>1, <2>1
    <2>3. LetsGo(None, None, obj)
      BY <1>1, <2>1, <2>2 DEF LetsGo, Held
    <2> QED BY <2>3, LettingGoFollows
  <1>3. ASSUME NEW c \in Clients, WorkDisconnect(c) PROVE ReadsFollow'
    <2>1. Held(None, obj) /\ read' = read /\ call[c].at = "drop" /\ Goto(c, "over")
      BY <1>3 DEF WorkDisconnect
    <2>2. \A s \in Sets : read'[s] = IF s = None THEN Unread ELSE read[s]
      BY <1>1, <2>1
    <2>3. call'[c].at = "over" /\ \A d \in Clients \ {c} : call'[d] = call[d]
      BY <2>1, GotoMoves
    <2>4. LetsGo(c, None, obj)
      BY <1>1, <2>1, <2>2, <2>3 DEF LetsGo, Held, Told
    <2> QED BY <2>4, LettingGoFollows
  <1> QED BY <1>2, <1>3

\* A statement that is run again is reset, and was not run by another result set.
LEMMA SharingFollows ==
  ASSUME HandleInv, HandleInv', ReadsFollow, "one" \in Rules, NEW c, NEW s \in Sets, NEW p \in Stmts,
         NEW life \in {"local", "live"}, obj' = [obj EXCEPT ![s] = Share(p, life)],
         obj[s].life = "none", obj[p].vdbe # None, MayReuse(obj[p].vdbe), ~InUse(p),
         UNCHANGED <<vdbe, read>>,
         \A d \in Clients \ {c} : call'[d] = call[d],
         c \in Clients => call[c] = NoCall /\ call'[c].at = "step" /\ call'[c].obj = s
  PROVE  ReadsFollow'
  <1> USE DEF HandleInv
  <1> DEFINE v == obj[p].vdbe
  <1>1. vdbe[v].row = 0 /\ v # None /\ \A t \in Sets : obj[t].vdbe # v
    BY DEF MayReuse
  <1>2. obj[s].vdbe = None /\ \A d \in Clients : call[d].obj # None => call[d].obj # s
    BY Types DEF VdbesHaveHolders, CallsOwnObjects, FindsObject
  <1>3. /\ obj'[s].vdbe = v
        /\ \A o \in Objects \ {s} : obj'[o] = obj[o]
    BY Types DEF Share, ObjectType
  <1>4. /\ \A t \in Sets \ {s} : SetFollows(t)'
        /\ \A d \in Clients \ {c} : CallFollows(d)'
    <2>1. Touches(c, s)
      BY <1>2, <1>3, Types DEF Touches, Told, NoCall
    <2> QED BY <2>1, OthersFollow
  <1>5. SetsApart'
    <2>1. \A t, u \in Sets : obj'[t].vdbe # None /\ obj'[t].vdbe = obj'[u].vdbe => t = u
      BY <1>1, <1>3, Types DEF ReadsFollow, SetsApart
    <2>2. ASSUME NEW d \in Clients, call'[d].at = "finalize", NEW t \in Sets
          PROVE  obj'[t].vdbe # obj'[call'[d].obj].vdbe
      <3>1. call'[d] = call[d] /\ d \in Clients /\ (c \in Clients => d # c)
        BY <2>2
      <3>2. /\ call[d].obj \in Stmts /\ call[d].obj # p /\ call[d].obj # s
            /\ obj[call[d].obj].vdbe # None
        BY <1>2, <2>2, <3>1, Types DEF CallsOwnObjects, FindsObject, InUse
      <3>3. obj[call[d].obj].vdbe # v
        BY <3>2 DEF VdbesHaveHolders
      <3>4. obj[t].vdbe # obj[call[d].obj].vdbe
        BY <2>2, <3>1 DEF ReadsFollow, SetsApart
      <3> QED BY <1>3, <3>1, <3>2, <3>3, <3>4, Types
    <2> QED BY <2>1, <2>2 DEF SetsApart
  <1>6. read[s] = Unread
    BY <1>2 DEF ReadsFollow, SetFollows
  <1>7. SetFollows(s)'
    BY <1>1, <1>3, <1>6, UnreadFollows
  <1>8. c \in Clients => CallFollows(c)'
    BY <1>6 DEF CallFollows, Unread
  <1> QED BY <1>4, <1>5, <1>7, <1>8 DEF ReadsFollow

LEMMA RunPreparedFollows ==
  ASSUME HandleInv, HandleInv', ReadsFollow, "one" \in Rules, NEW s \in Sets, NEW p \in Stmts,
         QueryPrepared(s, p) \/ \E c \in Clients : ExecutePrepared(c, s, p)
  PROVE  ReadsFollow'
  <1>1. CASE QueryPrepared(s, p)
    <2>1. None \notin Clients
      BY Types DEF HandleInv
    <2> QED BY <1>1, <2>1, SharingFollows DEF QueryPrepared
  <1>2. ASSUME NEW c \in Clients, ExecutePrepared(c, s, p) PROVE ReadsFollow'
    <2>1. /\ call[c] = NoCall /\ call'[c].at = "step" /\ call'[c].obj = s
          /\ \A d \in Clients \ {c} : call'[d] = call[d]
      BY <1>2, Types DEF ExecutePrepared, Idle, Start, HandleInv
    <2> QED BY <1>2, <2>1, SharingFollows DEF ExecutePrepared
  <1> QED BY <1>1, <1>2

\* A call starts or ends, and nothing else happens.
LEMMA CallFollowsOnly ==
  ASSUME HandleInv, HandleInv', ReadsFollow, NEW c \in Clients, UNCHANGED <<vdbe, obj, read>>,
         \A d \in Clients \ {c} : call'[d] = call[d],
         call[c].at \notin Told, call'[c].at \in {"none", "open", "write", "drop", "over", "step", "finalize"},
         call'[c].at = "step" => read[call'[c].obj].told = "none",
         call'[c].at = "finalize" => \A s \in Sets : obj[s].vdbe # obj[call'[c].obj].vdbe
  PROVE  ReadsFollow'
  <1>1. \A s \in Sets : Pending(s) => Pending(s)'
    BY DEF Pending
  <1>2. ASSUME NEW s \in Sets PROVE SetFollows(s)'
    <2>1. SetFollows(s)
      BY DEF ReadsFollow
    <2> QED BY <1>1, <2>1 DEF SetFollows
  <1>3. ASSUME NEW d \in Clients \ {c} PROVE CallFollows(d)'
    <2>1. CallFollows(d)
      BY DEF ReadsFollow
    <2> QED BY <2>1 DEF CallFollows
  <1>4. CallFollows(c)'
    BY DEF CallFollows, Stepping, Told
  <1>5. SetsApart'
    BY DEF ReadsFollow, SetsApart
  <1> QED BY <1>2, <1>3, <1>4, <1>5 DEF ReadsFollow

LEMMA CallOnlyFollows ==
  ASSUME HandleInv, HandleInv', ReadsFollow, "one" \in Rules, NEW c \in Clients,
         \/ CallConnect(c) \/ CallDisconnect(c) \/ ReturnOver(c) \/ WorkOpen(c) \/ WorkConnect(c)
         \/ \E s \in Sets : CallNext(c, s)
         \/ \E p \in Stmts : CallClose(c, p)
  PROVE  ReadsFollow'
  <1> USE DEF HandleInv
  <1>1. CASE CallConnect(c) \/ CallDisconnect(c) \/ ReturnOver(c)
    <2>1. /\ UNCHANGED <<vdbe, obj, read>> /\ call[c].at \notin Told
          /\ call'[c].at \in {"open", "drop", "none"} /\ \A d \in Clients \ {c} : call'[d] = call[d]
      BY <1>1, Types DEF CallConnect, CallDisconnect, ReturnOver, Start, Hangup, Idle, NoCall, Told
    <2> QED BY <2>1, CallFollowsOnly
  <1>2. CASE WorkOpen(c) \/ WorkConnect(c)
    <2>1. UNCHANGED <<vdbe, obj, read>> /\ call[c].at \notin Told
      BY <1>2 DEF WorkOpen, WorkConnect, Told
    <2>2. Goto(c, "write") \/ Goto(c, "over")
      BY <1>2 DEF WorkOpen, WorkConnect
    <2>3. call'[c].at \in {"write", "over"} /\ \A d \in Clients \ {c} : call'[d] = call[d]
      BY <2>2, GotoMoves
    <2> QED BY <2>1, <2>3, CallFollowsOnly
  <1>3. ASSUME NEW s \in Sets, CallNext(c, s) PROVE ReadsFollow'
    <2>1. /\ UNCHANGED <<vdbe, obj, read>> /\ call[c].at \notin Told /\ read[s].told = "none"
          /\ call'[c].at = "step" /\ call'[c].obj = s /\ \A d \in Clients \ {c} : call'[d] = call[d]
      BY <1>3, Types DEF CallNext, Start, Idle, NoCall, Told
    <2> QED BY <2>1, CallFollowsOnly
  <1>4. ASSUME NEW p \in Stmts, CallClose(c, p) PROVE ReadsFollow'
    <2>1. /\ UNCHANGED <<vdbe, obj, read>> /\ call[c].at \notin Told
          /\ \A s \in Sets : obj[s].vdbe # obj[p].vdbe
          /\ call'[c].at = "finalize" /\ call'[c].obj = p
          /\ \A d \in Clients \ {c} : call'[d] = call[d]
      BY <1>4, Types DEF CallClose, Start, Idle, NoCall, Told
    <2> QED BY <2>1, CallFollowsOnly
  <1> QED BY <1>1, <1>2, <1>3, <1>4

\* Resetting or finalizing a vdbe that no result set holds.
LEMMA UnreadVdbeFollows ==
  ASSUME HandleInv, HandleInv', ReadsFollow, "one" \in Rules,
         (\E c \in Clients : WorkClose(c)) \/ (\E p \in Stmts : Reset(p))
  PROVE  ReadsFollow'
  <1> USE DEF HandleInv
  <1>1. ASSUME NEW c \in Clients, WorkClose(c) PROVE ReadsFollow'
    <2>1. PICK p \in Stmts :
            /\ call[c].at = "finalize" /\ call[c].obj = p /\ Goto(c, "over") /\ read' = read
            /\ obj' = [obj EXCEPT ![p].vdbe = None]
            /\ \A w \in Vdbes \ {obj[p].vdbe} : vdbe'[w] = vdbe[w]
            /\ \A s \in Sets : obj[s].vdbe # obj[p].vdbe
      <3>1. call[c].at = "finalize" /\ FindsObject(c)
        BY <1>1 DEF WorkClose, CallsOwnObjects
      <3>2. call[c].obj \in Stmts /\ \A s \in Sets : obj[s].vdbe # obj[call[c].obj].vdbe
        BY <3>1 DEF FindsObject, ReadsFollow, SetsApart
      <3>3. \A w \in Vdbes \ {obj[call[c].obj].vdbe} : vdbe'[w] = vdbe[w]
        BY <1>1, Types DEF WorkClose
      <3> QED BY <1>1, <3>1, <3>2, <3>3 DEF WorkClose
    <2>2. /\ obj'[p].vdbe = None /\ \A o \in Objects \ {p} : obj'[o] = obj[o]
          /\ call'[c].at = "over" /\ \A d \in Clients \ {c} : call'[d] = call[d]
          /\ \A d \in Clients \ {c} : call[d].obj # None => call[d].obj # p
      BY <2>1, GotoMoves, Types DEF ObjectType, CallsOwnObjects
    <2>3. /\ \A s \in Sets \ {p} : SetFollows(s)'
          /\ \A d \in Clients \ {c} : CallFollows(d)'
      <3>1. Touches(c, p)
        BY <2>1, <2>2, Types DEF Touches, Told, ObjectType
      <3> QED BY <3>1, OthersFollow
    <2>4. SetsApart'
      BY <2>1, <2>2, ApartStill, Types DEF ReadsFollow, CallsOwnObjects, FindsObject
    <2>5. CallFollows(c)'
      BY <2>2 DEF CallFollows, Stepping, Told
    <2> QED BY <2>3, <2>4, <2>5, Types DEF ReadsFollow
  <1>2. ASSUME NEW p \in Stmts, Reset(p) PROVE ReadsFollow'
    <2>1. /\ UNCHANGED <<obj, read, call>> /\ None \notin Clients \cup Sets \cup Objects
          /\ \A w \in Vdbes \ {obj[p].vdbe} : vdbe'[w] = vdbe[w]
          /\ \A s \in Sets : obj[s].vdbe # obj[p].vdbe
      BY <1>2, Types DEF Reset
    <2>2. /\ \A s \in Sets \ {None} : SetFollows(s)'
          /\ \A d \in Clients \ {None} : CallFollows(d)'
      <3>1. Touches(None, None)
        BY <2>1, Types DEF Touches, ObjectType
      <3> QED BY <3>1, OthersFollow
    <2>3. SetsApart'
      BY <2>1 DEF ReadsFollow, SetsApart
    <2> QED BY <2>1, <2>2, <2>3 DEF ReadsFollow
  <1> QED BY <1>1, <1>2

\* sqlite3_step() of the vdbe that the result set has for itself.
LEMMA WorkStepFollows ==
  ASSUME HandleInv, HandleInv', ReadsFollow, NEW c \in Clients, WorkStep(c)
  PROVE  ReadsFollow'
  <1> USE DEF HandleInv
  <1>1. PICK s \in Sets :
          /\ call[c].at = "step" /\ call[c].obj = s /\ obj[s].vdbe \in Vdbes /\ UNCHANGED <<conn, obj>>
    <2>1. call[c].at = "step" /\ FindsObject(c) /\ UNCHANGED <<conn, obj>>
      BY DEF WorkStep, CallsOwnObjects
    <2> QED BY <2>1, Types DEF FindsObject, Stepping, ObjectType
  <1>2. PICK r \in {"row", "done", "error"} : Step(c, s, obj[s].vdbe, r) /\ Goto(c, r)
    BY <1>1 DEF WorkStep
  <1> DEFINE v == obj[s].vdbe
             row == vdbe[v].row
  <1>3. /\ call'[c].at = r /\ call'[c].obj = s
        /\ \A d \in Clients \ {c} : call'[d] = call[d] /\ (call[d].obj # None => call[d].obj # s)
    BY <1>1, <1>2, GotoMoves DEF CallsOwnObjects
  <1>4. /\ row \in Nat /\ vdbe'[v].row = (IF r = "row" THEN row + 1 ELSE 0)
        /\ \A w \in Vdbes \ {v} : vdbe'[w] = vdbe[w]
    <2>1. v \in Vdbes /\ vdbe \in [Vdbes -> VdbeType]
      BY <1>1, Types
    <2>2. row \in Nat
      BY <2>1 DEF VdbeType
    <2>3. vdbe' = [vdbe EXCEPT ![v].row = IF r = "row" THEN @ + 1 ELSE 0]
      BY <1>2 DEF Step
    <2> QED BY <2>1, <2>2, <2>3 DEF VdbeType
  <1>5. /\ read'[s].runs = (IF row = 0 THEN read[s].runs + 1 ELSE read[s].runs)
        /\ read'[s].seen = read[s].seen /\ read'[s].told = read[s].told
        /\ \A t \in Sets \ {s} : read'[t] = read[t]
    BY <1>1, <1>2, Types DEF Step, ReadType
  <1>6. /\ \A t \in Sets \ {s} : SetFollows(t)'
        /\ \A d \in Clients \ {c} : CallFollows(d)'
    <2>1. \A t \in Sets \ {s} : obj[t].vdbe # None => obj[t].vdbe \in Vdbes \ {v}
      BY <1>1, Types DEF ReadsFollow, SetsApart, ObjectType
    <2>2. Touches(c, s)
      BY <1>1, <1>3, <1>4, <1>5, <2>1, Types DEF Touches
    <2> QED BY <2>2, OthersFollow
  <1>7. /\ Len(read[s].seen) = row /\ read[s].runs = (IF row = 0 THEN 0 ELSE 1)
        /\ read[s].told = "none" /\ \A i \in 1..Len(read[s].seen) : read[s].seen[i] = i
    <2>1. SetFollows(s) /\ CallFollows(c)
      BY DEF ReadsFollow
    <2>2. ~Pending(s)
      BY <1>1, <1>3, Types DEF Pending, Told
    <2> QED BY <1>1, <2>1, <2>2, Types DEF SetFollows, CallFollows, Stepping
  <1>8. SetFollows(s)'
    <2>1. Pending(s)'
      BY <1>3 DEF Pending, Told
    <2>2. obj' = obj /\ obj[s].vdbe # None /\ read'[s].seen = read[s].seen /\ read'[s].told = "none"
      BY <1>1, <1>5, <1>7, Types
    <2>3. \A i \in 1..Len(read'[s].seen) : read'[s].seen[i] = i
      BY <1>7, <2>2
    <2> QED BY <2>1, <2>2, <2>3 DEF SetFollows
  <1>9. CallFollows(c)'
    <2>1. r = "row" => read'[s].runs = 1 /\ vdbe'[v].row = Len(read'[s].seen) + 1
      BY <1>4, <1>5, <1>7
    <2>2. r = "done" => row = obj[s].cmd.rows
      <3>1. r = "done" => vdbe[v].row = vdbe[v].cmd.rows
        BY <1>2 DEF Step
      <3>2. vdbe[v].cmd = obj[s].cmd
        BY <1>1, Types DEF VdbesHaveHolders
      <3> QED BY <3>1, <3>2
    <2>3. r = "done" => read'[s].runs = 1 /\ Len(read'[s].seen) = obj[s].cmd.rows
      BY <1>5, <1>7, <2>2
    <2> QED BY <1>1, <1>3, <1>5, <1>7, <2>1, <2>3 DEF CallFollows
  <1>10. SetsApart'
    BY <1>1, <1>3, ApartStill, Types DEF ReadsFollow
  <1> QED BY <1>6, <1>8, <1>9, <1>10 DEF ReadsFollow

\* next() tells what the step came to.
LEMMA ReturnNextFollows ==
  ASSUME HandleInv, HandleInv', ReadsFollow, NEW c \in Clients, ReturnNext(c)
  PROVE  ReadsFollow'
  <1> USE DEF HandleInv
  <1>1. PICK s \in Sets :
          /\ call[c].at \in Told /\ call[c].obj = s /\ obj[s].vdbe \in Vdbes
          /\ UNCHANGED <<conn, vdbe, obj>> /\ call' = [call EXCEPT ![c] = NoCall]
          /\ read' = [read EXCEPT ![s] = Tell(s, call[c].at)]
    <2>1. /\ call[c].at \in Told /\ FindsObject(c)
          /\ UNCHANGED <<conn, vdbe, obj>> /\ call' = [call EXCEPT ![c] = NoCall]
          /\ read' = [read EXCEPT ![call[c].obj] = Tell(call[c].obj, call[c].at)]
      BY DEF ReturnNext, CallsOwnObjects, Told, Hangup
    <2> QED BY <2>1, Types DEF FindsObject, Stepping, ObjectType
  <1> DEFINE row == vdbe[obj[s].vdbe].row
             seen == read[s].seen
  <1>2. /\ call'[c] = NoCall
        /\ \A d \in Clients \ {c} : call'[d] = call[d] /\ (call[d].obj # None => call[d].obj # s)
        /\ read'[s] = Tell(s, call[c].at) /\ \A t \in Sets \ {s} : read'[t] = read[t]
    BY <1>1, Types DEF CallsOwnObjects
  <1>3. /\ \A t \in Sets \ {s} : SetFollows(t)'
        /\ \A d \in Clients \ {c} : CallFollows(d)'
    <2>1. Touches(c, s)
      BY <1>1, <1>2 DEF Touches
    <2> QED BY <2>1, OthersFollow
  <1>4. /\ seen \in Seq(Nat) /\ row \in Nat /\ read[s].told = "none"
        /\ \A i \in 1..Len(seen) : seen[i] = i
        /\ call[c].at = "row" => read[s].runs = 1 /\ row = Len(seen) + 1
        /\ call[c].at = "done" => read[s].runs = 1 /\ Len(seen) = obj[s].cmd.rows
    <2>1. SetFollows(s) /\ CallFollows(c)
      BY DEF ReadsFollow
    <2> QED BY <1>1, <2>1, Types DEF SetFollows, CallFollows, Stepping, ReadType, VdbeType
  <1>5. SetFollows(s)'
    <2>1. CASE call[c].at = "row"
      <3>1. /\ read'[s].seen = Append(seen, row) /\ read'[s].runs = 1 /\ read'[s].told = "none"
        BY <1>1, <1>2, <1>4, <2>1, Types DEF Tell, ReadType
      <3>2. /\ Len(read'[s].seen) = Len(seen) + 1
            /\ \A i \in 1..Len(seen) + 1 : read'[s].seen[i] = i
        BY <1>4, <2>1, <3>1, AppendProperties
      <3>3. Len(seen) \in Nat /\ row = Len(read'[s].seen) /\ row # 0
        BY <1>4, <2>1, <3>2
      <3> HIDE DEF row, seen
      <3> QED BY <1>1, <1>4, <2>1, <3>1, <3>2, <3>3, Types DEF SetFollows, row
    <2>2. CASE call[c].at \in {"done", "error"}
      <3>1. /\ read'[s].seen = seen /\ read'[s].runs = read[s].runs
            /\ read'[s].told = (IF call[c].at = "done" THEN "end" ELSE "error")
        BY <1>1, <1>2, <2>2, Types DEF Tell, ReadType
      <3> QED BY <1>1, <1>4, <2>2, <3>1, Types DEF SetFollows
    <2> QED BY <1>1, <2>1, <2>2 DEF Told
  <1>6. CallFollows(c)'
    BY <1>2 DEF CallFollows, NoCall, Stepping, Told
  <1>7. SetsApart'
    BY <1>1, <1>2, ApartStill, Types DEF ReadsFollow, NoCall
  <1> QED BY <1>3, <1>5, <1>6, <1>7 DEF ReadsFollow

-----------------------------------------------------------------------------
LEMMA ReadsFollowInit == Init => ReadsFollow
  <1> SUFFICES ASSUME Init PROVE ReadsFollow
    OBVIOUS
  <1>1. SetsApart
    BY DEF Init, SetsApart, NoObject, NoCall, Objects
  <1>2. ASSUME NEW s \in Sets PROVE SetFollows(s)
    <2>1. read[s] = Unread /\ obj[s].vdbe = None /\ Len(read[s].seen) = 0 /\ read[s].told = "none"
      BY DEF Init, Unread, NoObject, Objects
    <2> QED BY <2>1 DEF SetFollows
  <1>3. \A c \in Clients : CallFollows(c)
    BY DEF Init, CallFollows, NoCall, Stepping, Told
  <1> QED BY <1>1, <1>2, <1>3 DEF ReadsFollow

LEMMA ReadsFollowStep ==
  ASSUME HandleInv, HandleInv', ReadsFollow, "one" \in Rules, [Next]_vars
  PROVE  ReadsFollow'
  <1>1. ASSUME NEW c \in Clients,
               \/ WorkPrepare(c) \/ WorkStep(c) \/ WorkDisconnect(c) \/ WorkClose(c)
               \/ ReturnPrepared(c) \/ ReturnRefused(c) \/ ReturnNext(c) \/ ReturnExecute(c)
        PROVE  ReadsFollow'
    BY <1>1, WorkPrepareFollows, WorkStepFollows, DisconnectFollows, UnreadVdbeFollows,
       ReturnPreparedFollows, ReturnRefusedFollows, ReturnNextFollows, ReturnExecuteFollows
  <1>2. ASSUME NEW c \in Clients,
               \/ CallConnect(c) \/ CallDisconnect(c) \/ ReturnOver(c) \/ WorkOpen(c) \/ WorkConnect(c)
               \/ \E s \in Sets : CallNext(c, s)
               \/ \E p \in Stmts : CallClose(c, p)
        PROVE  ReadsFollow'
    BY <1>2, CallOnlyFollows
  <1>3. ASSUME NEW s \in Sets, NEW p \in Stmts,
               QueryPrepared(s, p) \/ \E c \in Clients : ExecutePrepared(c, s, p)
        PROVE  ReadsFollow'
    BY <1>3, RunPreparedFollows
  <1>4. ASSUME NEW c \in Clients, NEW op \in {"query", "execute", "prepare"}, NEW o \in Objects,
               NEW cmd \in Commands, CallCommand(c, op, o, cmd)
        PROVE  ReadsFollow'
    BY <1>4, CallCommandFollows
  <1>5. ASSUME NEW p \in Stmts, Reset(p) PROVE ReadsFollow'
    BY <1>5, UnreadVdbeFollows
  <1>6. ASSUME NEW o \in Objects, Destroy(o) PROVE ReadsFollow'
    BY <1>6, DestroyFollows
  <1>7. CASE DestroyConnection
    BY <1>7, DisconnectFollows
  <1>8. CASE UNCHANGED vars
    BY <1>8 DEF vars, ReadsFollow, SetsApart, SetFollows, CallFollows, Pending
  <1> QED BY <1>1, <1>2, <1>3, <1>4, <1>5, <1>6, <1>7, <1>8 DEF Next

\* When a statement is reset before it is run again and a result set is not read
\* past its end, the rows are those of one run of the set's own command
\* (sqlite.cpp:130-164).
THEOREM RowsAreOwn ==
  ASSUME "one" \in Rules
  PROVE  Spec => []RowsAreOwnAndAll
  <1>1. ReadsFollow => RowsAreOwnAndAll
    BY DEF ReadsFollow, SetFollows, RowsAreOwnAndAll
  <1>2. Init => HandleInv /\ ReadsFollow
    BY InitEstablishes, ReadsFollowInit
  <1>3. HandleInv /\ ReadsFollow /\ [Next]_vars => (HandleInv /\ ReadsFollow)'
    BY StepPreserves, ReadsFollowStep
  <1> QED BY <1>1, <1>2, <1>3, PTL DEF Spec

-----------------------------------------------------------------------------
(* Counts.                                                                 *)

Executing(c) == call[c].op = "execute"
IsWrite(o)   == obj[o].cmd.kind = "insert"

\* While execute() is under way the connection keeps its handle, the write gives
\* no rows, and is counted by its handle when it is done.
CountFollows(c) ==
  LET o == call[c].obj
  IN /\ call[c].stmt = None =>
          conn = obj[o].of /\ \A d \in Clients : call[d].op \notin {"connect", "disconnect"}
     /\ IsWrite(o) =>
          /\ obj[o].cmd.rows = 0 /\ call[c].at # "row"
          /\ call[c].at = "done" /\ ~obj[o].bare => c \in handle[obj[o].of].counts

CountsFollow == \A c \in Clients : Executing(c) => CountFollows(c)

\* A step by client e (or None) that touches object x (or None) alone and spares
\* the count that the execute() of c is going to ask for.
SparesCount(c, e) ==
  LET o == call[c].obj
  IN /\ call[c].stmt = None =>
          conn' = conn /\ (e \in Clients => call'[e].op \notin {"connect", "disconnect"})
     /\ ~obj[o].bare /\ c \in handle[obj[o].of].counts => c \in handle'[obj[o].of].counts

Spares(e, x) ==
  /\ \A d \in Clients \ {e} : call'[d] = call[d] /\ (call[d].obj # None => call[d].obj # x)
  /\ \A o \in Objects \ {x} :
       obj'[o].of = obj[o].of /\ obj'[o].bare = obj[o].bare /\ obj'[o].cmd = obj[o].cmd
  /\ \A c \in Clients \ {e} : Executing(c) => SparesCount(c, e)

\* An execute() holds an object, which holds a handle.
LEMMA ExecutingHolds ==
  ASSUME HandleInv, NEW c \in Clients, Executing(c)
  PROVE  /\ call[c].obj \in Sets /\ call[c].obj \in Objects /\ call[c].obj # None
         /\ obj[call[c].obj].of \in Handles
         /\ ~obj[call[c].obj].bare => handle[obj[call[c].obj].of].state = "open"
  <1>1. FindsObject(c) /\ TypeOK /\ HeldIsOpen
    BY DEF HandleInv, CallsOwnObjects
  <1>2. call[c].obj \in Sets
    BY <1>1 DEF FindsObject, Executing, Making, Stepping
  <1> QED BY <1>1, <1>2, Types DEF FindsObject, ObjectType, HeldIsOpen

\* The other executes follow their counts still.
LEMMA OthersCount ==
  ASSUME HandleInv, CountsFollow, NEW e, NEW x, Spares(e, x)
  PROVE  \A c \in Clients \ {e} : Executing(c)' => CountFollows(c)'
  <1> SUFFICES ASSUME NEW c \in Clients \ {e}, Executing(c)'
               PROVE  CountFollows(c)'
    OBVIOUS
  <1>1. call'[c] = call[c] /\ Executing(c) /\ CountFollows(c) /\ SparesCount(c, e)
    BY DEF Spares, Executing, CountsFollow
  <1>2. PICK o \in Objects \ {x} : call[c].obj = o
    BY <1>1, ExecutingHolds DEF Spares
  <1>3. obj'[o].of = obj[o].of /\ obj'[o].bare = obj[o].bare /\ obj'[o].cmd = obj[o].cmd
    BY DEF Spares
  <1>4. call'[c].stmt = None =>
          conn' = obj'[o].of /\ \A d \in Clients : call'[d].op \notin {"connect", "disconnect"}
    BY <1>1, <1>2, <1>3 DEF CountFollows, SparesCount, Spares
  <1>5. obj'[o].cmd.kind = "insert" =>
          /\ obj'[o].cmd.rows = 0 /\ call'[c].at # "row"
          /\ call'[c].at = "done" /\ ~obj'[o].bare => c \in handle'[obj'[o].of].counts
    BY <1>1, <1>2, <1>3 DEF CountFollows, SparesCount, IsWrite
  <1> QED BY <1>1, <1>2, <1>4, <1>5 DEF CountFollows, IsWrite

\* The objects but for x (or None).
Without(x, objs) == \A p \in Objects : objs[p] = IF p = x THEN NoObject ELSE obj[p]

\* A handle that goes when nobody has a share in it is not that of an execute().
LEMMA ClosedSpares ==
  ASSUME HandleInv, NEW x, NEW k, NEW objs, Without(x, objs),
         NEW c \in Clients, Executing(c), call[c].obj # x
  PROVE  ~obj[call[c].obj].bare =>
           Closed(k, objs)[obj[call[c].obj].of] = handle[obj[call[c].obj].of]
  <1>1. PICK o \in Objects \ {x} : call[c].obj = o /\ obj[o].of \in Handles
    BY ExecutingHolds
  <1>2. ~obj[o].bare => obj[o].of \in Shares(k, objs)
    <2>1. objs[o] = obj[o]
      BY <1>1 DEF Without
    <2> QED BY <2>1 DEF Shares
  <1> QED BY <1>1, <1>2 DEF Closed

LEMMA CallCommandCounts ==
  ASSUME HandleInv, CountsFollow, {"plain", "session"} \subseteq Rules, NEW e \in Clients,
         NEW op \in {"query", "execute", "prepare"}, NEW o \in Objects, NEW cmd \in Commands,
         CallCommand(e, op, o, cmd)
  PROVE  CountsFollow'
  <1> USE DEF HandleInv
  <1>1. PICK h \in Handles, bare \in BOOLEAN :
          /\ Copied(h, bare)
          /\ obj' = [obj EXCEPT ![o] = [life |-> "local", of |-> h, bare |-> bare,
                                        vdbe |-> None, cmd |-> cmd]]
    BY DEF CallCommand
  <1> DEFINE new == [life |-> "local", of |-> h, bare |-> bare, vdbe |-> None, cmd |-> cmd]
             start == [op |-> op, at |-> "prepare", obj |-> o, stmt |-> None]
  <1>2. /\ obj[o].life = "none" /\ call' = [call EXCEPT ![e] = start]
        /\ UNCHANGED <<conn, handle, vdbe, read>>
        /\ op = "execute" => MayExecute(cmd) /\ ~Leaving
    BY DEF CallCommand, Start
  <1>3. /\ obj'[o] = new /\ call'[e] = start
        /\ \A p \in Objects \ {o} : obj'[p] = obj[p]
        /\ \A d \in Clients \ {e} : call'[d] = call[d]
    BY <1>1, <1>2, Types
  <1>4. Spares(e, o)
    <2>1. \A d \in Clients : call[d].obj # None => call[d].obj # o
      BY <1>2 DEF CallsOwnObjects, FindsObject
    <2> QED BY <1>2, <1>3, <2>1 DEF Spares, SparesCount
  <1>5. ASSUME op = "execute" PROVE CountFollows(e)'
    <2>1. \A d \in Clients : call[d].op \notin {"connect", "disconnect"}
      BY <1>2, <1>5 DEF Leaving
    <2>2. conn = h
      <3>1. ~Rewriting
        BY <2>1 DEF Rewriting, CallsOwnObjects, FindsObject
      <3> QED BY <1>1, <3>1 DEF Copied
    <2>3. cmd.kind = "insert" => cmd.rows = 0
      BY <1>2, <1>5 DEF MayExecute
    <2> QED BY <1>2, <1>3, <1>5, <2>1, <2>2, <2>3 DEF CountFollows, IsWrite
  <1> QED BY <1>3, <1>4, <1>5, OthersCount DEF CountsFollow, Executing

\* A result set is made of a prepared statement, and perhaps executed.
LEMMA RunPreparedCounts ==
  ASSUME HandleInv, CountsFollow, {"plain", "session"} \subseteq Rules,
         NEW s \in Sets, NEW p \in Stmts,
         QueryPrepared(s, p) \/ \E e \in Clients : ExecutePrepared(e, s, p)
  PROVE  CountsFollow'
  <1> USE DEF HandleInv
  <1>1. \A d \in Clients : obj[s].life = "none" => (call[d].obj # None => call[d].obj # s)
    BY DEF CallsOwnObjects, FindsObject
  <1>2. CASE QueryPrepared(s, p)
    <2>1. /\ obj[s].life = "none" /\ \A o \in Objects \ {s} : obj'[o] = obj[o]
          /\ UNCHANGED <<conn, handle, vdbe, call>> /\ None \notin Clients
      BY <1>2, Types DEF QueryPrepared
    <2>2. Spares(None, s)
      BY <1>1, <2>1 DEF Spares, SparesCount
    <2>3. \A c \in Clients : Executing(c)' => CountFollows(c)'
      BY <2>1, <2>2, OthersCount
    <2> QED BY <2>3 DEF CountsFollow
  <1>3. ASSUME NEW e \in Clients, ExecutePrepared(e, s, p) PROVE CountsFollow'
    <2> DEFINE start == [op |-> "execute", at |-> "step", obj |-> s, stmt |-> p]
    <2>1. /\ obj[s].life = "none" /\ obj'[s].cmd = obj[p].cmd
          /\ \A o \in Objects \ {s} : obj'[o] = obj[o]
          /\ call'[e] = start /\ \A d \in Clients \ {e} : call'[d] = call[d]
          /\ UNCHANGED <<conn, handle, vdbe>> /\ MayExecute(obj[p].cmd)
      BY <1>3, Types DEF ExecutePrepared, Start, Share, ObjectType
    <2>2. Spares(e, s)
      BY <1>1, <2>1 DEF Spares, SparesCount
    <2>3. CountFollows(e)'
      <3>1. obj[p].cmd.kind = "insert" => obj[p].cmd.rows = 0
        BY <2>1 DEF MayExecute
      <3>2. p # None
        BY Types
      <3> QED BY <2>1, <3>1, <3>2 DEF CountFollows, IsWrite
    <2> QED BY <2>2, <2>3, OthersCount DEF CountsFollow
  <1> QED BY <1>2, <1>3

\* A step of the call of e that leaves conn and the objects alone, and the counts
\* of the other calls.
LEMMA MovingCallCounts ==
  ASSUME HandleInv, CountsFollow, NEW e \in Clients, UNCHANGED <<conn, obj>>,
         \A d \in Clients \ {e} : call'[d] = call[d],
         call'[e].op # "execute",
         call'[e].op \in {"connect", "disconnect"} =>
           \A c \in Clients : Executing(c) => call[c].stmt # None,
         \A h \in Handles : handle[h].counts \ {e} \subseteq handle'[h].counts
  PROVE  CountsFollow'
  <1>1. \A c \in Clients \ {e} : Executing(c) => SparesCount(c, e)
    BY ExecutingHolds DEF SparesCount
  <1>2. Spares(e, None)
    BY <1>1 DEF Spares
  <1> QED BY <1>2, OthersCount DEF CountsFollow, Executing

\* A call starts, or returns from its thread.
LEMMA CallOnlyCounts ==
  ASSUME HandleInv, CountsFollow, "session" \in Rules, NEW e \in Clients,
         \/ CallConnect(e) \/ CallDisconnect(e) \/ ReturnOver(e) \/ ReturnNext(e)
         \/ \E s \in Sets : CallNext(e, s)
         \/ \E p \in Stmts : CallClose(e, p)
  PROVE  CountsFollow'
  <1> USE DEF HandleInv
  <1>1. \A c \in Clients : Executing(c) /\ call[c].stmt = None => conn # None /\ OnSession
    <2>1. ASSUME NEW c \in Clients, Executing(c), call[c].stmt = None PROVE conn # None
      <3>1. CountFollows(c)
        BY <2>1 DEF CountsFollow
      <3>2. None \notin Handles
        BY Types
      <3> QED BY <2>1, <3>1, <3>2, ExecutingHolds DEF CountFollows
    <2> QED BY <2>1 DEF OnSession, Executing
  <1>2. UNCHANGED <<conn, obj>>
    BY DEF CallConnect, CallDisconnect, ReturnOver, ReturnNext, CallNext, CallClose
  <1>3. \A h \in Handles : handle[h].counts \ {e} \subseteq handle'[h].counts
    <2>1. handle' = handle \/ handle' = Forgotten(e, handle)
      BY DEF CallConnect, CallDisconnect, ReturnOver, ReturnNext, CallNext, CallClose
    <2> QED BY <2>1, Types DEF Forgotten, HandleType
  <1>4. CASE CallConnect(e)
    <2>1. call'[e].op = "connect" /\ conn = None /\ \A d \in Clients \ {e} : call'[d] = call[d]
      BY <1>4, Types DEF CallConnect, Start
    <2> QED BY <1>1, <1>2, <1>3, <2>1, MovingCallCounts
  <1>5. CASE CallDisconnect(e)
    <2>1. call'[e].op = "disconnect" /\ ~OnSession /\ \A d \in Clients \ {e} : call'[d] = call[d]
      BY <1>5, Types DEF CallDisconnect, Start
    <2> QED BY <1>1, <1>2, <1>3, <2>1, MovingCallCounts
  <1>6. CASE ReturnOver(e) \/ ReturnNext(e)
    <2>1. call'[e] = NoCall /\ \A d \in Clients \ {e} : call'[d] = call[d]
      BY <1>6, Types DEF ReturnOver, ReturnNext, Hangup
    <2> QED BY <1>2, <1>3, <2>1, MovingCallCounts DEF NoCall
  <1>7. CASE (\E s \in Sets : CallNext(e, s)) \/ (\E p \in Stmts : CallClose(e, p))
    <2>1. call'[e].op \in {"next", "close"} /\ \A d \in Clients \ {e} : call'[d] = call[d]
      BY <1>7, Types DEF CallNext, CallClose, Start
    <2> QED BY <1>2, <1>3, <2>1, MovingCallCounts
  <1> QED BY <1>4, <1>5, <1>6, <1>7

\* connect() opens a handle, and puts it into mSqlite, while no execute() without
\* a statement is under way.
LEMMA ConnectCounts ==
  ASSUME HandleInv, CountsFollow, NEW e \in Clients, WorkOpen(e) \/ WorkConnect(e)
  PROVE  CountsFollow'
  <1> USE DEF HandleInv
  <1>1. call[e].op \in {"connect", "disconnect"} /\ obj' = obj
    BY DEF WorkOpen, WorkConnect, CallsOwnObjects, FindsObject
  <1>2. \A c \in Clients : Executing(c) => call[c].stmt # None
    BY <1>1 DEF CountsFollow, CountFollows
  <1>3. call'[e].op = call[e].op /\ \A d \in Clients \ {e} : call'[d] = call[d]
    <2>1. Goto(e, "write") \/ Goto(e, "over")
      BY DEF WorkOpen, WorkConnect
    <2> QED BY <2>1, GotoMoves
  <1>4. CASE WorkOpen(e)
    <2>1. \A h \in Handles : handle'[h].counts = handle[h].counts
      BY <1>4, Types DEF WorkOpen, HandleType
    <2> QED BY <1>1, <1>2, <1>3, <1>4, <2>1, MovingCallCounts DEF WorkOpen
  <1>5. CASE WorkConnect(e)
    <2>1. PICK g \in Handles : handle' = [Closed(g, obj) EXCEPT ![g].state = "open"]
      BY <1>5 DEF WorkConnect
    <2>2. \A h \in Handles : handle'[h].counts = Closed(g, obj)[h].counts
      <3>1. Closed(g, obj) \in [Handles -> HandleType]
        <4>1. \A o \in Objects : obj[o].vdbe \in Vdbes => vdbe[obj[o].vdbe].of = obj[o].of
          BY Types DEF VdbesHaveHolders
        <4> QED BY <4>1, ClosedInOrder, Types
      <3> QED BY <2>1, <3>1 DEF HandleType
    <2>3. ASSUME NEW c \in Clients \ {e}, Executing(c) PROVE SparesCount(c, e)
      <3>1. ~obj[call[c].obj].bare => Closed(g, obj)[obj[call[c].obj].of] = handle[obj[call[c].obj].of]
        <4>1. Without(None, obj)
          BY Types DEF Without
        <4>2. call[c].obj # None
          BY <2>3, ExecutingHolds
        <4> QED BY <2>3, <4>1, <4>2, ClosedSpares
      <3>2. obj[call[c].obj].of \in Handles /\ call[c].stmt # None
        BY <1>2, <2>3, ExecutingHolds
      <3> QED BY <2>2, <3>1, <3>2 DEF SparesCount
    <2>4. Spares(e, None)
      BY <1>1, <1>3, <2>3 DEF Spares
    <2> QED BY <1>1, <1>3, <2>4, OthersCount DEF CountsFollow, Executing
  <1> QED BY <1>4, <1>5

\* The call of e goes on with the object o: what is left to show is what the step
\* does to the counts.
LEMMA GoesOnCounts ==
  ASSUME HandleInv, CountsFollow, NEW e \in Clients, NEW o \in Objects, Spares(e, o),
         call[e].obj = o, call'[e].obj = o, call'[e].stmt = call[e].stmt, call'[e].op = call[e].op,
         conn' = conn, obj'[o].of = obj[o].of, obj'[o].bare = obj[o].bare, obj'[o].cmd = obj[o].cmd,
         Executing(e) /\ IsWrite(o) =>
           /\ call'[e].at # "row"
           /\ call'[e].at = "done" => e \in handle'[obj[o].of].counts
  PROVE  CountsFollow'
  <1>1. ASSUME Executing(e) PROVE CountFollows(e)'
    <2>1. CountFollows(e) /\ \A d \in Clients \ {e} : call'[d] = call[d]
      BY <1>1 DEF CountsFollow, Spares
    <2>2. call'[e].stmt = None =>
            conn' = obj'[o].of /\ \A d \in Clients : call'[d].op \notin {"connect", "disconnect"}
      BY <1>1, <2>1 DEF CountFollows, Executing
    <2>3. obj'[o].cmd.kind = "insert" =>
            /\ obj'[o].cmd.rows = 0 /\ call'[e].at # "row"
            /\ call'[e].at = "done" /\ ~obj'[o].bare => e \in handle'[obj'[o].of].counts
      BY <1>1, <2>1 DEF CountFollows, IsWrite
    <2> QED BY <2>2, <2>3 DEF CountFollows, IsWrite
  <1>2. Executing(e)' => Executing(e)
    BY DEF Executing
  <1> QED BY <1>1, <1>2, OthersCount DEF CountsFollow

LEMMA PreparingCounts ==
  ASSUME HandleInv, CountsFollow, NEW e \in Clients, WorkPrepare(e) \/ ReturnPrepared(e)
  PROVE  CountsFollow'
  <1> USE DEF HandleInv
  <1>1. PICK o \in Objects : call[e].obj = o /\ UNCHANGED <<conn, handle>>
    <2>1. call[e].at \in Making /\ FindsObject(e) /\ UNCHANGED <<conn, handle>>
      BY DEF WorkPrepare, ReturnPrepared, CallsOwnObjects, Making
    <2> QED BY <2>1, Types DEF FindsObject
  <1>2. /\ obj'[o].of = obj[o].of /\ obj'[o].bare = obj[o].bare /\ obj'[o].cmd = obj[o].cmd
        /\ \A p \in Objects \ {o} : obj'[p] = obj[p]
    <2>1. obj[o] \in ObjectType /\ obj \in [Objects -> ObjectType]
      BY Types
    <2>2. \/ obj' = obj
          \/ \E v \in Vdbes : obj' = [obj EXCEPT ![o].vdbe = v]
          \/ obj' = [obj EXCEPT ![o].life = "live"]
      BY <1>1 DEF WorkPrepare, ReturnPrepared
    <2> QED BY <2>1, <2>2 DEF ObjectType
  <1>3. \/ call'[e] = NoCall /\ \A d \in Clients \ {e} : call'[d] = call[d]
        \/ \E at \in {"prepared", "refused", "step"} : Goto(e, at)
    BY Types DEF WorkPrepare, ReturnPrepared, Hangup
  <1>4. Spares(e, o)
    <2>1. \A d \in Clients \ {e} : call'[d] = call[d] /\ (call[d].obj # None => call[d].obj # o)
      BY <1>1, <1>3, GotoMoves DEF CallsOwnObjects
    <2>2. \A c \in Clients \ {e} : Executing(c) => SparesCount(c, e)
      <3>1. \A c \in Clients : Executing(c) /\ call[c].stmt = None => call[e].op \notin {"connect", "disconnect"}
        BY DEF CountsFollow, CountFollows
      <3>2. call'[e].op = call[e].op \/ call'[e].op = "none"
        BY <1>3, GotoMoves DEF NoCall
      <3> QED BY <1>1, <3>1, <3>2 DEF SparesCount
    <2> QED BY <1>2, <2>1, <2>2 DEF Spares
  <1>5. CASE call'[e] = NoCall
    BY <1>4, <1>5, OthersCount DEF CountsFollow, Executing, NoCall
  <1>6. ASSUME NEW at \in {"prepared", "refused", "step"}, Goto(e, at) PROVE CountsFollow'
    <2>1. /\ call'[e].at = at /\ call'[e].obj = o
          /\ call'[e].op = call[e].op /\ call'[e].stmt = call[e].stmt
      BY <1>1, <1>6, GotoMoves
    <2> QED BY <1>1, <1>2, <1>4, <2>1, GoesOnCounts
  <1> QED BY <1>3, <1>5, <1>6

\* sqlite3_step(): a write of the execute() itself gives no rows, and is counted
\* when it is done; what another client steps takes no count away.
LEMMA WorkStepCounts ==
  ASSUME HandleInv, CountsFollow, NEW e \in Clients, WorkStep(e)
  PROVE  CountsFollow'
  <1> USE DEF HandleInv
  <1>1. PICK s \in Sets :
          /\ call[e].at = "step" /\ call[e].obj = s /\ s \in Objects /\ UNCHANGED <<conn, obj>>
          /\ call[e].op \in {"execute", "next"}
          /\ obj[s].vdbe \in Vdbes
    <2>1. call[e].at = "step" /\ FindsObject(e) /\ UNCHANGED <<conn, obj>>
      BY DEF WorkStep, CallsOwnObjects
    <2> QED BY <2>1, Types DEF FindsObject, Stepping, ObjectType
  <1>2. PICK r \in {"row", "done", "error"} : Step(e, s, obj[s].vdbe, r) /\ Goto(e, r)
    BY <1>1 DEF WorkStep
  <1> DEFINE v == obj[s].vdbe
  <1>3. /\ call'[e].at = r /\ call'[e].obj = s /\ call'[e].op = call[e].op /\ call'[e].stmt = call[e].stmt
        /\ \A d \in Clients \ {e} : call'[d] = call[d] /\ (call[d].obj # None => call[d].obj # s)
    BY <1>1, <1>2, GotoMoves DEF CallsOwnObjects
  <1>4. vdbe[v].of = obj[s].of /\ vdbe[v].cmd = obj[s].cmd /\ obj[s].of \in Handles
    BY <1>1, Types DEF VdbesHaveHolders, ObjectType
  <1>5. r = "row" => vdbe[v].row < vdbe[v].cmd.rows
    BY <1>2 DEF Step
  <1>6. /\ \A h \in Handles : handle[h].counts \subseteq handle'[h].counts
        /\ IsWrite(s) /\ r = "done" => e \in handle'[obj[s].of].counts
    <2>1. handle' = IF r = "done" /\ vdbe[v].cmd.kind = "insert"
                      THEN [handle EXCEPT ![vdbe[v].of].counts = @ \cup {e}] ELSE handle
      BY <1>2 DEF Step
    <2> QED BY <1>4, <2>1, Types DEF IsWrite, HandleType
  <1>7. Spares(e, s)
    <2>1. \A c \in Clients \ {e} : Executing(c) => SparesCount(c, e)
      BY <1>1, <1>3, <1>6, ExecutingHolds DEF SparesCount
    <2> QED BY <1>1, <1>3, <2>1 DEF Spares
  <1>8. Executing(e) /\ IsWrite(s) => r # "row"
    <2>1. Executing(e) /\ IsWrite(s) => vdbe[v].cmd.rows = 0
      BY <1>1, <1>4 DEF CountsFollow, CountFollows
    <2>2. vdbe[v].row \in Nat
      BY <1>1, Types DEF VdbeType
    <2> QED BY <1>5, <2>1, <2>2
  <1> QED BY <1>1, <1>3, <1>6, <1>7, <1>8, GoesOnCounts

\* Letting go of an object x (or None), by client e (or None).
LetsGoOf(e, x, objs) ==
  /\ Without(x, objs)
  /\ obj' = objs
  /\ conn' \in Handles \cup {None}
  /\ \A d \in Clients \ {e} : call'[d] = call[d] /\ (call[d].obj # None => call[d].obj # x)
  /\ e \in Clients => call'[e].op \in {"none", "connect", "disconnect"}
  /\ \A c \in Clients \ {e} :
       Executing(c) =>
         /\ call[c].stmt = None => conn' = conn /\ (e \in Clients => call'[e].op = "none")
         /\ \A h \in Handles : c \in Closed(conn', objs)[h].counts => c \in handle'[h].counts

LEMMA LettingGoCounts ==
  ASSUME HandleInv, CountsFollow, NEW e, NEW x, NEW objs, LetsGoOf(e, x, objs)
  PROVE  CountsFollow'
  <1> USE DEF LetsGoOf
  <1>1. ASSUME NEW c \in Clients \ {e}, Executing(c) PROVE SparesCount(c, e)
    <2>1. call[c].obj # x /\ obj[call[c].obj].of \in Handles
      BY <1>1, ExecutingHolds
    <2>2. ~obj[call[c].obj].bare => Closed(conn', objs)[obj[call[c].obj].of] = handle[obj[call[c].obj].of]
      BY <1>1, <2>1, ClosedSpares
    <2> QED BY <1>1, <2>1, <2>2 DEF SparesCount
  <1>2. Spares(e, x)
    BY <1>1 DEF Spares, Without
  <1>3. e \in Clients => ~Executing(e)'
    BY DEF Executing
  <1> QED BY <1>2, <1>3, OthersCount DEF CountsFollow

LEMMA ReturnCommandCounts ==
  ASSUME HandleInv, CountsFollow, NEW e \in Clients, ReturnRefused(e) \/ ReturnExecute(e)
  PROVE  CountsFollow'
  <1> USE DEF HandleInv
  <1>1. PICK o \in Objects : call[e].obj = o
    <2>1. call[e].at \in Making \cup Stepping /\ FindsObject(e)
      BY DEF ReturnRefused, ReturnExecute, CallsOwnObjects, Making, Stepping, Told
    <2> QED BY <2>1, Types DEF FindsObject
  <1> DEFINE objs == [obj EXCEPT ![o] = NoObject]
  <1>2. /\ conn' = conn /\ obj' = objs /\ call' = [call EXCEPT ![e] = NoCall]
        /\ handle' = Closed(conn, objs) \/ handle' = Forgotten(e, Closed(conn, objs))
        /\ \A p \in Objects : objs[p] = IF p = o THEN NoObject ELSE obj[p]
    BY <1>1, Types DEF ReturnRefused, ReturnExecute, Held, Hangup
  <1>3. /\ call'[e].op = "none"
        /\ \A d \in Clients \ {e} : call'[d] = call[d] /\ (call[d].obj # None => call[d].obj # o)
    BY <1>1, <1>2, Types DEF CallsOwnObjects, NoCall
  <1>4. conn \in Handles \cup {None}
    BY Types
  <1> HIDE DEF objs
  <1>5. \A c \in Clients \ {e}, h \in Handles : c \in Closed(conn, objs)[h].counts => c \in handle'[h].counts
    <2>1. Closed(conn, objs) \in [Handles -> HandleType]
      <3>1. \A p \in Objects : objs[p].vdbe \in Vdbes => vdbe[objs[p].vdbe].of = objs[p].of
        BY <1>2, Types DEF VdbesHaveHolders, NoObject
      <3> QED BY <1>4, <3>1, ClosedInOrder, Types
    <2> QED BY <1>2, <2>1 DEF Forgotten, HandleType
  <1>6. LetsGoOf(e, o, objs)
    BY <1>2, <1>3, <1>4, <1>5 DEF LetsGoOf, Without
  <1> QED BY <1>6, LettingGoCounts

LEMMA DestroyCounts ==
  ASSUME HandleInv, CountsFollow, NEW o \in Objects, Destroy(o)
  PROVE  CountsFollow'
  <1> USE DEF HandleInv
  <1> DEFINE objs == [obj EXCEPT ![o] = NoObject]
  <1>1. /\ Held(conn, objs) /\ call' = call /\ \A d \in Clients : call[d].obj # o
        /\ \A p \in Objects : objs[p] = IF p = o THEN NoObject ELSE obj[p]
    BY Types DEF Destroy, InUse
  <1>2. conn \in Handles \cup {None} /\ None \notin Clients
    BY Types
  <1> HIDE DEF objs
  <1>3. LetsGoOf(None, o, objs)
    BY <1>1, <1>2 DEF LetsGoOf, Without, Held
  <1> QED BY <1>3, LettingGoCounts

LEMMA DisconnectCounts ==
  ASSUME HandleInv, CountsFollow,
         DestroyConnection \/ \E e \in Clients : WorkDisconnect(e)
  PROVE  CountsFollow'
  <1> USE DEF HandleInv
  <1>1. /\ None \notin Objects \cup Clients
        /\ \A p \in Objects : obj[p] = IF p = None THEN NoObject ELSE obj[p]
    BY Types
  <1>2. ASSUME DestroyConnection PROVE CountsFollow'
    <2>1. Held(None, obj) /\ call' = call /\ conn # None
      BY <1>2 DEF DestroyConnection
    <2>2. \A c \in Clients : ~Executing(c)
      BY <1>2 DEF DestroyConnection, Executing
    <2> QED BY <2>1, <2>2 DEF CountsFollow, Executing
  <1>3. ASSUME NEW e \in Clients, WorkDisconnect(e) PROVE CountsFollow'
    <2>1. /\ Held(None, obj) /\ call[e].at = "drop" /\ Goto(e, "over")
          /\ call[e].op \in {"connect", "disconnect"} /\ FindsObject(e)
      BY <1>3 DEF WorkDisconnect, CallsOwnObjects, FindsObject
    <2>2. \A c \in Clients : Executing(c) => call[c].stmt # None
      BY <2>1 DEF CountsFollow, CountFollows
    <2>3. /\ call'[e].op \in {"connect", "disconnect"}
          /\ \A d \in Clients \ {e} : call'[d] = call[d]
      BY <2>1, GotoMoves
    <2>4. LetsGoOf(e, None, obj)
      BY <1>1, <2>1, <2>2, <2>3 DEF LetsGoOf, Without, Held
    <2> QED BY <2>4, LettingGoCounts
  <1> QED BY <1>2, <1>3

\* close() and reset() of a statement touch no count.
LEMMA ResetCounts ==
  ASSUME HandleInv, CountsFollow,
         (\E e \in Clients : WorkClose(e)) \/ (\E p \in Stmts : Reset(p))
  PROVE  CountsFollow'
  <1> USE DEF HandleInv
  <1>1. ASSUME NEW e \in Clients, WorkClose(e) PROVE CountsFollow'
    <2>1. /\ call[e].op = "close" /\ Goto(e, "over") /\ UNCHANGED <<conn, handle>>
          /\ call[e].obj \in Objects
          /\ obj' = [obj EXCEPT ![call[e].obj].vdbe = None]
      BY <1>1, Types DEF WorkClose, CallsOwnObjects, FindsObject
    <2>2. /\ call'[e].op = "close"
          /\ \A d \in Clients \ {e} :
               call'[d] = call[d] /\ (call[d].obj # None => call[d].obj # call[e].obj)
          /\ \A o \in Objects \ {call[e].obj} : obj'[o] = obj[o]
      BY <2>1, GotoMoves, Types DEF CallsOwnObjects
    <2>3. Spares(e, call[e].obj)
      BY <2>1, <2>2 DEF Spares, SparesCount
    <2> QED BY <2>2, <2>3, OthersCount DEF CountsFollow, Executing
  <1>2. ASSUME NEW p \in Stmts, Reset(p) PROVE CountsFollow'
    BY <1>2 DEF Reset, CountsFollow, CountFollows, Executing, IsWrite
  <1> QED BY <1>1, <1>2

-----------------------------------------------------------------------------
LEMMA CountsFollowStep ==
  ASSUME HandleInv, CountsFollow, {"plain", "session"} \subseteq Rules, [Next]_vars
  PROVE  CountsFollow'
  <1>1. ASSUME NEW e \in Clients,
               \/ WorkPrepare(e) \/ ReturnPrepared(e) \/ WorkStep(e) \/ WorkOpen(e) \/ WorkConnect(e)
               \/ WorkDisconnect(e) \/ WorkClose(e) \/ ReturnRefused(e) \/ ReturnExecute(e)
        PROVE  CountsFollow'
    BY <1>1, PreparingCounts, WorkStepCounts, ConnectCounts, DisconnectCounts, ResetCounts,
       ReturnCommandCounts
  <1>2. ASSUME NEW e \in Clients,
               \/ CallConnect(e) \/ CallDisconnect(e) \/ ReturnOver(e) \/ ReturnNext(e)
               \/ \E s \in Sets : CallNext(e, s)
               \/ \E p \in Stmts : CallClose(e, p)
        PROVE  CountsFollow'
    BY <1>2, CallOnlyCounts
  <1>3. ASSUME NEW s \in Sets, NEW p \in Stmts,
               QueryPrepared(s, p) \/ \E e \in Clients : ExecutePrepared(e, s, p)
        PROVE  CountsFollow'
    BY <1>3, RunPreparedCounts
  <1>4. ASSUME NEW e \in Clients, NEW op \in {"query", "execute", "prepare"}, NEW o \in Objects,
               NEW cmd \in Commands, CallCommand(e, op, o, cmd)
        PROVE  CountsFollow'
    BY <1>4, CallCommandCounts
  <1>5. ASSUME NEW p \in Stmts, Reset(p) PROVE CountsFollow'
    BY <1>5, ResetCounts
  <1>6. ASSUME NEW o \in Objects, Destroy(o) PROVE CountsFollow'
    BY <1>6, DestroyCounts
  <1>7. CASE DestroyConnection
    BY <1>7, DisconnectCounts
  <1>8. CASE UNCHANGED vars
    BY <1>8 DEF vars, CountsFollow, CountFollows, Executing, IsWrite
  <1> QED BY <1>1, <1>2, <1>3, <1>4, <1>5, <1>6, <1>7, <1>8 DEF Next

\* When the write that execute() is given returns no rows and nobody disconnects
\* under it, the count it returns is asked of the handle that counted this write,
\* whatever else is run on the connection meanwhile, and never of a null handle
\* (sqlite.cpp:268-284, :518-531).
THEOREM CountsAreOwn ==
  ASSUME {"plain", "session"} \subseteq Rules
  PROVE  Spec => []CountIsOwn
  <1>1. HandleInv /\ CountsFollow => CountIsOwn
    <2> SUFFICES ASSUME HandleInv, CountsFollow, NEW c \in Clients, Executing(c),
                        call[c].at \in {"row", "done"}
                 PROVE  /\ Asked(c) # None
                        /\ IsWrite(call[c].obj) => c \in handle[Asked(c)].counts \/ obj[call[c].obj].bare
      BY DEF CountIsOwn, Executing, IsWrite
    <2>1. CountFollows(c) /\ obj[call[c].obj].of \in Handles
      BY ExecutingHolds DEF CountsFollow
    <2>2. None \notin Handles
      BY Types DEF HandleInv
    <2> QED BY <2>1, <2>2 DEF CountFollows, Asked
  <1>2. Init => HandleInv /\ CountsFollow
    BY InitEstablishes DEF Init, CountsFollow, Executing, NoCall
  <1>3. HandleInv /\ CountsFollow /\ [Next]_vars => (HandleInv /\ CountsFollow)'
    BY StepPreserves, CountsFollowStep
  <1> QED BY <1>1, <1>2, <1>3, PTL DEF Spec
=============================================================================
