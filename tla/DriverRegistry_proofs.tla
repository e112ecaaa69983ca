------------------------ MODULE DriverRegistry_proofs ------------------------
(***************************************************************************)
(* Theorems about DriverRegistry, for every set of libraries, drivers and  *)
(* objects.                                                                *)
(*                                                                         *)
(* CodeIsMapped is not inductive: that a destructor finds its code needs   *)
(* that the code of every object is a library the manager keeps, until the *)
(* manager goes, and that later only early objects are left.  That a kept  *)
(* library is still open needs the count of KeptLibrariesAnswer.  Behind   *)
(* the libraries no factory runs but those that registered themselves.     *)
(***************************************************************************)
EXTENDS DriverRegistry, TLAPS

\* Only main() loads.
LoadsInMain == loading # None => phase = "main"

\* The code of an object is the program's or a library that is kept.
ObjectsAreKept ==
  phase \in {"main", "exit"} =>
    \A o \in Objects : object[o] = Nothing \/ object[o].code = Main \/ plugins[object[o].code] = 1

\* When the manager closes its libraries only early objects are left.
OnlyEarlyAreLate ==
  phase = "late" => \A o \in Objects \ Early : object[o] = Nothing

RegistryInv ==
  /\ TypeOK
  /\ KeptLibrariesAnswer
  /\ LoadsInMain
  /\ ObjectsAreKept
  /\ OnlyEarlyAreLate
  /\ CodeIsMapped

-----------------------------------------------------------------------------
(* Facts about single steps.                                               *)

\* A step of main() or of the end of the process has its counts right.
LEMMA OpenOnlyIfKept ==
  ASSUME TypeOK, KeptLibrariesAnswer, NEW l \in Libraries
  PROVE  /\ handles[l] \in Nat /\ plugins[l] \in {0, 1}
         /\ loading = l => handles[l] = plugins[l] + 1
         /\ loading # l => handles[l] = plugins[l]
  BY DEF TypeOK, KeptLibrariesAnswer

\* Registering a driver of code keeps the registry's type, and the drivers
\* that are there.
LEMMA RegisteredTypes ==
  ASSUME NEW d \in [Names -> Code \cup {None}], NEW name \in Names, NEW code \in Code
  PROVE  /\ Registered(d, name, code) \in [Names -> Code \cup {None}]
         /\ \A n \in Names : d[n] # None => Registered(d, name, code)[n] = d[n]
         /\ \A n \in Names : Registered(d, name, code)[n] \in {d[n], code}
         /\ Registered(d, name, code)[name] # None
  <1>1. None \notin Code
    BY NoLibraries DEF Code
  <1> QED BY <1>1 DEF Registered

\* An object's code is a library's or the program's.
LEMMA ObjectTypes ==
  ASSUME TypeOK, NEW o \in Objects, object[o] # Nothing
  PROVE  /\ object[o].code \in Code
         /\ object[o].state \in {"opening", "open"}
         /\ [object[o] EXCEPT !.state = "open"] \in [code : Code, state : {"opening", "open"}]
         /\ [object[o] EXCEPT !.state = "open"].code = object[o].code
  BY DEF TypeOK

\* While the manager is there, the code of every object is mapped.
LEMMA ObjectsAreMapped ==
  ASSUME RegistryInv, phase \in {"main", "exit"}, NEW o \in Objects, object[o] # Nothing
  PROVE  Mapped(object[o].code)
  <1>1. CASE object[o].code = Main
    BY <1>1 DEF Mapped
  <1>2. CASE object[o].code # Main
    <2>1. object[o].code \in Libraries /\ plugins[object[o].code] = 1
      BY <1>2, ObjectTypes DEF RegistryInv, ObjectsAreKept, Code
    <2>2. handles[object[o].code] > 0
      BY <2>1, OpenOnlyIfKept DEF RegistryInv
    <2> QED BY <2>1, <2>2 DEF Mapped, Loaded
  <1> QED BY <1>1, <1>2

-----------------------------------------------------------------------------
(* Init and the actions.                                                   *)

LEMMA InitEstablishes == Init => RegistryInv
  <1> SUFFICES ASSUME Init PROVE RegistryInv
    OBVIOUS
  <1>1. Main \in Code /\ None \notin Code /\ Main \notin Libraries
    BY NoLibraries DEF Code
  <1>2. TypeOK
    BY <1>1 DEF Init, TypeOK, NoFault, Nothing
  <1>3. KeptLibrariesAnswer
    <2>1. \A l \in Libraries : l # None
      BY NoLibraries
    <2>2. \A n \in Names : drivers[n] \notin Libraries
      BY NoLibraries DEF Init
    <2> QED BY <2>1, <2>2 DEF Init, KeptLibrariesAnswer
  <1>4. LoadsInMain /\ ObjectsAreKept /\ OnlyEarlyAreLate /\ CodeIsMapped
    BY DEF Init, LoadsInMain, ObjectsAreKept, OnlyEarlyAreLate, CodeIsMapped
  <1> QED BY <1>2, <1>3, <1>4 DEF RegistryInv

LEMMA OpenPreserves ==
  ASSUME RegistryInv, NEW l \in Libraries, Open(l)
  PROVE  RegistryInv'
  <1> USE DEF RegistryInv
  <1>1. NameOf[l] \in Names /\ l \in Code /\ l # None
    BY NamesOfLibraries, NoLibraries DEF Code
  <1>2. /\ drivers' \in [Names -> Code \cup {None}]
        /\ \A n \in Names : drivers[n] # None => drivers'[n] = drivers[n]
        /\ \A n \in Names : drivers'[n] = drivers[n] \/ (drivers'[n] = l /\ l \in Registering)
    BY <1>1, RegisteredTypes DEF Open, TypeOK
  <1>3. TypeOK'
    BY <1>2 DEF Open, Running, TypeOK
  <1>4. KeptLibrariesAnswer'
    <2>1. \A k \in Libraries : handles'[k] = plugins'[k] + (IF loading' = k THEN 1 ELSE 0)
      <3>1. \A k \in Libraries : k # loading /\ handles[k] = plugins[k] /\ plugins[k] \in Nat
        BY OpenOnlyIfKept, NoLibraries DEF Open, Running
      <3>2. handles' = [handles EXCEPT ![l] = handles[l] + 1] /\ plugins' = plugins /\ loading' = l
        BY DEF Open
      <3> QED BY <3>1, <3>2 DEF TypeOK
    <2>2. \A k \in Libraries : plugins[k] = 1 => drivers'[NameOf[k]] = k
      BY <1>2, NamesOfLibraries, NoLibraries DEF Open, Running, KeptLibrariesAnswer
    <2>3. \A n \in Names : drivers'[n] \in Libraries \ Registering => plugins[drivers'[n]] = 1
      BY <1>2 DEF Open, Running, KeptLibrariesAnswer
    <2> QED BY <2>1, <2>2, <2>3 DEF Open, Running, KeptLibrariesAnswer
  <1>5. LoadsInMain' /\ ObjectsAreKept' /\ OnlyEarlyAreLate' /\ CodeIsMapped'
    BY DEF Open, Running, LoadsInMain, ObjectsAreKept, OnlyEarlyAreLate, CodeIsMapped
  <1> QED BY <1>3, <1>4, <1>5

LEMMA RefusePreserves ==
  ASSUME RegistryInv, NEW l \in Libraries, Refuse(l)
  PROVE  RegistryInv'
  <1> USE DEF RegistryInv
  <1>1. l # None /\ handles[l] = plugins[l] + 1 /\ plugins[l] \in {0, 1}
    BY NoLibraries, OpenOnlyIfKept DEF Refuse
  <1>2. handles' = [handles EXCEPT ![l] = plugins[l]]
    <2>1. handles[l] - 1 = plugins[l]
      BY <1>1
    <2> QED BY <2>1 DEF Refuse, Closed
  <1>3. TypeOK'
    BY <1>1, <1>2 DEF Refuse, TypeOK
  <1>4. KeptLibrariesAnswer'
    <2>1. \A k \in Libraries : handles'[k] = plugins'[k] + (IF loading' = k THEN 1 ELSE 0)
      BY <1>1, <1>2, OpenOnlyIfKept, NoLibraries DEF Refuse, TypeOK
    <2> QED BY <2>1 DEF Refuse, KeptLibrariesAnswer
  <1>5. LoadsInMain' /\ ObjectsAreKept' /\ OnlyEarlyAreLate' /\ CodeIsMapped'
    BY DEF Refuse, LoadsInMain, ObjectsAreKept, OnlyEarlyAreLate, CodeIsMapped
  <1> QED BY <1>3, <1>4, <1>5

LEMMA KeepPreserves ==
  ASSUME RegistryInv, NEW l \in Libraries, Keep(l)
  PROVE  RegistryInv'
  <1> USE DEF RegistryInv
  <1>1. l # None /\ handles[l] = plugins[l] + 1 /\ plugins[l] \in {0, 1} /\ phase = "main"
    BY NoLibraries, OpenOnlyIfKept DEF Keep
  <1>2. NameOf[l] \in Names /\ l \in Code
    BY NamesOfLibraries DEF Code
  <1>3. drivers' \in [Names -> Code \cup {None}]
    BY <1>2, RegisteredTypes DEF Keep, TypeOK
  <1>4. CASE drivers[NameOf[l]] = None
    <2>1. plugins[l] = 0
      BY <1>1, <1>4 DEF KeptLibrariesAnswer
    <2>2. /\ plugins' = [plugins EXCEPT ![l] = 1] /\ handles' = handles
          /\ drivers' = [drivers EXCEPT ![NameOf[l]] = l]
      BY <1>4, <2>1 DEF Keep, TypeOK, Registered
    <2>3. TypeOK'
      BY <1>3, <2>2 DEF Keep, TypeOK
    <2>4. \A k \in Libraries : handles'[k] = plugins'[k] + (IF loading' = k THEN 1 ELSE 0)
      BY <1>1, <2>1, <2>2, OpenOnlyIfKept, NoLibraries DEF Keep, TypeOK
    <2>5. \A k \in Libraries : plugins'[k] <= 1
      BY <2>2 DEF KeptLibrariesAnswer, TypeOK
    <2>6. \A k \in Libraries : plugins'[k] = 1 => drivers'[NameOf[k]] = k
      <3> SUFFICES ASSUME NEW k \in Libraries, plugins'[k] = 1
                   PROVE  drivers'[NameOf[k]] = k
        OBVIOUS
      <3>1. CASE k = l
        BY <1>2, <2>2, <3>1 DEF TypeOK
      <3>2. CASE k # l
        <4>1. drivers[NameOf[k]] = k /\ k # None /\ NameOf[k] \in Names
          BY <1>1, <2>2, <3>2, NamesOfLibraries, NoLibraries DEF KeptLibrariesAnswer, TypeOK
        <4> QED BY <1>4, <2>2, <4>1 DEF TypeOK
      <3> QED BY <3>1, <3>2
    <2>7. \A n \in Names : drivers'[n] \in Libraries \ Registering => plugins'[drivers'[n]] = 1
      BY <1>1, <2>2 DEF KeptLibrariesAnswer, TypeOK
    <2>8. ObjectsAreKept'
      <3> SUFFICES ASSUME NEW o \in Objects, object[o] # Nothing, object[o].code # Main
                   PROVE  plugins'[object[o].code] = 1
        BY DEF Keep, ObjectsAreKept
      <3>1. object[o].code \in Libraries /\ plugins[object[o].code] = 1
        BY <1>1, ObjectTypes DEF ObjectsAreKept, Code
      <3> QED BY <2>2, <3>1 DEF TypeOK
    <2> QED BY <1>1, <2>3, <2>4, <2>5, <2>6, <2>7, <2>8
            DEF Keep, KeptLibrariesAnswer, LoadsInMain, OnlyEarlyAreLate, CodeIsMapped
  <1>5. CASE drivers[NameOf[l]] # None
    <2>1. plugins' = plugins /\ handles' = [handles EXCEPT ![l] = plugins[l]] /\ drivers' = drivers
      BY <1>1, <1>5 DEF Keep, Closed, Registered, TypeOK
    <2>2. TypeOK'
      BY <1>1, <2>1 DEF Keep, TypeOK
    <2>3. \A k \in Libraries : handles'[k] = plugins'[k] + (IF loading' = k THEN 1 ELSE 0)
      BY <1>1, <2>1, OpenOnlyIfKept, NoLibraries DEF Keep, TypeOK
    <2>4. KeptLibrariesAnswer'
      BY <2>1, <2>3 DEF Keep, KeptLibrariesAnswer
    <2> QED BY <1>1, <2>1, <2>2, <2>4 DEF Keep, LoadsInMain, ObjectsAreKept, OnlyEarlyAreLate, CodeIsMapped
  <1> QED BY <1>4, <1>5

\* A crash leaves everything but the phase and the blame; it is an invariant's
\* business only whom it blames.
LEMMA CrashPreserves ==
  ASSUME RegistryInv, NEW code \in Code, NEW by \in Objects \cup Names, Crash(code, by), loading = None,
         \/ by \in Early /\ \A n \in Names : drivers[n] = None
         \/ by \in Names /\ (code \in Registering \/ code = Main)
  PROVE  RegistryInv'
  <1> USE DEF RegistryInv
  <1>1. TypeOK'
    BY DEF Crash, TypeOK
  <1>2. KeptLibrariesAnswer' /\ LoadsInMain' /\ ObjectsAreKept' /\ OnlyEarlyAreLate'
    BY DEF Crash, KeptLibrariesAnswer, LoadsInMain, ObjectsAreKept, OnlyEarlyAreLate
  <1>3. CodeIsMapped'
    BY DEF Crash, CodeIsMapped
  <1> QED BY <1>1, <1>2, <1>3

\* An object is made, changed or destroyed, and nothing else; what it becomes
\* is code that is kept.
LEMMA ObjectStepPreserves ==
  ASSUME RegistryInv, NEW o \in Objects, NEW next, phase # "crashed",
         object' = [object EXCEPT ![o] = next],
         UNCHANGED <<phase, drivers, handles, plugins, loading, fault>>,
         next = Nothing \/ next \in [code : Code, state : {"opening", "open"}],
         next = Nothing \/ (phase = "main" /\ (next.code = Main \/ plugins[next.code] = 1))
  PROVE  RegistryInv'
  <1> USE DEF RegistryInv
  <1>1. TypeOK'
    BY DEF TypeOK
  <1>2. KeptLibrariesAnswer' /\ LoadsInMain' /\ CodeIsMapped'
    BY DEF KeptLibrariesAnswer, LoadsInMain, CodeIsMapped
  <1>3. \A p \in Objects : object'[p] = IF p = o THEN next ELSE object[p]
    BY DEF TypeOK
  <1>4. ObjectsAreKept' /\ OnlyEarlyAreLate'
    BY <1>3 DEF ObjectsAreKept, OnlyEarlyAreLate
  <1> QED BY <1>1, <1>2, <1>4

LEMMA CreatePreserves ==
  ASSUME RegistryInv, NEW o \in Objects, NEW n \in Names, Create(o, n)
  PROVE  RegistryInv'
  <1>1. /\ TypeOK /\ KeptLibrariesAnswer
        /\ phase = "main" /\ loading = None /\ object[o] = Nothing
        /\ drivers[n] \in Code /\ drivers[n] # None
    BY DEF RegistryInv, Create, Running, TypeOK
  <1>2. CASE Mapped(drivers[n]) /\ object' = [object EXCEPT ![o] = [code |-> drivers[n], state |-> "opening"]]
             /\ UNCHANGED <<phase, drivers, handles, plugins, loading, fault>>
    <2>1. drivers[n] = Main \/ plugins[drivers[n]] = 1
      <3>1. CASE drivers[n] \in Libraries
        <4>1. handles[drivers[n]] > 0 /\ loading # drivers[n]
          BY <1>1, <1>2, <3>1, NoLibraries DEF Mapped, Loaded
        <4>2. handles[drivers[n]] = plugins[drivers[n]] /\ plugins[drivers[n]] \in {0, 1}
          BY <1>1, <3>1, <4>1, OpenOnlyIfKept
        <4> QED BY <4>1, <4>2
      <3> QED BY <1>1, <3>1 DEF Code
    <2> DEFINE made == [code |-> drivers[n], state |-> "opening"]
    <2>2. made \in [code : Code, state : {"opening", "open"}] /\ made.code = drivers[n]
      BY <1>1
    <2>3. object' = [object EXCEPT ![o] = made]
      BY <1>2
    <2> HIDE DEF made
    <2> QED BY <1>1, <1>2, <2>1, <2>2, <2>3, ObjectStepPreserves
  <1>3. CASE Crash(Main, n)
    BY <1>1, <1>3, CrashPreserves DEF Code
  <1>4. CASE ~Mapped(drivers[n]) /\ Crash(drivers[n], n)
    <2>1. drivers[n] \in Libraries /\ ~(handles[drivers[n]] > 0)
      BY <1>1, <1>4 DEF Mapped, Loaded, Code
    <2>2. plugins[drivers[n]] # 1
      BY <1>1, <2>1, OpenOnlyIfKept
    <2>3. drivers[n] \in Registering
      BY <1>1, <2>1, <2>2 DEF KeptLibrariesAnswer
    <2> QED BY <1>1, <1>4, <2>3, CrashPreserves
  <1> QED BY <1>2, <1>3, <1>4 DEF Create

\* A call into an object's code that leaves the object as it is, open or gone.
LEMMA CallPreserves ==
  ASSUME RegistryInv, NEW o \in Objects, NEW next, Call(o, next),
         phase \in {"main", "exit", "late"}, loading = None, object[o] # Nothing,
         phase = "main" \/ next = Nothing, phase = "late" => \A n \in Names : drivers[n] = None,
         next \in {Nothing, [object[o] EXCEPT !.state = "open"]}
  PROVE  RegistryInv'
  <1> TypeOK
    BY DEF RegistryInv
  <1>1. CASE Mapped(object[o].code)
    <2>1. next = Nothing \/ next \in [code : Code, state : {"opening", "open"}]
      BY ObjectTypes
    <2>2. next = Nothing \/ next.code = object[o].code
      BY ObjectTypes
    <2>3. next = Nothing \/ (phase = "main" /\ (next.code = Main \/ plugins[next.code] = 1))
      BY <2>2 DEF RegistryInv, ObjectsAreKept
    <2> QED BY <1>1, <2>1, <2>3, ObjectStepPreserves DEF Call
  <1>2. CASE ~Mapped(object[o].code)
    <2>1. phase = "late"
      BY <1>2, ObjectsAreMapped
    <2>2. o \in Early /\ \A n \in Names : drivers[n] = None
      BY <2>1 DEF RegistryInv, OnlyEarlyAreLate
    <2>3. object[o].code \in Code
      BY ObjectTypes
    <2> QED BY <1>2, <2>2, <2>3, CrashPreserves DEF Call
  <1> QED BY <1>1, <1>2

LEMMA DerivePreserves ==
  ASSUME RegistryInv, NEW o \in Objects, NEW p \in Objects, Derive(o, p)
  PROVE  RegistryInv'
  <1>1. /\ TypeOK /\ phase = "main" /\ object[o].state = "open"
    BY DEF RegistryInv, Derive, Running
  <1>2. object[o] # Nothing
    BY <1>1 DEF Nothing
  <1>3. object[o].code = Main \/ plugins[object[o].code] = 1
    BY <1>1, <1>2 DEF RegistryInv, ObjectsAreKept
  <1>4. object[o] \in [code : Code, state : {"opening", "open"}]
    BY <1>1, <1>2 DEF TypeOK
  <1>5. Mapped(object[o].code)
    BY <1>1, <1>2, ObjectsAreMapped
  <1> QED BY <1>1, <1>3, <1>4, <1>5, ObjectStepPreserves DEF Derive

LEMMA EndMainPreserves ==
  ASSUME RegistryInv, EndMain
  PROVE  RegistryInv'
  <1> USE DEF RegistryInv
  <1>1. TypeOK'
    BY DEF EndMain, TypeOK
  <1>2. KeptLibrariesAnswer'
    BY DEF EndMain, Running, KeptLibrariesAnswer
  <1>3. LoadsInMain' /\ ObjectsAreKept' /\ OnlyEarlyAreLate' /\ CodeIsMapped'
    BY DEF EndMain, Running, LoadsInMain, ObjectsAreKept, OnlyEarlyAreLate, CodeIsMapped
  <1> QED BY <1>1, <1>2, <1>3

\* The manager closes exactly the handles that are open.
LEMMA CloseAllPreserves ==
  ASSUME RegistryInv, CloseAll
  PROVE  RegistryInv'
  <1> USE DEF RegistryInv
  <1>1. loading = None
    BY DEF CloseAll, LoadsInMain
  <1>2. \A l \in Libraries : handles[l] = plugins[l] /\ plugins[l] \in Nat
    BY <1>1, OpenOnlyIfKept, NoLibraries
  <1>3. handles' = [l \in Libraries |-> 0] /\ plugins' = [l \in Libraries |-> 0]
    BY <1>2 DEF CloseAll
  <1>4. TypeOK'
    BY <1>3 DEF CloseAll, TypeOK
  <1>5. KeptLibrariesAnswer'
    BY <1>1, <1>3, NoLibraries DEF CloseAll, KeptLibrariesAnswer
  <1>6. LoadsInMain' /\ ObjectsAreKept' /\ OnlyEarlyAreLate' /\ CodeIsMapped'
    BY <1>1 DEF CloseAll, LoadsInMain, ObjectsAreKept, OnlyEarlyAreLate, CodeIsMapped
  <1> QED BY <1>4, <1>5, <1>6

\* A factory that is not there any more is one that registered itself.
LEMMA DestroyFactoryPreserves ==
  ASSUME RegistryInv, NEW n \in Names, DestroyFactory(n)
  PROVE  RegistryInv'
  <1>1. TypeOK /\ phase = "late" /\ loading = None
    BY DEF RegistryInv, DestroyFactory, LoadsInMain
  <1>2. CASE drivers' = [drivers EXCEPT ![n] = None] /\ UNCHANGED <<phase, handles, plugins, loading, object, fault>>
    <2> USE DEF RegistryInv
    <2>1. TypeOK'
      BY <1>2 DEF TypeOK
    <2>2. KeptLibrariesAnswer'
      BY <1>1, <1>2 DEF KeptLibrariesAnswer
    <2>3. LoadsInMain' /\ ObjectsAreKept' /\ OnlyEarlyAreLate' /\ CodeIsMapped'
      BY <1>1, <1>2 DEF LoadsInMain, ObjectsAreKept, OnlyEarlyAreLate, CodeIsMapped
    <2> QED BY <2>1, <2>2, <2>3
  <1>3. CASE ~Mapped(FactoryCode(n)) /\ Crash(FactoryCode(n), n)
    <2>1. FactoryCode(n) # Main
      BY <1>3 DEF Mapped
    <2>2. FactoryCode(n) \in Registering /\ FactoryCode(n) \in Code
      BY <2>1, KnownLibraries DEF FactoryCode, Code
    <2> QED BY <1>1, <1>3, <2>2, CrashPreserves
  <1> QED BY <1>2, <1>3 DEF DestroyFactory

-----------------------------------------------------------------------------
(* The theorems.                                                           *)

\* Every step keeps the invariant, one case for each action.
LEMMA StepPreserves ==
  ASSUME RegistryInv, [Next]_vars
  PROVE  RegistryInv'
  <1>1. ASSUME NEW l \in Libraries, Open(l) \/ Refuse(l) \/ Keep(l) PROVE RegistryInv'
    BY <1>1, OpenPreserves, RefusePreserves, KeepPreserves
  <1>2. ASSUME NEW o \in Objects, NEW n \in Names, Create(o, n) PROVE RegistryInv'
    BY <1>2, CreatePreserves
  <1>3. ASSUME NEW o \in Objects, Connected(o) PROVE RegistryInv'
    <2>1. phase = "main" /\ loading = None /\ object[o] # Nothing
      BY <1>3 DEF Connected, Running, Nothing
    <2>2. PICK next \in {[object[o] EXCEPT !.state = "open"], Nothing} : Call(o, next)
      BY <1>3 DEF Connected
    <2> QED BY <2>1, <2>2, CallPreserves
  <1>4. ASSUME NEW o \in Objects, Destroy(o) PROVE RegistryInv'
    <2>1. phase \in {"main", "exit", "late"} /\ loading = None /\ object[o] # Nothing
      BY <1>4 DEF Destroy, Idle, Nothing
    <2>2. /\ Call(o, Nothing)
          /\ phase = "late" => \A n \in Names : drivers[n] = None
      BY <1>4 DEF Destroy
    <2> QED BY <2>1, <2>2, CallPreserves
  <1>5. ASSUME NEW o \in Objects, NEW p \in Objects, Derive(o, p) PROVE RegistryInv'
    BY <1>5, DerivePreserves
  <1>6. CASE UNCHANGED vars
    BY <1>6 DEF vars, RegistryInv, TypeOK, KeptLibrariesAnswer, LoadsInMain, ObjectsAreKept,
                OnlyEarlyAreLate, CodeIsMapped
  <1> QED BY <1>1, <1>2, <1>3, <1>4, <1>5, <1>6, EndMainPreserves, CloseAllPreserves,
            DestroyFactoryPreserves DEF Next

\* The registry is well typed: no count goes below zero on any error path of
\* loadPlugin() (driver_registry.cpp:127-207).
THEOREM RegistryTypeCorrect == Spec => []TypeOK
  <1>1. RegistryInv => TypeOK
    BY DEF RegistryInv
  <1> QED BY <1>1, InitEstablishes, StepPreserves, PTL DEF Spec

\* Whatever is loaded, refused or shadowed, the loader counts what the manager
\* keeps, and what it keeps answers (driver_registry.cpp:151-207).
THEOREM KeptIsCounted == Spec => []KeptLibrariesAnswer
  <1>1. RegistryInv => KeptLibrariesAnswer
    BY DEF RegistryInv
  <1> QED BY <1>1, InitEstablishes, StepPreserves, PTL DEF Spec

\* Code that is called is mapped, down to the destructors of objects and of
\* factories, but for the listed cases (driver_registry.cpp:58, 97, 189).
THEOREM CalledCodeIsMapped == Spec => []CodeIsMapped
  <1>1. RegistryInv => CodeIsMapped
    BY DEF RegistryInv
  <1> QED BY <1>1, InitEstablishes, StepPreserves, PTL DEF Spec

=============================================================================
