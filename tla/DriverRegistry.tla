--------------------------- MODULE DriverRegistry ---------------------------
(***************************************************************************)
(* The driver registry and its plugin libraries, from the first load to    *)
(* the destructors that run after main() (src/sql/driver_registry.cpp,     *)
(* include/ilias/sql/sql_plugin.hpp, SqlDatabase::open() in                *)
(* src/sql/sqldatabase.cpp).                                               *)
(*                                                                         *)
(* A connection, a statement or a result set made by a plugin is code of   *)
(* its library, down to its destructor; the library is mapped as long as   *)
(* the dynamic loader counts a handle on it.  The manager is a static      *)
(* object: it is destroyed in the reverse order of construction, before    *)
(* the objects that were constructed before its first use, and its         *)
(* factories after it has closed its libraries.                            *)
(*                                                                         *)
(* loadPlugin() never suspends, so nothing else happens between its steps. *)
(***************************************************************************)
EXTENDS Naturals

CONSTANTS
  Libraries,   \* files that the loader can open
  Exporting,   \* those with the four functions of the plugin interface
  Current,     \* those that answer the API version of this build
  Named,       \* those whose get_plugin_name() answers a name and does not throw
  Registering, \* those built without BUILD_AS_DYNAMIC_PLUGIN: a static
               \* initializer registers their driver, and they export nothing
  Names,       \* names of drivers
  NameOf,      \* the name a library registers, or would register
  BuiltIn,     \* the drivers linked into the program
  Objects,     \* variables that hold a database, a statement or a result set
  Early,       \* those constructed before the manager
  Main,        \* the code of the program itself
  None         \* no driver, no object, no library

ASSUME KnownLibraries == Exporting \cup Current \cup Named \cup Registering \subseteq Libraries
ASSUME OneMacro == Registering \cap Exporting = {}
ASSUME NamesOfLibraries == NameOf \in [Libraries -> Names]
ASSUME BuiltInNames == BuiltIn \subseteq Names
ASSUME EarlyObjects == Early \subseteq Objects
ASSUME NoLibraries == Main \notin Libraries /\ None \notin Libraries \cup {Main}

VARIABLES
  phase,    \* "main", "exit" (statics are destroyed), "late" (the manager has
            \* closed its libraries), or "crashed"
  drivers,  \* drivers_: per name, whose code the factory is
  handles,  \* the loader: how often each library is open
  plugins,  \* plugins_: the handles the manager keeps, per library
  loading,  \* the library that loadPlugin() has opened and not yet kept or closed
  object,   \* whose code each object is, "opening" until connect() has returned
  fault     \* the call that crashed: whose code, and the object or the driver

vars == <<phase, drivers, handles, plugins, loading, object, fault>>

Code     == Libraries \cup {Main}
Nothing  == [code |-> None, state |-> "none"]
NoFault  == [code |-> None, by |-> None]
Loaded   == {l \in Libraries : handles[l] > 0}
Idle     == phase \in {"main", "exit", "late"} /\ loading = None
Running  == phase = "main" /\ loading = None

TypeOK ==
  /\ phase \in {"main", "exit", "late", "crashed"}
  /\ drivers \in [Names -> Code \cup {None}]
  /\ handles \in [Libraries -> Nat]
  /\ plugins \in [Libraries -> Nat]
  /\ loading \in Libraries \cup {None}
  /\ object \in [Objects -> {Nothing} \cup [code : Code, state : {"opening", "open"}]]
  /\ fault \in {NoFault} \cup [code : Code, by : Objects \cup Names]

\* DriverManager(): the built-in drivers are there at the first use.
Init ==
  /\ phase = "main" /\ loading = None /\ fault = NoFault
  /\ drivers = [n \in Names |-> IF n \in BuiltIn THEN Main ELSE None]
  /\ handles = [l \in Libraries |-> 0]
  /\ plugins = [l \in Libraries |-> 0]
  /\ object = [o \in Objects |-> Nothing]

-----------------------------------------------------------------------------
(* loadPlugin().                                                           *)

\* registerDriver(): the first of a name stays.
Registered(d, name, code) == IF d[name] = None THEN [d EXCEPT ![name] = code] ELSE d

\* Fault: the branch and the handler of the exception both close the handle.
ClosedTwice(l) == handles' = [handles EXCEPT ![l] = @ - 2]

Closed(l) == handles' = [handles EXCEPT ![l] = @ - 1]

\* dlopen(); the initializers of a library run when it was not mapped before.
Open(l) ==
  /\ Running
  /\ handles' = [handles EXCEPT ![l] = @ + 1]
  /\ loading' = l
  /\ drivers' = IF l \in Registering \ Loaded THEN Registered(drivers, NameOf[l], l) ELSE drivers
  /\ UNCHANGED <<phase, plugins, object, fault>>

Acceptable == Exporting \cap Current \cap Named

\* A symbol is missing, the version differs, the name is empty or throws.
Refuse(l) ==
  /\ phase = "main" /\ loading = l /\ l \notin Acceptable
  /\ Closed(l)
  /\ loading' = None
  /\ UNCHANGED <<phase, drivers, plugins, object, fault>>

\* Fault: a later plugin takes over the name of an earlier one.
KeepLatest(l) ==
  /\ phase = "main" /\ loading = l /\ l \in Acceptable
  /\ drivers' = [drivers EXCEPT ![NameOf[l]] = l]
  /\ plugins' = [plugins EXCEPT ![l] = @ + 1]
  /\ loading' = None
  /\ UNCHANGED <<phase, handles, object, fault>>

\* The plugin is registered and its handle kept, or its name is taken, by
\* itself when it was loaded before, and the handle closed.
Keep(l) ==
  /\ phase = "main" /\ loading = l /\ l \in Acceptable
  /\ drivers' = Registered(drivers, NameOf[l], l)
  /\ loading' = None
  /\ IF drivers[NameOf[l]] = None
     THEN plugins' = [plugins EXCEPT ![l] = @ + 1] /\ UNCHANGED handles
     ELSE Closed(l) /\ UNCHANGED plugins
  /\ UNCHANGED <<phase, object, fault>>

-----------------------------------------------------------------------------
(* Calls into a driver.  A call into a library that is not mapped is a     *)
(* crash, whatever it would have done.                                     *)

Mapped(code) == code \in Loaded \cup {Main}

Crash(code, by) ==
  /\ phase' = "crashed"
  /\ fault' = [code |-> code, by |-> by]
  /\ UNCHANGED <<drivers, handles, plugins, loading, object>>

\* The code of an object runs, and then the object is what next says.
Call(o, next) ==
  IF Mapped(object[o].code)
  THEN object' = [object EXCEPT ![o] = next] /\ UNCHANGED <<phase, drivers, handles, plugins, loading, fault>>
  ELSE Crash(object[o].code, o)

\* SqlDatabase::open(): createConnection() runs the factory, and open() the
\* connect() of what it made; no connection is no error to either of them.
Create(o, n) ==
  /\ Running
  /\ object[o] = Nothing /\ drivers[n] # None
  /\ IF Mapped(drivers[n])
     THEN \/ /\ object' = [object EXCEPT ![o] = [code |-> drivers[n], state |-> "opening"]]
             /\ UNCHANGED <<phase, drivers, handles, plugins, loading, fault>>
          \/ drivers[n] \in Libraries /\ Crash(Main, n)
     ELSE Crash(drivers[n], n)

\* connect() returns: the database is open, or its connection destroyed.
Connected(o) ==
  /\ Running /\ object[o].state = "opening"
  /\ \E next \in {[object[o] EXCEPT !.state = "open"], Nothing} : Call(o, next)

\* prepare() or query() of o: p is a statement or a result set of the driver.
Derive(o, p) ==
  /\ Running /\ object[o].state = "open" /\ object[p] = Nothing
  /\ IF Mapped(object[o].code)
     THEN object' = [object EXCEPT ![p] = object[o]] /\ UNCHANGED <<phase, drivers, handles, plugins, loading, fault>>
     ELSE Crash(object[o].code, o)

\* Destroyed by the program in main(), at the end of main() and of the
\* process in the order of the objects' construction: the early ones last,
\* when nothing of the manager is left.
Destroy(o) ==
  /\ Idle /\ object[o].state = "open"
  /\ phase = "exit" => o \notin Early
  /\ phase = "late" => \A n \in Names : drivers[n] = None
  /\ Call(o, Nothing)

\* main() returns with no open() under way.
EndMain ==
  /\ Running
  /\ \A o \in Objects : object[o].state # "opening"
  /\ phase' = "exit"
  /\ UNCHANGED <<drivers, handles, plugins, loading, object, fault>>

\* Fault: the manager goes before the other statics.
CloseAllFirst ==
  /\ phase = "exit"
  /\ phase' = "late"
  /\ handles' = [l \in Libraries |-> handles[l] - plugins[l]]
  /\ plugins' = [l \in Libraries |-> 0]
  /\ UNCHANGED <<drivers, loading, object, fault>>

\* The body of ~DriverManager().
CloseAll ==
  /\ phase = "exit"
  /\ \A o \in Objects \ Early : object[o] = Nothing
  /\ phase' = "late"
  /\ handles' = [l \in Libraries |-> handles[l] - plugins[l]]
  /\ plugins' = [l \in Libraries |-> 0]
  /\ UNCHANGED <<drivers, loading, object, fault>>

\* A driver's factory is a closure of loadPlugin(), or of the library that
\* registered itself.
FactoryCode(n) == IF drivers[n] \in Registering THEN drivers[n] ELSE Main

\* ~DriverManager() goes on with drivers_, one factory's destructor at a time.
DestroyFactory(n) ==
  /\ phase = "late" /\ drivers[n] # None
  /\ IF Mapped(FactoryCode(n))
     THEN drivers' = [drivers EXCEPT ![n] = None] /\ UNCHANGED <<phase, handles, plugins, loading, object, fault>>
     ELSE Crash(FactoryCode(n), n)

Next ==
  \/ \E l \in Libraries : Open(l) \/ Refuse(l) \/ Keep(l)
  \/ \E o \in Objects, n \in Names : Create(o, n)
  \/ \E o \in Objects : Connected(o) \/ Destroy(o)
  \/ \E o, p \in Objects : Derive(o, p)
  \/ EndMain
  \/ CloseAll
  \/ \E n \in Names : DestroyFactory(n)

Spec == Init /\ [][Next]_vars

-----------------------------------------------------------------------------
(* Properties.                                                             *)

\* The code that is called is mapped (driver_registry.cpp:58, 97, 189), but for
\* the destructor of an object that outlives the manager (driver_registry.cpp:97)
\* and for a driver that registered itself from a library which loadPlugin()
\* then refused and closed (sql_plugin.hpp:75): its factory is called, and at
\* the latest destroyed with drivers_ (driver_registry.hpp:34), behind its code;
\* and but for a plugin that made no connection, which open() takes for one
\* (driver_registry.cpp:190, sqldatabase.cpp:10).
CodeIsMapped ==
  phase = "crashed" =>
    \/ fault.by \in Early /\ \A n \in Names : drivers[n] = None
    \/ fault.by \in Names /\ (fault.code \in Registering \/ fault.code = Main)

\* What the loader counts is what the manager will close, a library that
\* answers for a driver is kept exactly once, and a library that is kept
\* answers for its name (driver_registry.cpp:151-207): whatever was loaded,
\* loaded twice, refused or shadowed by a driver of the same name before.
KeptLibrariesAnswer ==
  /\ \A l \in Libraries : handles[l] = plugins[l] + (IF loading = l THEN 1 ELSE 0)
  /\ \A l \in Libraries : plugins[l] <= 1
  /\ phase \in {"main", "exit"} =>
       /\ \A l \in Libraries : plugins[l] = 1 => drivers[NameOf[l]] = l
       /\ \A n \in Names : drivers[n] \in Libraries \ Registering => plugins[drivers[n]] = 1

=============================================================================
