--------------------------- MODULE TransactionLock ---------------------------
(***************************************************************************)
(* What SqlDatabase promises about its transaction lock: one handle at a   *)
(* time holds the session's transaction, the database object is closed to  *)
(* everyone else for exactly that long, and only a move passes the lock on *)
(* without releasing it.                                                   *)
(***************************************************************************)
CONSTANTS Holders, Nobody

VARIABLES
  holder,   \* the handle whose transaction is running, or Nobody
  locked    \* SqlDatabase refuses its connection to others

vars == <<holder, locked>>

Init == holder = Nobody /\ locked = FALSE

Acquire(h) == holder = Nobody /\ holder' = h /\ locked' = TRUE

PassOn(h) == holder # Nobody /\ holder' = h /\ UNCHANGED locked

Free == holder # Nobody /\ holder' = Nobody /\ locked' = FALSE

Next == Free \/ \E h \in Holders : Acquire(h) \/ PassOn(h)

Spec == Init /\ [][Next]_vars
=============================================================================
