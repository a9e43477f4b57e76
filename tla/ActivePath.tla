----------------------------- MODULE ActivePath -----------------------------
(***************************************************************************)
(* What a connection with redundant paths promises to the rest of the      *)
(* plugin.  Of the paths that are ready at most one is active: the first   *)
(* one becomes active, the others stand by without ever taking its place,  *)
(* and when it is lost one of them takes over in the same step.  The north *)
(* is told that the connection is down exactly when none can.  A           *)
(* connection that is closed lets its paths go without any take-over.      *)
(***************************************************************************)
CONSTANTS Paths, NoPath   \* NoPath is not one of Paths

VARIABLES
  ready,    \* paths on which both directions are connected
  active,   \* the path that serves the north, or NoPath
  status,   \* what the north was told last
  open      \* the connection has not been asked to stop

vars == <<ready, active, status, open>>

Init ==
  /\ ready = {} /\ active = NoPath
  /\ status = "NOT_CONNECTED"
  /\ open = TRUE

PathReady(p) ==
  /\ p \notin ready
  /\ ready' = ready \cup {p}
  /\ IF active = NoPath
       THEN active' = p /\ status' = "STARTED"
       ELSE UNCHANGED <<active, status>>
  /\ UNCHANGED open

StandbyLost(p) ==
  /\ p \in ready \ {active}
  /\ ready' = ready \ {p}
  /\ UNCHANGED <<active, status, open>>

TakeOver(p, q) ==
  /\ open
  /\ active = p /\ p \in ready /\ q \in ready \ {p}
  /\ ready' = ready \ {p}
  /\ active' = q
  /\ status' = "STARTED"
  /\ UNCHANGED open

ConnectionLost(p) ==
  /\ active = p /\ p \in ready
  /\ open => ready = {p}
  /\ ready' = ready \ {p}
  /\ active' = NoPath
  /\ status' = "NOT_CONNECTED"
  /\ UNCHANGED open

Close == open' = FALSE /\ UNCHANGED <<ready, active, status>>

\* A new connection; the status of the last one is still what the north knows.
Reopen ==
  /\ ~open
  /\ ready' = {} /\ active' = NoPath /\ open' = TRUE
  /\ UNCHANGED status

Next ==
  \/ \E p \in Paths : PathReady(p) \/ StandbyLost(p) \/ ConnectionLost(p) \/ (\E q \in Paths : TakeOver(p, q))
  \/ Close \/ Reopen

Spec == Init /\ [][Next]_vars
=============================================================================
