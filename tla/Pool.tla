-------------------------------- MODULE Pool --------------------------------
(***************************************************************************)
(* What YildizFactory promises for one prefix: one instance at a time is   *)
(* alive, the next is created only once it is gone, requests are served by *)
(* an instance that is ready, and it is closed only while it serves none.  *)
(* resetTables() and closeAll() end the promise.                           *)
(***************************************************************************)
CONSTANTS Requests, Instances, None

VARIABLES
  alive,   \* the instance that is created or open, or None
  ready,   \* whether it is open
  served,  \* the requests that use it
  void     \* whether the promise is over

vars == <<alive, ready, served, void>>

Init == alive = None /\ ready = FALSE /\ served = {} /\ void = FALSE

Create(i) ==
  /\ alive = None /\ served = {}
  /\ alive' = i
  /\ UNCHANGED <<ready, served, void>>

\* The instance is open, or its creation has failed.
Settle ==
  /\ alive # None /\ ~ready
  /\ \/ ready' = TRUE /\ UNCHANGED alive
     \/ alive' = None /\ UNCHANGED ready
  /\ UNCHANGED <<served, void>>

Serve(q) ==
  /\ ready /\ q \notin served
  /\ served' = served \cup {q}
  /\ UNCHANGED <<alive, ready, void>>

Release(q) ==
  /\ served' = served \ {q}
  /\ UNCHANGED <<alive, ready, void>>

Close ==
  /\ ready /\ served = {}
  /\ alive' = None /\ ready' = FALSE
  /\ UNCHANGED <<served, void>>

\* Once the promise is over, anything may happen.
Void ==
  /\ void' = TRUE
  /\ alive' \in Instances \cup {None} /\ ready' \in BOOLEAN /\ served' \in SUBSET Requests

Next ==
  \/ \E i \in Instances : Create(i)
  \/ \E q \in Requests : Serve(q) \/ Release(q)
  \/ Settle \/ Close \/ Void

Spec == Init /\ [][Next]_vars
=============================================================================
