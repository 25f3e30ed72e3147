---------------------------- MODULE StopProtocol ----------------------------
(***************************************************************************)
(* What the backend promises about stopping a program with several threads:*)
(* one thread is stopped at a time, the user learns of every stop before   *)
(* the program can go on from it, and what lets the thread go on is either *)
(* a permission, which one wait uses up, or that the debugger has gone.    *)
(***************************************************************************)
CONSTANTS Threads, Nobody

VARIABLES
  stopped,     \* the thread that is stopped, or Nobody
  reported,    \* its stop has been reported
  permission,  \* somebody may go on
  detached     \* the debugger has gone

vars == <<stopped, reported, permission, detached>>

Init ==
  /\ stopped = Nobody /\ reported = FALSE
  /\ permission = FALSE /\ detached = FALSE

Stop(t) ==
  /\ stopped = Nobody
  /\ stopped' = t
  /\ UNCHANGED <<reported, permission, detached>>

Report ==
  /\ stopped # Nobody
  /\ ~reported
  /\ reported' = TRUE
  /\ UNCHANGED <<stopped, permission, detached>>

MayGoOn == permission \/ detached

GoOn ==
  /\ reported
  /\ MayGoOn
  /\ stopped' = Nobody /\ reported' = FALSE
  /\ permission' = FALSE
  /\ UNCHANGED detached

(* A thread that waits without being stopped: after a script's error.       *)
UsePermission ==
  /\ MayGoOn
  /\ permission' = FALSE
  /\ UNCHANGED <<stopped, reported, detached>>

Permit == permission' = TRUE /\ UNCHANGED <<stopped, reported, detached>>

Detach ==
  /\ detached' = TRUE
  /\ permission' \in {permission, TRUE}
  /\ UNCHANGED <<stopped, reported>>

Next ==
  \/ \E t \in Threads : Stop(t)
  \/ Report \/ GoOn \/ UsePermission \/ Permit \/ Detach

Spec == Init /\ [][Next]_vars

=============================================================================
