----------------------------- MODULE RunControl -----------------------------
(***************************************************************************)
(* The control gate of one run: RunControl (run_control.py).  The host      *)
(* calls the three requests; the run calls checkpoint(), which is split at *)
(* its await.  A request that changes nothing is a stutter.                *)
(***************************************************************************)
VARIABLES
  state,        \* RunControl._state
  gate,         \* _resume_gate is set
  isCancelled,  \* _cancelled
  gateWoken     \* set() has woken the checkpoint that waits for the gate

control == <<state, gate, isCancelled, gateWoken>>

States == {"running", "pausing", "paused", "resuming", "cancelled"}

ControlType ==
  /\ state \in States
  /\ {gate, isCancelled, gateWoken} \subseteq BOOLEAN

ControlInit ==
  /\ state = "running"
  /\ gate = TRUE /\ isCancelled = FALSE /\ gateWoken = FALSE

\* Mutant of RequestPause: a pause is accepted whatever the state is.
PauseAnyway ==
  /\ state' = "pausing"
  /\ gate' = FALSE
  /\ UNCHANGED <<isCancelled, gateWoken>>

RequestPause ==
  /\ ~isCancelled
  /\ state \in {"running", "resuming"}
  /\ state' = "pausing"
  /\ gate' = FALSE
  /\ UNCHANGED <<isCancelled, gateWoken>>

RequestResume ==
  /\ ~isCancelled
  /\ state' = "resuming"
  /\ gate' = TRUE /\ gateWoken' = TRUE
  /\ UNCHANGED isCancelled

\* request_cancel().
CancelControl ==
  /\ isCancelled' = TRUE
  /\ state' = "cancelled"
  /\ gate' = TRUE /\ gateWoken' = TRUE

\* checkpoint() finds the gate closed: at its start, or after a wake-up when the
\* run was paused again in between.
Pauses ==
  /\ ~gate
  /\ state' = "paused"
  /\ gateWoken' = FALSE
  /\ UNCHANGED <<gate, isCancelled>>

\* checkpoint() returns True.
Passes ==
  /\ gate /\ ~isCancelled
  /\ state' = "running"
  /\ gateWoken' = FALSE
  /\ UNCHANGED <<gate, isCancelled>>

\* checkpoint() returns False.
Refuses == isCancelled /\ UNCHANGED control

\* The state that the host sees agrees with the gate, and a cancelled run is
\* neither paused nor running again: without it a cancelled run could sleep at a
\* closed gate.
ControlConsistent ==
  IF isCancelled THEN gate /\ state = "cancelled"
                 ELSE gate <=> state \in {"running", "resuming"}
=============================================================================
