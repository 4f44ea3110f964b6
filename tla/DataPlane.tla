----------------------------- MODULE DataPlane ------------------------------
(***************************************************************************)
(* What ApplyConfig promises, without its instances, locks and steps: the  *)
(* node serves one configuration at a time; an apply either adopts the     *)
(* configuration it was given and answers ok, or answers an error and      *)
(* serves what it served before, or nothing.  It never answers ok while    *)
(* serving something else, never adopts and then refuses, never serves a   *)
(* third configuration, and interrupts service at most once.               *)
(***************************************************************************)
CONSTANTS Configs, NoConfig

VARIABLES
  served,   \* the configuration being served, or NoConfig
  last,     \* the last one that was, to fall back to
  goal,     \* the one last asked for
  phase,    \* where the apply is
  answer    \* what the last apply answered

vars == <<served, last, goal, phase, answer>>

Init ==
  /\ served = NoConfig /\ last = NoConfig /\ goal = NoConfig
  /\ phase = "idle" /\ answer = "none"

Begin(c) ==
  /\ phase = "idle"
  /\ phase' = "trying"
  /\ goal' = c
  /\ UNCHANGED <<served, last, answer>>

(* Refused without touching what is served. *)
Reject(c) ==
  /\ phase = "idle"
  /\ goal' = c
  /\ answer' = "error"
  /\ UNCHANGED <<served, last, phase>>

Interrupt ==
  /\ phase = "trying" /\ served # NoConfig
  /\ served' = NoConfig
  /\ UNCHANGED <<last, goal, phase, answer>>

Adopt ==
  /\ phase = "trying" /\ served = NoConfig
  /\ served' = goal /\ last' = goal
  /\ phase' = "adopted"
  /\ UNCHANGED <<goal, answer>>

(* The configuration will not start.  Only a node that is down goes back to
   the previous one: what is still served is left alone. *)
Retreat ==
  /\ phase = "trying" /\ served = NoConfig /\ last # NoConfig
  /\ phase' = "retreating"
  /\ UNCHANGED <<served, last, goal, answer>>

Restore ==
  /\ phase = "retreating"
  /\ served' = last
  /\ phase' = "restored"
  /\ UNCHANGED <<last, goal, answer>>

Succeed ==
  /\ phase = "adopted"
  /\ phase' = "idle" /\ answer' = "ok"
  /\ UNCHANGED <<served, last, goal>>

Fail ==
  /\ phase \in {"trying", "retreating", "restored"}
  /\ phase' = "idle" /\ answer' = "error"
  /\ UNCHANGED <<served, last, goal>>

(* The process ends, and starts again knowing nothing. *)
Restart ==
  /\ served' = NoConfig /\ last' = NoConfig /\ goal' = NoConfig
  /\ phase' = "idle" /\ answer' = "none"

Next ==
  \/ \E c \in Configs : Begin(c) \/ Reject(c)
  \/ Interrupt \/ Adopt \/ Retreat \/ Restore \/ Succeed \/ Fail
  \/ Restart

Spec == Init /\ [][Next]_vars
=============================================================================
