------------------------------ MODULE Reporters ------------------------------
(***************************************************************************)
(* Who reports traffic, and when: the life of the goroutines the sessions  *)
(* of the control channel start, as far as it matters to billing.  One     *)
(* session is current at a time and starts one goroutine; a goroutine      *)
(* whose session is over goes on from wherever it is, and returns the next *)
(* time it waits or fails to send.                                         *)
(*                                                                         *)
(* Link implements this; Reports adds to it what the goroutines do to the  *)
(* counters.                                                               *)
(***************************************************************************)
CONSTANTS
  Sessions,    \* identities of sessions, reused once their goroutine is gone
  NoSession

VARIABLES
  current,   \* the session that is up, or NoSession
  stage      \* stage[s]: where the goroutine of s is in its stats branch

Busy(s) == stage[s] \in {"stats", "send", "ack"}

TypeOK ==
  /\ current \in Sessions \cup {NoSession}
  /\ stage \in [Sessions -> {"none", "wait", "stats", "send", "ack"}]

Init ==
  /\ current = NoSession
  /\ stage = [s \in Sessions |-> "none"]

Moves(s, from, to) ==
  /\ stage[s] = from
  /\ stage' = [stage EXCEPT ![s] = to]
  /\ UNCHANGED current

(* hello was sent. *)
Begin(s) ==
  /\ current = NoSession /\ current' = s
  /\ stage[s] = "none" /\ stage' = [stage EXCEPT ![s] = "wait"]

(* The session returns, and with it goes its context. *)
End ==
  /\ current # NoSession /\ current' = NoSession
  /\ UNCHANGED stage

(* The process dies, and is started again. *)
Restart ==
  /\ current' = NoSession
  /\ stage' = [s \in Sessions |-> "none"]

Tick(s)       == Moves(s, "wait", "stats")
Nothing(s)    == Moves(s, "stats", "wait")   \* an error, or nothing running
Ready(s)      == Moves(s, "stats", "send")
Written(s)    == Moves(s, "send", "ack")
NotWritten(s) == Moves(s, "send", "none")
Accepted(s)   == Moves(s, "ack", "wait")
Returns(s)    == Moves(s, "wait", "none")

Next ==
  \/ End \/ Restart
  \/ \E s \in Sessions :
       \/ Begin(s) \/ Tick(s) \/ Nothing(s) \/ Ready(s)
       \/ Written(s) \/ NotWritten(s) \/ Accepted(s) \/ Returns(s)

Spec == Init /\ [][Next]_<<current, stage>>
=============================================================================
