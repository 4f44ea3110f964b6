------------------------------- MODULE Reports -------------------------------
(***************************************************************************)
(* Metering as the control channel really drives it: every session has a   *)
(* report goroutine of its own (module Reporters), a session may end and   *)
(* the next begin while a goroutine is still busy, and all of them share   *)
(* the counters of the engine.  Metering is about one goroutine; this      *)
(* module says when that is justified, and what happens when it is not.    *)
(*                                                                         *)
(* The engine's side, the ledgers and the traffic are Metering's own.      *)
(***************************************************************************)
EXTENDS Integers

CONSTANTS
  Sessions, NoSession,                                   \* of Reporters
  Users, Instances, NoInstance, NoReading, MaxTraffic,   \* of Metering
  MaxMeetings      \* bound: how often a goroutine finds another in the branch

ASSUME ReportsAssumption ==
  /\ NoSession \notin Sessions
  /\ NoInstance \notin Instances
  /\ NoReading \notin [Users -> Nat]
  /\ MaxTraffic \in Nat /\ MaxMeetings \in Nat

VARIABLES
  (* Of Reporters *)
  current, stage,
  (* Of Metering *)
  box, used, total, reported, pending, relayed, written, base, crossed,
  (* Of Metering as well, but one for each goroutine *)
  ctx,       \* ctx[s]: its copy of e.ctx
  reading,   \* reading[s]: its reading of the totals, if it has one
  out,       \* out[s]: the delta it is about to send
  (* History that only properties read. *)
  meetings   \* how often one entered the stats branch with another inside

life == <<current, stage>>
locals == <<ctx, reading, out>>
counters == <<reported, pending>>
engine == <<box, used, total, base, relayed>>
vars == <<life, locals, counters, engine, written, crossed, meetings>>

Readings == [Users -> Nat]
Zero == [u \in Users |-> 0]

Life == INSTANCE Reporters

Busy(s) == Life!Busy(s)

(* Two goroutines are in the stats branch at once. *)
Crowded == \E s, t \in Sessions : s # t /\ Busy(s) /\ Busy(t)

(* The one goroutine Metering knows: the busy one, if there is one. *)
Of(local, none) ==
  IF \E s \in Sessions : Busy(s) THEN local[CHOOSE s \in Sessions : Busy(s)]
                                 ELSE none

solePc ==
  LET at == Of(stage, "wait")
  IN  IF at # "stats" THEN at
      ELSE IF Of(reading, NoReading) = NoReading THEN "read" ELSE "delta"
soleCtx == Of(ctx, NoInstance)
soleReading == IF Of(reading, NoReading) = NoReading THEN Zero
                                                     ELSE Of(reading, NoReading)
soleOut == Of(out, Zero)

Single == INSTANCE Metering WITH
  pc <- solePc, ctx <- soleCtx, reading <- soleReading, out <- soleOut,
  billed <- written, doubts <- 0, MaxDoubts <- 0

(* Types; a goroutine keeps a copy of e.ctx while it is in the branch. *)
TypeOK ==
  /\ Life!TypeOK
  /\ ctx \in [Sessions -> Instances \cup {NoInstance}]
  /\ reading \in [Sessions -> Readings \cup {NoReading}]
  /\ out \in [Sessions -> Readings]
  /\ reported \in Readings /\ pending \in Readings \cup {NoReading}
  /\ \A s \in Sessions : ctx[s] = NoInstance <=> ~Busy(s)
  /\ meetings \in 0..MaxMeetings

Each(value) == [s \in Sessions |-> value]

Init ==
  /\ Life!Init
  /\ ctx = Each(NoInstance) /\ reading = Each(NoReading) /\ out = Each(Zero)
  /\ Single!Init
  /\ meetings = 0

-----------------------------------------------------------------------------
(* Sessions come and go. *)

LifecycleAnew ==
  /\ \/ (Life!End \/ \E s \in Sessions : Life!Returns(s)) /\ UNCHANGED counters
     \/ (\E s \in Sessions : Life!Begin(s)) /\ Single!Reset
  /\ UNCHANGED <<locals, engine, written, crossed, meetings>>

Lifecycle ==
  /\ Life!End \/ \E s \in Sessions : Life!Begin(s) \/ Life!Returns(s)
  /\ UNCHANGED <<locals, counters, engine, written, crossed, meetings>>

(* The engine, users and sing-box act as if there were one goroutine. *)
Elsewhere ==
  /\ UNCHANGED <<life, locals, meetings>>
  /\ \/ \E u \in Users : Single!Relay(u) \/ Single!DropCounter(u)
     \/ \E i \in Instances : Single!ApplyFresh(i)
     \/ Single!ApplyLost

Restart ==
  /\ Life!Restart
  /\ ctx' = Each(NoInstance) /\ reading' = Each(NoReading) /\ out' = Each(Zero)
  /\ Single!Restart
  /\ UNCHANGED meetings

-----------------------------------------------------------------------------
(* The stats branch of the goroutine of s. *)

Drops(s) ==
  /\ ctx' = [ctx EXCEPT ![s] = NoInstance]
  /\ reading' = [reading EXCEPT ![s] = NoReading]
  /\ out' = [out EXCEPT ![s] = Zero]

StatsTick(s) ==
  /\ box # NoInstance
  /\ Life!Tick(s)
  /\ ctx' = [ctx EXCEPT ![s] = box]
  /\ IF \E t \in Sessions : Busy(t)
       THEN meetings < MaxMeetings /\ meetings' = meetings + 1
       ELSE UNCHANGED meetings
  /\ UNCHANGED <<reading, out, counters, engine, written, crossed>>

ReadTotals(s) ==
  /\ stage[s] = "stats" /\ reading[s] = NoReading
  /\ reading' = [reading EXCEPT ![s] = total[ctx[s]]]
  /\ UNCHANGED <<life, ctx, out, counters, engine, written, crossed, meetings>>

ReadFailsHolding(s) ==
  /\ reading[s] = NoReading
  /\ Life!Nothing(s)
  /\ UNCHANGED <<locals, counters, engine, written, crossed, meetings>>

ReadFails(s) ==
  /\ reading[s] = NoReading
  /\ Life!Nothing(s) /\ Drops(s)
  /\ UNCHANGED <<counters, engine, written, crossed, meetings>>

MeasuredWhole(s) == reading[s]

Measured(s) ==
  [u \in Users |-> Single!Since(reported[u], reading[s][u])]

EagerDelta(s) ==
  /\ reading[s] # NoReading
  /\ Life!Ready(s)
  /\ out' = [out EXCEPT ![s] = Measured(s)]
  /\ pending' = reading[s] /\ reported' = reading[s]
  /\ crossed' = (crossed \/ ctx[s] # base)
  /\ UNCHANGED <<ctx, reading, engine, written, meetings>>

Delta(s) ==
  /\ reading[s] # NoReading
  /\ Life!Ready(s)
  /\ out' = [out EXCEPT ![s] = Measured(s)]
  /\ pending' = reading[s]
  /\ crossed' = (crossed \/ ctx[s] # base)
  /\ UNCHANGED <<ctx, reading, reported, engine, written, meetings>>

Credit(account, s) ==
  [account EXCEPT ![ctx[s]] = [u \in Users |-> @[u] + out[s][u]]]

SendOk(s) ==
  /\ Life!Written(s)
  /\ written' = Credit(written, s)
  /\ out' = [out EXCEPT ![s] = Zero]
  /\ UNCHANGED <<ctx, reading, counters, engine, crossed, meetings>>

SendFailsRegardless(s) ==
  /\ Life!NotWritten(s) /\ Drops(s)
  /\ Single!Commit
  /\ UNCHANGED <<engine, written, crossed, meetings>>

SendFails(s) ==
  /\ Life!NotWritten(s) /\ Drops(s)
  /\ UNCHANGED <<counters, engine, written, crossed, meetings>>

(* Whatever is pending by now, whoever read it. *)
StatsReported(s) ==
  /\ Life!Accepted(s) /\ Drops(s)
  /\ Single!Commit
  /\ UNCHANGED <<engine, written, crossed, meetings>>

-----------------------------------------------------------------------------
Report(s) ==
  \/ StatsTick(s) \/ ReadTotals(s) \/ ReadFails(s) \/ Delta(s)
  \/ SendOk(s) \/ SendFails(s) \/ StatsReported(s)

Next == Lifecycle \/ Elsewhere \/ Restart \/ \E s \in Sessions : Report(s)

Spec == Init /\ [][Next]_vars

-----------------------------------------------------------------------------
(* Properties. *)

(* stats.go:86-88 allows exactly one caller of Stats, and nothing but time
   keeps a goroutine left behind from being a second one.  As long as no two
   are in the stats branch at once, sessions that begin, end and leave
   goroutines behind make no difference: every step is one of Metering, and
   what holds there holds here. *)
SoloIsMetering ==
  [][~Crowded /\ ~Crowded' => Single!Next]_(Single!vars)

(* Nobody is charged for more than they relayed by all the sessions a node has
   had, goroutines left behind by them included, as long as no two of those ever
   measured, sent or committed at the same time, and no apply landed inside a
   Stats call. *)
SessionsNeverOvercharge == meetings = 0 => Single!NeverOvercharged

(* Nor does a new session's goroutine start from anything but what the earlier
   ones have reported, whichever of their reports failed or were never finished:
   the counters are the engine's, and outlive the session (stats.go:67-68). *)
SessionsKeepBaseline ==
  meetings = 0 => Single!BaselineIsWhatWasReported

(* When goroutines do meet, there is one pending reading for all of them, and
   each of their reports may repeat what another has just sent (stats.go:59-66,
   74-79).  That costs a user at most as much again as they relayed for every
   time one found another there, wherever in the branch each of them was and
   whichever of their writes fail. *)
MeetingsCost ==
  ~crossed =>
    \A i \in Instances, u \in Users :
      written[i][u] <= (1 + meetings) * relayed[i][u]
=============================================================================
