------------------------------ MODULE Metering ------------------------------
(***************************************************************************)
(* Billing on a node: the cumulative per-user counters of the running      *)
(* sing-box instance, the baseline the node measures reports against       *)
(* (type counters), the stats branch of the report goroutine, and the two  *)
(* things that cut across it: a configuration being applied and the        *)
(* process being restarted.                                                *)
(*                                                                         *)
(* Stats runs without the engine lock once it has picked up the context of *)
(* the running instance, so an ApplyConfig in the read loop can land       *)
(* between any two of its steps.  ApplyConfig itself holds the engine lock *)
(* throughout and touches the counters in one place, so here it is one     *)
(* step (its inner steps are module ConfigSwap).                           *)
(*                                                                         *)
(* A Usage is one number: both directions go through the same code.  A     *)
(* name absent from a reading is a name at zero, which delta cannot tell   *)
(* apart.                                                                  *)
(***************************************************************************)
EXTENDS Integers

CONSTANTS
  Users,        \* names on the statistics allowlist
  Instances,    \* sing-box instances that may ever be started
  NoInstance,   \* e.ctx when nothing is running
  NoReading,    \* a nil counters.pending
  MaxTraffic,   \* bound: units a user relays through one instance
  MaxDoubts     \* bound: frames received although their write failed

ASSUME MeteringAssumption ==
  /\ NoInstance \notin Instances
  /\ NoReading \notin [Users -> Nat]
  /\ MaxTraffic \in Nat /\ MaxDoubts \in Nat

VARIABLES
  box,       \* the instance e.ctx leads to, or NoInstance
  used,      \* instances started so far
  total,     \* total[i][u]: the statistics service of instance i
  reported,  \* counters.reported
  pending,   \* counters.pending
  pc,        \* where the report goroutine is in its stats branch
  ctx,       \* its copy of e.ctx
  reading,   \* its reading of the totals
  out,       \* the delta it is about to send
  (* The outside, and history that only properties read. *)
  relayed,   \* relayed[i][u]: what u really moved through instance i
  written,   \* written[i][u]: reported from i in frames whose write succeeded
  billed,    \* billed[i][u]: reported from i in frames the panel received
  doubts,    \* frames received although their write failed
  base,      \* the instance the counters were last reset for
  crossed    \* a reading of one instance was measured against the reset
             \* baseline of another

node == <<box, used, reported, pending, base>>
reporter == <<pc, ctx, reading, out, crossed>>
ledger == <<written, billed, doubts>>
traffic == <<total, relayed>>
vars == <<node, reporter, ledger, traffic>>

Readings == [Users -> Nat]
Zero == [u \in Users |-> 0]
NoTraffic == [i \in Instances |-> Zero]

TypeOK ==
  /\ box \in Instances \cup {NoInstance}
  /\ used \in SUBSET Instances
  /\ total \in [Instances -> Readings]
  /\ reported \in Readings
  /\ pending \in Readings \cup {NoReading}
  /\ pc \in {"wait", "read", "delta", "send", "ack"}
  /\ ctx \in IF pc = "wait" THEN {NoInstance} ELSE Instances
  /\ reading \in Readings
  /\ out \in Readings
  /\ relayed \in [Instances -> Readings]
  /\ written \in [Instances -> Readings]
  /\ billed \in [Instances -> Readings]
  /\ doubts \in 0..MaxDoubts
  /\ base \in Instances \cup {NoInstance}
  /\ crossed \in BOOLEAN

Init ==
  /\ box = NoInstance /\ used = {} /\ total = NoTraffic
  /\ reported = Zero /\ pending = NoReading
  /\ pc = "wait" /\ ctx = NoInstance /\ reading = Zero /\ out = Zero
  /\ relayed = NoTraffic /\ written = NoTraffic /\ billed = NoTraffic
  /\ doubts = 0 /\ base = NoInstance /\ crossed = FALSE

-----------------------------------------------------------------------------
(* Traffic, and the statistics service of the running instance. *)

Relay(u) ==
  /\ box # NoInstance
  /\ relayed[box][u] < MaxTraffic
  /\ total' = [total EXCEPT ![box][u] = @ + 1]
  /\ relayed' = [relayed EXCEPT ![box][u] = @ + 1]
  /\ UNCHANGED <<node, reporter, ledger>>

(* A user removed from the allowlist and put back: the counter starts over. *)
DropCounter(u) ==
  /\ box # NoInstance
  /\ total[box][u] > 0
  /\ total' = [total EXCEPT ![box][u] = 0]
  /\ UNCHANGED <<relayed, node, reporter, ledger>>

-----------------------------------------------------------------------------
(* ApplyConfig as the counters see it. *)

HalfReset ==
  /\ reported' = Zero
  /\ UNCHANGED pending

Reset ==
  /\ reported' = Zero
  /\ pending' = NoReading

(* An instance is started: the one asked for, or the previous configuration
   again after a failed start. *)
ApplyFresh(i) ==
  /\ i \notin used
  /\ box' = i
  /\ used' = used \cup {i}
  /\ Reset
  /\ base' = i
  /\ UNCHANGED <<reporter, ledger, traffic>>

(* The old instance was stopped and neither the new configuration nor the
   previous one would start; also Close.  The counters are left alone. *)
ApplyLost ==
  /\ box # NoInstance
  /\ box' = NoInstance
  /\ UNCHANGED <<used, reported, pending, base, reporter, ledger, traffic>>

(* The process dies and systemd starts it again: nothing is persisted. *)
Restart ==
  /\ box' = NoInstance /\ base' = NoInstance
  /\ reported' = Zero /\ pending' = NoReading
  /\ pc' = "wait" /\ ctx' = NoInstance /\ reading' = Zero /\ out' = Zero
  /\ UNCHANGED <<used, crossed, ledger, traffic>>

-----------------------------------------------------------------------------
(* The stats branch of the report goroutine. *)

(* The running instance's context is picked up under the engine lock.  With
   nothing running Stats returns nothing and the branch does nothing. *)
StatsTick ==
  /\ pc = "wait"
  /\ box # NoInstance
  /\ pc' = "read"
  /\ ctx' = box
  /\ UNCHANGED <<reading, out, crossed, node, ledger, traffic>>

ReadTotals ==
  /\ pc = "read"
  /\ pc' = "delta"
  /\ reading' = total[ctx]
  /\ UNCHANGED <<ctx, out, crossed, node, ledger, traffic>>

ReadFails ==
  /\ pc = "read"
  /\ pc' = "wait"
  /\ ctx' = NoInstance
  /\ UNCHANGED <<reading, out, crossed, node, ledger, traffic>>

NegativeSince(before, cur) == cur - before

TotalSince(before, cur) == cur

(* Usage since a baseline; a counter that went backwards was reset. *)
Since(before, cur) == IF cur < before THEN cur ELSE cur - before

EagerDelta ==
  /\ pc = "delta"
  /\ pc' = "send"
  /\ out' = [u \in Users |-> Since(reported[u], reading[u])]
  /\ pending' = reading
  /\ reported' = reading
  /\ crossed' = (crossed \/ ctx # base)
  /\ UNCHANGED <<ctx, reading, box, used, base, ledger, traffic>>

(* delta: computes the difference, remembers the reading, and leaves the
   baseline where it is. *)
Delta ==
  /\ pc = "delta"
  /\ pc' = "send"
  /\ out' = [u \in Users |-> Since(reported[u], reading[u])]
  /\ pending' = reading
  /\ crossed' = (crossed \/ ctx # base)
  /\ UNCHANGED <<ctx, reading, box, used, reported, base, ledger, traffic>>

Credit(account) ==
  [account EXCEPT ![ctx] = [u \in Users |-> @[u] + out[u]]]

(* The frame was written.  Whether the panel ever reads it is not known: the
   connection may drop with the frame still in it. *)
SendOk ==
  /\ pc = "send"
  /\ pc' = "ack"
  /\ written' = Credit(written)
  /\ billed' \in {billed, Credit(billed)}
  /\ out' = Zero
  /\ UNCHANGED <<ctx, reading, crossed, doubts, node, traffic>>

(* The write reported an error; the panel may have got the frame all the same,
   when the deadline or the end of the connection came after it had left.  The
   goroutine returns, and the next session starts another. *)
SendFails ==
  /\ pc = "send"
  /\ pc' = "wait"
  /\ ctx' = NoInstance /\ reading' = Zero /\ out' = Zero
  /\ \/ UNCHANGED <<billed, doubts>>
     \/ doubts < MaxDoubts /\ doubts' = doubts + 1 /\ billed' = Credit(billed)
  /\ UNCHANGED <<crossed, written, node, traffic>>

LostCommit == UNCHANGED <<reported, pending>>

Commit ==
  /\ reported' = IF pending = NoReading THEN reported ELSE pending
  /\ pending' = NoReading

StatsReported ==
  /\ pc = "ack"
  /\ pc' = "wait"
  /\ Commit
  /\ ctx' = NoInstance /\ reading' = Zero
  /\ UNCHANGED <<out, crossed, box, used, base, ledger, traffic>>

-----------------------------------------------------------------------------
Report ==
  \/ StatsTick \/ ReadTotals \/ ReadFails \/ Delta
  \/ SendOk \/ SendFails \/ StatsReported

Next ==
  \/ \E u \in Users : Relay(u) \/ DropCounter(u)
  \/ \E i \in Instances : ApplyFresh(i)
  \/ ApplyLost
  \/ Restart
  \/ Report

Spec == Init /\ [][Next]_vars

(* The ticker and the goroutine keep going, and a panel that keeps coming back
   accepts a report now and then.  The goroutine that reports also enforces the
   limits, so this takes EnforceIPLimits to return (link.go:385), although what
   it asks sing-box has no time limit. *)
Fairness ==
  /\ WF_vars(StatsTick) /\ SF_vars(ReadTotals) /\ WF_vars(Delta)
  /\ SF_vars(SendOk) /\ WF_vars(StatsReported)

FairSpec == Spec /\ Fairness

-----------------------------------------------------------------------------
(* Properties. *)

(* The counter of u in the running instance was never started over. *)
Unbroken(u) == total[base][u] = relayed[base][u]

(* Nobody is charged, in frames the node counts as reported, for more than
   they relayed, whatever applies, restarts, failed reports and counter
   resets come between: unless an apply landed inside a Stats call. *)
NeverOvercharged ==
  ~crossed => \A i \in Instances, u \in Users : written[i][u] <= relayed[i][u]

(* The panel charges for what was relayed once, and at most once more for each
   report that it got although its write failed, which the node carries into the
   next (link.go:362-364). *)
RepeatedOnlyInDoubt ==
  ~crossed =>
    \A i \in Instances, u \in Users :
      billed[i][u] <= (1 + doubts) * relayed[i][u]

(* The baseline of the running instance is exactly what was reported from
   it: a failed report leaves it behind so that the interval is carried, a
   successful one moves it, and neither skips nor repeats anything. *)
Settled == IF pc = "ack" /\ pending # NoReading THEN pending ELSE reported

BaselineIsWhatWasReported ==
  ~crossed /\ base # NoInstance =>
    \A u \in Users : Unbroken(u) => Settled[u] = written[base][u]

(* A report brings the account of the instance it was read from to exactly what
   was read, whichever reports before it failed, and also when that instance has
   been replaced since: nothing is skipped or repeated at its end. *)
ReportsAreExact ==
  [][pc = "send" /\ pc' = "ack" /\ ~crossed =>
       \A u \in Users :
         total[ctx][u] = relayed[ctx][u] => written'[ctx][u] = reading[u]]_vars

(* As long as the instance stays up, what was relayed is reported in the
   end, however many reports failed on the way. *)
EverythingIsReported ==
  <>[](~crossed /\ box # NoInstance =>
         \A u \in Users : Unbroken(u) => written[box][u] = relayed[box][u])

(* stats.go:41-45 says the baseline moves "once the report has actually
   reached the panel". *)
ReportedMeansReceived ==
  \A i \in Instances, u \in Users : written[i][u] <= billed[i][u]

(* link.go:65 says "Stats returns traffic since the last acknowledged
   report": nothing already reported is reported again. *)
NothingReportedTwice ==
  \A i \in Instances, u \in Users : written[i][u] <= relayed[i][u]

(* link.go:70-72 says "Traffic that is read but never reported must not be
   discarded", and link.go:362-364 that the interval of a failed report is
   carried into the next: an apply never throws away such a reading. *)
ReadTrafficIsCarried ==
  [][base' \notin {base, NoInstance} /\ pc = "wait" /\ pending # NoReading
       => \A u \in Users : Since(reported[u], pending[u]) = 0]_vars
=============================================================================
