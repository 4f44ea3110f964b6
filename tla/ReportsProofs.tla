---------------------------- MODULE ReportsProofs ----------------------------
(***************************************************************************)
(* Proofs about Reports, for any sessions, users and instances: as long as *)
(* no two goroutines are in the stats branch at once, the node with all    *)
(* its sessions is Metering with one.                                      *)
(***************************************************************************)
EXTENDS Reports, TLAPS

(* What is proved of Metering, of the goroutine it sees here. *)
Proved == INSTANCE MeteringProofs WITH
  pc <- solePc, ctx <- soleCtx, reading <- soleReading, out <- soleOut,
  billed <- written, doubts <- 0, MaxDoubts <- 0

(* What a goroutine holds where, and what it measures from. *)
Held ==
  /\ box \in Instances \cup {NoInstance}
  /\ total \in [Instances -> Readings]
  /\ \A s \in Sessions :
       /\ ~ Busy(s) => reading[s] = NoReading
       /\ stage[s] # "send" => out[s] = Zero

IInv == TypeOK /\ Held

(* The goroutine of s, and no other, is in the stats branch. *)
Sole(s) == \A t \in Sessions : Busy(t) <=> t = s

Quiet == \A t \in Sessions : ~ Busy(t)

(* Where Metering sees a goroutine that is at a stage with a reading or not. *)
At(at, read) ==
  IF at # "stats" THEN at ELSE IF read = NoReading THEN "read" ELSE "delta"

-----------------------------------------------------------------------------
(* The goroutine Metering sees is the busy one. *)
LEMMA SoleIsSeen ==
  ASSUME NEW s \in Sessions, Sole(s)
  PROVE  /\ solePc = At(stage[s], reading[s]) /\ soleCtx = ctx[s]
         /\ soleReading = IF reading[s] = NoReading THEN Zero ELSE reading[s]
         /\ soleOut = out[s]
<1>1. (CHOOSE t \in Sessions : Busy(t)) = s /\ \E t \in Sessions : Busy(t)
  BY DEF Sole
<1>2. \A local, none : Of(local, none) = local[s]
  BY <1>1 DEF Of
<1> QED BY <1>2 DEF solePc, soleCtx, soleReading, soleOut, At

(* The same after a step. *)
LEMMA SoleIsSeenNext ==
  ASSUME NEW s \in Sessions, Sole(s)'
  PROVE  /\ solePc' = At(stage'[s], reading'[s]) /\ soleCtx' = ctx'[s]
         /\ soleReading' = IF reading'[s] = NoReading THEN Zero ELSE reading'[s]
         /\ soleOut' = out'[s]
<1>1. /\ (CHOOSE t \in Sessions : Busy(t)') = s
      /\ \E t \in Sessions : Busy(t)'
  BY DEF Sole
<1> QED BY <1>1 DEF Of, solePc, soleCtx, soleReading, soleOut, At

(* With none busy, it sees one that waits. *)
LEMMA QuietIsSeen ==
  ASSUME Quiet
  PROVE  solePc = "wait" /\ soleCtx = NoInstance /\ soleReading = Zero
         /\ soleOut = Zero
BY DEF Quiet, Of, solePc, soleCtx, soleReading, soleOut

(* The same after a step. *)
LEMMA QuietIsSeenNext ==
  ASSUME Quiet'
  PROVE  solePc' = "wait" /\ soleCtx' = NoInstance /\ soleReading' = Zero
         /\ soleOut' = Zero
BY DEF Quiet, Of, solePc, soleCtx, soleReading, soleOut

-----------------------------------------------------------------------------
(* The invariant holds when the process starts. *)
LEMMA InvInit == Init => IInv
<1> SUFFICES ASSUME Init PROVE IInv
  OBVIOUS
<1>1. Zero \in Readings
  BY DEF Zero, Readings
<1>2. Single!NoTraffic \in [Instances -> Readings]
  BY DEF Single!NoTraffic, Single!Zero, Readings
<1>3. reported = Zero
  BY DEF Init, Single!Init, Single!Zero, Zero
<1>4. /\ box = NoInstance /\ total = Single!NoTraffic /\ pending = NoReading
      /\ current = NoSession /\ stage = [s \in Sessions |-> "none"]
      /\ ctx = Each(NoInstance) /\ reading = Each(NoReading) /\ out = Each(Zero)
      /\ meetings \in 0..MaxMeetings
  BY ReportsAssumption DEF Init, Single!Init, Life!Init
<1>5. \A s \in Sessions : ~ Busy(s)
  BY <1>4 DEF Busy, Life!Busy
<1> QED BY <1>1, <1>2, <1>3, <1>4, <1>5 DEF IInv, TypeOK, Held, Life!TypeOK, Each

(* The engine's side keeps what the goroutines rely on. *)
LEMMA EngineStep ==
  ASSUME IInv, Elsewhere
  PROVE  /\ box' \in Instances \cup {NoInstance}
         /\ total' \in [Instances -> Readings]
         /\ reported' \in Readings /\ pending' \in Readings \cup {NoReading}
<1> USE DEF IInv, TypeOK, Held, Single!node, Single!traffic
<1>0. Zero \in Readings /\ Single!Zero = Zero
  BY DEF Zero, Readings, Single!Zero
<1>1. ASSUME NEW u \in Users, Single!Relay(u)
      PROVE  total' \in [Instances -> Readings] /\ UNCHANGED Single!node
  <2>1. total' = [total EXCEPT ![box][u] = @ + 1] /\ box # NoInstance
    BY <1>1 DEF Single!Relay
  <2> QED BY <1>1, <2>1 DEF Single!Relay, Readings
<1>2. ASSUME NEW u \in Users, Single!DropCounter(u)
      PROVE  total' \in [Instances -> Readings] /\ UNCHANGED Single!node
  <2>1. total' = [total EXCEPT ![box][u] = 0] /\ box # NoInstance
    BY <1>2 DEF Single!DropCounter
  <2> QED BY <1>2, <2>1 DEF Single!DropCounter, Readings
<1>3. ASSUME NEW i \in Instances, Single!ApplyFresh(i)
      PROVE  /\ box' = i /\ total' = total
             /\ reported' = Zero /\ pending' = NoReading
  BY <1>0, <1>3 DEF Single!ApplyFresh, Single!Reset
<1>4. CASE Single!ApplyLost
  BY <1>4 DEF Single!ApplyLost
<1> QED BY <1>0, <1>1, <1>2, <1>3, <1>4 DEF Elsewhere

(* A goroutine at s moves; its locals and what it shares stay of their types. *)
LEMMA ReportStep ==
  ASSUME IInv, NEW s \in Sessions, Report(s)
  PROVE  IInv'
<1> USE ReportsAssumption DEF IInv, TypeOK, Held, Life!TypeOK, Busy, Life!Busy,
                              counters, engine
<1>0. Zero \in Readings
  BY DEF Zero, Readings
<1>1. CASE StatsTick(s)
  BY <1>1 DEF StatsTick, Life!Tick, Life!Moves
<1>2. CASE ReadTotals(s)
  <2>1. total[ctx[s]] \in Readings
    BY <1>2 DEF ReadTotals
  <2> QED BY <1>2, <2>1 DEF ReadTotals, life
<1>3. CASE ReadFails(s)
  BY <1>0, <1>3 DEF ReadFails, Life!Nothing, Life!Moves, Drops
<1>4. CASE Delta(s)
  <2>1. reading[s] \in Readings
    BY <1>4 DEF Delta
  <2>2. Measured(s) \in Readings
    BY <2>1 DEF Measured, Single!Since, Readings
  <2> HIDE DEF Readings
  <2> QED BY <1>4, <2>1, <2>2 DEF Delta, Life!Ready, Life!Moves
<1>5. CASE SendOk(s)
  BY <1>0, <1>5 DEF SendOk, Life!Written, Life!Moves
<1>6. CASE SendFails(s)
  BY <1>0, <1>6 DEF SendFails, Life!NotWritten, Life!Moves, Drops
<1>7. CASE StatsReported(s)
  BY <1>0, <1>7 DEF StatsReported, Life!Accepted, Life!Moves, Drops,
                    Single!Commit
<1> QED BY <1>1, <1>2, <1>3, <1>4, <1>5, <1>6, <1>7 DEF Report

(* Every step keeps the invariant. *)
LEMMA InvStep == IInv /\ [Next]_vars => IInv'
<1> SUFFICES ASSUME IInv, [Next]_vars PROVE IInv'
  OBVIOUS
<1> USE ReportsAssumption DEF Busy, Life!Busy, counters, engine
<1>1. CASE Lifecycle
  <2>1. UNCHANGED <<locals, counters, engine, meetings>>
    BY <1>1 DEF Lifecycle
  <2>2. /\ Life!TypeOK'
        /\ \A s \in Sessions : \/ stage'[s] = stage[s]
                               \/ stage[s] \in {"none", "wait"}
                                  /\ stage'[s] \in {"none", "wait"}
    BY <1>1 DEF Lifecycle, Life!End, Life!Begin, Life!Returns, Life!Moves,
                IInv, TypeOK, Life!TypeOK
  <2> QED BY <2>1, <2>2 DEF IInv, TypeOK, Held, locals
<1>2. CASE Elsewhere
  <2>1. UNCHANGED <<life, locals, meetings>>
    BY <1>2 DEF Elsewhere
  <2> QED BY <1>2, <2>1, EngineStep
          DEF IInv, TypeOK, Life!TypeOK, Held, life, locals
<1>3. CASE Restart
  <2>1. reported' = Zero /\ pending' = NoReading /\ box' = NoInstance
        /\ UNCHANGED total
    BY <1>3 DEF Restart, Single!Restart, Single!Zero, Zero, Single!traffic
  <2>2. /\ current' = NoSession /\ stage' = [s \in Sessions |-> "none"]
        /\ ctx' = Each(NoInstance) /\ reading' = Each(NoReading)
        /\ out' = Each(Zero) /\ UNCHANGED meetings
    BY <1>3 DEF Restart, Life!Restart
  <2>3. Zero \in Readings
    BY DEF Zero, Readings
  <2> QED BY <2>1, <2>2, <2>3 DEF IInv, TypeOK, Life!TypeOK, Held, Each
<1>4. ASSUME NEW s \in Sessions, Report(s) PROVE IInv'
  BY <1>4, ReportStep
<1>5. CASE UNCHANGED vars
  BY <1>5 DEF IInv, TypeOK, Life!TypeOK, Held, vars, life, locals
<1> QED BY <1>1, <1>2, <1>3, <1>4, <1>5 DEF Next

(* The invariant holds in every reachable state. *)
THEOREM Invariance == Spec => []IInv
BY InvInit, InvStep, PTL DEF Spec

(* Every goroutine's locals, and what they share, stay of their types, however
   crowded it gets. *)
THEOREM TypeCorrect == Spec => []TypeOK
<1>1. IInv => TypeOK
  BY DEF IInv
<1> QED BY <1>1, Invariance, PTL

-----------------------------------------------------------------------------
(* Unless it is crowded, one goroutine is busy or none. *)
LEMMA SoleOrQuiet ==
  /\ ~ Crowded => Quiet \/ \E s \in Sessions : Sole(s)
  /\ ~ Crowded' => Quiet' \/ \E s \in Sessions : Sole(s)'
BY DEF Crowded, Quiet, Sole

(* A session that begins, ends or loses its goroutine at rest is not seen. *)
LEMMA LifecycleUnseen ==
  ASSUME IInv, Lifecycle, ~ Crowded
  PROVE  UNCHANGED Single!vars
<1>1. /\ UNCHANGED <<locals, counters, engine, written, crossed>>
      /\ \A s \in Sessions : \/ stage'[s] = stage[s]
                             \/ stage[s] \in {"none", "wait"}
                                /\ stage'[s] \in {"none", "wait"}
  BY DEF Lifecycle, Life!End, Life!Begin, Life!Returns, Life!Moves, IInv,
         TypeOK, Life!TypeOK
<1>2. \A s \in Sessions : Busy(s)' <=> Busy(s)
  BY <1>1 DEF Busy, Life!Busy
<1>3. UNCHANGED <<solePc, soleCtx, soleReading, soleOut>>
  <2>1. CASE Quiet
    <3>1. Quiet'
      BY <1>2, <2>1 DEF Quiet
    <3> QED BY <2>1, <3>1, QuietIsSeen, QuietIsSeenNext
  <2>2. ASSUME NEW s \in Sessions, Sole(s)
        PROVE  UNCHANGED <<solePc, soleCtx, soleReading, soleOut>>
    <3>1. Sole(s)'
      BY <1>2, <2>2 DEF Sole
    <3>2. Busy(s)
      BY <2>2 DEF Sole
    <3>3. stage'[s] = stage[s]
      BY <1>1, <3>2 DEF Busy, Life!Busy
    <3>4. UNCHANGED <<ctx, reading, out>>
      BY <1>1 DEF locals
    <3> QED BY <2>2, <3>1, <3>3, <3>4, SoleIsSeen, SoleIsSeenNext
  <2> QED BY <2>1, <2>2, SoleOrQuiet
<1> QED BY <1>1, <1>3 DEF Single!vars, Single!node, Single!reporter,
           Single!ledger, Single!traffic, counters, engine

(* What a goroutine does when it is the only busy one before and after. *)
LEMMA ReportSeen ==
  ASSUME IInv, NEW s \in Sessions, Report(s), ~ Crowded, ~ Crowded'
  PROVE  Single!Report
<1> USE DEF Busy, Life!Busy, counters, engine, Single!node, Single!reporter,
            Single!ledger, Single!traffic
<1>0. /\ Zero = Single!Zero /\ Zero \in Readings /\ NoReading \notin Readings
      /\ stage \in [Sessions -> {"none", "wait", "stats", "send", "ack"}]
      /\ ctx \in [Sessions -> Instances \cup {NoInstance}]
      /\ reading \in [Sessions -> Readings \cup {NoReading}]
      /\ out \in [Sessions -> Readings]
      /\ total \in [Instances -> Readings]
      /\ \A t \in Sessions : ctx[t] = NoInstance <=> ~ Busy(t)
      /\ \A t \in Sessions : /\ ~ Busy(t) => reading[t] = NoReading
                             /\ stage[t] # "send" => out[t] = Zero
  BY ReportsAssumption
     DEF Zero, Single!Zero, Readings, IInv, TypeOK, Held, Life!TypeOK
<1>a. \A t \in Sessions \ {s} : stage'[t] = stage[t]
  BY <1>0 DEF Report, StatsTick, ReadTotals, ReadFails, Delta, SendOk, SendFails,
     StatsReported, Life!Tick, Life!Nothing, Life!Ready, Life!Written,
     Life!NotWritten, Life!Accepted, Life!Moves, life
<1>b. \A t \in Sessions \ {s} : ~ Busy(t) /\ ~ Busy(t)'
  <2>1. Busy(s) \/ Busy(s)'
    BY <1>0 DEF Report, StatsTick, ReadTotals, ReadFails, Delta, SendOk,
       SendFails, StatsReported, Life!Tick, Life!Nothing, Life!Ready,
       Life!Written, Life!NotWritten, Life!Accepted, Life!Moves, life
  <2> QED BY <1>a, <2>1 DEF Crowded
<1>c. Busy(s) => Sole(s)
  BY <1>b DEF Sole
<1>d. Busy(s)' => Sole(s)'
  BY <1>b DEF Sole
<1>e. ~ Busy(s) => Quiet
  BY <1>b DEF Quiet
<1>f. ~ Busy(s)' => Quiet'
  BY <1>b DEF Quiet
<1> HIDE DEF Readings, Zero
<1>1. CASE StatsTick(s)
  <2>1. /\ stage[s] = "wait" /\ stage'[s] = "stats" /\ ctx'[s] = box
        /\ box # NoInstance
        /\ UNCHANGED <<reading, out, counters, engine, written, crossed>>
    BY <1>0, <1>1 DEF StatsTick, Life!Tick, Life!Moves
  <2>2. Quiet /\ Sole(s)' /\ reading'[s] = NoReading /\ out'[s] = Zero
    BY <1>0, <1>d, <1>e, <2>1
  <2>3. /\ solePc = "wait" /\ soleReading = Zero /\ soleOut = Zero
        /\ solePc' = "read" /\ soleCtx' = box /\ soleReading' = Zero
        /\ soleOut' = Zero
    BY <2>1, <2>2, QuietIsSeen, SoleIsSeenNext DEF At
  <2> QED BY <2>1, <2>3 DEF Single!StatsTick, Single!Report
<1>2. CASE ReadTotals(s)
  <2>1. /\ stage[s] = "stats" /\ stage'[s] = "stats"
        /\ reading[s] = NoReading /\ reading'[s] = total[ctx[s]]
        /\ UNCHANGED <<ctx, out, counters, engine, written, crossed>>
    BY <1>0, <1>2 DEF ReadTotals, life
  <2>2. Sole(s) /\ Sole(s)' /\ total[ctx[s]] \in Readings
    BY <1>0, <1>c, <1>d, <2>1
  <2>3. /\ solePc = "read" /\ solePc' = "delta"
        /\ soleCtx = ctx[s] /\ soleReading' = total[ctx[s]]
        /\ UNCHANGED <<soleCtx, soleOut>>
    BY <1>0, <2>1, <2>2, SoleIsSeen, SoleIsSeenNext DEF At
  <2> QED BY <2>1, <2>3 DEF Single!ReadTotals, Single!Report
<1>3. CASE ReadFails(s)
  <2>1. /\ stage[s] = "stats" /\ stage'[s] = "wait"
        /\ reading[s] = NoReading /\ out[s] = Zero
        /\ UNCHANGED <<counters, engine, written, crossed>>
    BY <1>0, <1>3 DEF ReadFails, Life!Nothing, Life!Moves
  <2>2. Sole(s) /\ Quiet'
    BY <1>c, <1>f, <2>1
  <2>3. /\ solePc = "read" /\ solePc' = "wait" /\ soleCtx' = NoInstance
        /\ UNCHANGED <<soleReading, soleOut>>
    BY <2>1, <2>2, SoleIsSeen, QuietIsSeenNext DEF At
  <2> QED BY <2>1, <2>3 DEF Single!ReadFails, Single!Report
<1>4. CASE Delta(s)
  <2>1. /\ stage[s] = "stats" /\ stage'[s] = "send" /\ reading[s] # NoReading
        /\ out'[s] = Measured(s) /\ pending' = reading[s]
        /\ crossed' = (crossed \/ ctx[s] # base)
        /\ UNCHANGED <<ctx, reading, reported, engine, written>>
    <3>1. crossed' = (crossed \/ ctx[s] # base)
      BY <1>4, Zenon DEF Delta
    <3>2. UNCHANGED <<ctx, reading, reported, engine, written>>
      BY <1>4, Zenon DEF Delta
    <3>3. /\ stage[s] = "stats" /\ stage'[s] = "send" /\ reading[s] # NoReading
          /\ pending' = reading[s] /\ out' = [out EXCEPT ![s] = Measured(s)]
      BY <1>0, <1>4 DEF Delta, Life!Ready, Life!Moves
    <3>4. out'[s] = Measured(s)
      BY <1>0, <3>3
    <3> QED BY <3>1, <3>2, <3>3, <3>4, Zenon
  <2>2. Sole(s) /\ Sole(s)'
    BY <1>c, <1>d, <2>1
  <2>3. /\ solePc = "delta" /\ solePc' = "send" /\ soleCtx = ctx[s]
        /\ soleReading = reading[s] /\ soleOut' = Measured(s)
        /\ UNCHANGED <<soleCtx, soleReading>>
    BY <2>1, <2>2, SoleIsSeen, SoleIsSeenNext DEF At
  <2>4. soleOut' = [u \in Users |-> Single!Since(reported[u], soleReading[u])]
    BY <2>3 DEF Measured
  <2>5. UNCHANGED <<box, used, reported, base, Single!ledger, Single!traffic>>
    BY <2>1
  <2>6. crossed' = (crossed \/ soleCtx # base)
    BY <2>1, <2>3, Zenon
  <2>7. pending' = soleReading
    BY <2>1, <2>3
  <2>8. Single!Delta
    BY <2>3, <2>4, <2>5, <2>6, <2>7, Zenon DEF Single!Delta
  <2> QED BY <2>8 DEF Single!Report
<1>5. CASE SendOk(s)
  <2>1. /\ stage[s] = "send" /\ stage'[s] = "ack"
        /\ written' = Credit(written, s) /\ out'[s] = Zero
        /\ UNCHANGED <<ctx, reading, counters, engine, crossed>>
    BY <1>0, <1>5 DEF SendOk, Life!Written, Life!Moves
  <2>2. Sole(s) /\ Sole(s)'
    BY <1>c, <1>d, <2>1
  <2>3. /\ solePc = "send" /\ solePc' = "ack" /\ soleOut = out[s]
        /\ soleCtx = ctx[s] /\ soleOut' = Zero
        /\ UNCHANGED <<soleCtx, soleReading>>
    BY <2>1, <2>2, SoleIsSeen, SoleIsSeenNext DEF At
  <2>4. written' = Single!Credit(written)
    BY <2>1, <2>3 DEF Credit, Single!Credit
  <2> QED BY <1>0, <2>1, <2>3, <2>4 DEF Single!SendOk, Single!Report
<1>6. CASE SendFails(s)
  <2>1. /\ stage[s] = "send" /\ stage'[s] = "none"
        /\ UNCHANGED <<counters, engine, written, crossed>>
    BY <1>0, <1>6 DEF SendFails, Life!NotWritten, Life!Moves
  <2>2. Sole(s) /\ Quiet'
    BY <1>c, <1>f, <2>1
  <2>3. /\ solePc = "send" /\ solePc' = "wait" /\ soleCtx' = NoInstance
        /\ soleReading' = Zero /\ soleOut' = Zero
    BY <2>1, <2>2, SoleIsSeen, QuietIsSeenNext DEF At
  <2> QED BY <1>0, <2>1, <2>3 DEF Single!SendFails, Single!Report
<1>7. CASE StatsReported(s)
  <2>1. /\ stage[s] = "ack" /\ stage'[s] = "wait" /\ out[s] = Zero
        /\ Single!Commit /\ UNCHANGED <<engine, written, crossed>>
    BY <1>0, <1>7 DEF StatsReported, Life!Accepted, Life!Moves
  <2>2. Sole(s) /\ Quiet'
    BY <1>c, <1>f, <2>1
  <2>3. /\ solePc = "ack" /\ solePc' = "wait" /\ soleCtx' = NoInstance
        /\ soleReading' = Zero /\ UNCHANGED soleOut
    BY <2>1, <2>2, SoleIsSeen, QuietIsSeenNext DEF At
  <2> QED BY <1>0, <2>1, <2>3 DEF Single!StatsReported, Single!Report
<1> QED BY <1>1, <1>2, <1>3, <1>4, <1>5, <1>6, <1>7 DEF Report

(* Every step taken while it is not crowded, whatever it is, is one of Metering
   or none at all to it. *)
LEMMA SoloStep ==
  ASSUME IInv, [Next]_vars, ~ Crowded, ~ Crowded'
  PROVE  Single!Next \/ UNCHANGED Single!vars
<1>1. CASE Lifecycle
  BY <1>1, LifecycleUnseen
<1>2. CASE Elsewhere
  BY <1>2 DEF Elsewhere, Single!Next
<1>3. CASE Restart
  BY <1>3 DEF Restart, Single!Next
<1>4. ASSUME NEW s \in Sessions, Report(s) PROVE Single!Next
  BY <1>4, ReportSeen DEF Single!Next
<1>5. CASE UNCHANGED vars
  <2>1. UNCHANGED <<solePc, soleCtx, soleReading, soleOut>>
    BY <1>5 DEF vars, life, locals, solePc, soleCtx, soleReading, soleOut, Of,
                Busy, Life!Busy
  <2> QED BY <1>5, <2>1 DEF vars, counters, engine, Single!vars, Single!node,
             Single!reporter, Single!ledger, Single!traffic
<1> QED BY <1>1, <1>2, <1>3, <1>4, <1>5 DEF Next

(* As long as no two goroutines are in the stats branch, every step of the node
   is one of Metering, or none at all to it. *)
THEOREM OneCaller == Spec => SoloIsMetering
<1>1. IInv /\ [Next]_vars =>
        [~ Crowded /\ ~ Crowded' => Single!Next]_(Single!vars)
  BY SoloStep
<1> QED BY <1>1, Invariance, PTL DEF Spec, SoloIsMetering

-----------------------------------------------------------------------------
(* Metering, and what is proved of it, end to end: what the goroutines of all
   sessions have reported, until two of them meet. *)

(* The two instances of Metering are about the same steps. *)
LEMMA SameMetering ==
  /\ Single!Next => Proved!Next
  /\ UNCHANGED Single!vars => UNCHANGED Proved!vars
BY DEF Single!node, Proved!node, Single!reporter, Proved!reporter,
       Single!ledger, Proved!ledger, Single!traffic, Proved!traffic,
       Single!vars, Proved!vars, Single!Zero, Proved!Zero, Single!Relay,
       Proved!Relay, Single!DropCounter, Proved!DropCounter, Single!Reset,
       Proved!Reset, Single!ApplyFresh, Proved!ApplyFresh, Single!ApplyLost,
       Proved!ApplyLost, Single!Restart, Proved!Restart, Single!StatsTick,
       Proved!StatsTick, Single!ReadTotals, Proved!ReadTotals,
       Single!ReadFails, Proved!ReadFails, Single!Since, Proved!Since,
       Single!Delta, Proved!Delta, Single!Credit, Proved!Credit,
       Single!SendOk, Proved!SendOk, Single!SendFails, Proved!SendFails,
       Single!Commit, Proved!Commit, Single!StatsReported,
       Proved!StatsReported, Single!Report, Proved!Report, Single!Next,
       Proved!Next

(* The two say the same of a state. *)
LEMMA SamePromises ==
  /\ Single!Init => Proved!Init
  /\ Proved!NeverOvercharged => Single!NeverOvercharged
  /\ Proved!BaselineIsWhatWasReported => Single!BaselineIsWhatWasReported
BY DEF Single!Init, Proved!Init, Single!Zero, Proved!Zero, Single!NoTraffic,
       Proved!NoTraffic, Single!NeverOvercharged, Proved!NeverOvercharged,
       Single!Settled, Proved!Settled, Single!Unbroken, Proved!Unbroken,
       Single!BaselineIsWhatWasReported, Proved!BaselineIsWhatWasReported

(* Nobody gets into the stats branch but by a tick, which notices who else is
   there. *)
LEMMA Noticed ==
  ASSUME IInv, [Next]_vars, meetings' = 0
  PROVE  meetings = 0 /\ (~ Crowded => ~ Crowded')
<1> USE DEF Busy, Life!Busy
<1>0. stage \in [Sessions -> {"none", "wait", "stats", "send", "ack"}]
  BY DEF IInv, TypeOK, Life!TypeOK
<1>1. ASSUME NEW s \in Sessions, StatsTick(s) PROVE meetings = 0 /\ ~ Crowded'
  <2>1. meetings \in Nat
    BY ReportsAssumption DEF IInv, TypeOK
  <2>2. meetings = 0 /\ \A t \in Sessions : ~ Busy(t)
    BY <1>1, <2>1 DEF StatsTick
  <2>3. \A t \in Sessions \ {s} : stage'[t] = stage[t]
    BY <1>0, <1>1 DEF StatsTick, Life!Tick, Life!Moves
  <2> QED BY <2>2, <2>3 DEF Crowded
<1>2. ASSUME UNCHANGED meetings, \A t \in Sessions : Busy(t)' => Busy(t)
      PROVE  meetings = 0 /\ (~ Crowded => ~ Crowded')
  BY <1>2, Zenon DEF Crowded
<1>3. CASE \/ Lifecycle \/ Elsewhere \/ Restart \/ UNCHANGED vars
  <2>1. UNCHANGED meetings
    BY <1>3 DEF Lifecycle, Elsewhere, Restart, vars
  <2>2. \A t \in Sessions : Busy(t)' => Busy(t)
    BY <1>0, <1>3 DEF Lifecycle, Life!End, Life!Begin, Life!Returns, Life!Moves,
       Elsewhere, Restart, Life!Restart, vars, life
  <2> QED BY <1>2, <2>1, <2>2
<1>4. ASSUME NEW s \in Sessions,
             \/ ReadTotals(s) \/ ReadFails(s) \/ Delta(s)
             \/ SendOk(s) \/ SendFails(s) \/ StatsReported(s)
      PROVE  meetings = 0 /\ (~ Crowded => ~ Crowded')
  <2>1. UNCHANGED meetings
    BY <1>4 DEF ReadTotals, ReadFails, Delta, SendOk, SendFails, StatsReported
  <2>2. \A t \in Sessions : Busy(t)' => Busy(t)
    BY <1>0, <1>4 DEF ReadTotals, ReadFails, Delta, SendOk, SendFails,
       StatsReported, Life!Nothing, Life!Ready, Life!Written, Life!NotWritten,
       Life!Accepted, Life!Moves, life
  <2> QED BY <1>2, <2>1, <2>2
<1> QED BY <1>1, <1>3, <1>4 DEF Next, Report

(* Until goroutines meet, Metering's invariant holds of the one it sees. *)
Apart == meetings = 0 => ~ Crowded /\ Proved!IInv

(* It holds when the process starts. *)
LEMMA ApartInit == Init => Apart
<1> SUFFICES ASSUME Init PROVE ~ Crowded /\ Proved!IInv
  BY DEF Apart
<1>1. ~ Crowded
  <2>1. stage = [s \in Sessions |-> "none"]
    BY DEF Init, Life!Init
  <2> QED BY <2>1 DEF Crowded, Busy, Life!Busy
<1>2. Proved!IInv
  BY SamePromises, ReportsAssumption, Proved!InvInit DEF Init
<1> QED BY <1>1, <1>2

(* And no step ends it, but a tick at which two goroutines meet. *)
LEMMA ApartStep == IInv /\ Apart /\ [Next]_vars => Apart'
<1> SUFFICES ASSUME IInv, Apart, [Next]_vars, meetings' = 0
             PROVE  ~ Crowded' /\ Proved!IInv'
  BY DEF Apart
<1>1. meetings = 0
  BY Noticed
<1>2. ~ Crowded /\ ~ Crowded' /\ Proved!IInv
  BY <1>1, Noticed DEF Apart
<1>3. [Proved!Next]_(Proved!vars)
  BY <1>2, SoloStep, SameMetering
<1>4. Proved!IInv'
  BY <1>2, <1>3, ReportsAssumption, Proved!InvStep
<1> QED BY <1>2, <1>4

(* It holds in every reachable state. *)
LEMMA StaysApart == Spec => []Apart
BY ApartInit, ApartStep, Invariance, PTL DEF Spec

(* With any number of sessions, each with a goroutine of its own that may outlive
   it, nobody is charged for more than they relayed until two goroutines meet. *)
THEOREM SessionsChargeAtMostOnce == Spec => []SessionsNeverOvercharge
<1>1. Apart => SessionsNeverOvercharge
  <2>1. Proved!IInv => Proved!NeverOvercharged
    BY ReportsAssumption, Proved!InvPromises
  <2> QED BY <2>1, SamePromises DEF Apart, SessionsNeverOvercharge
<1> QED BY <1>1, StaysApart, PTL

(* And each goes on from what its predecessors have reported. *)
THEOREM SessionsGoOnFromBaseline == Spec => []SessionsKeepBaseline
<1>1. Apart => SessionsKeepBaseline
  <2>1. Proved!IInv => Proved!BaselineIsWhatWasReported
    BY ReportsAssumption, Proved!InvPromises
  <2> QED BY <2>1, SamePromises DEF Apart, SessionsKeepBaseline
<1> QED BY <1>1, StaysApart, PTL

(* A node whose goroutines never meet is Metering from its start to its end, with
   all its sessions. *)
THEOREM NeverMeetingIsMetering == Spec /\ [](meetings = 0) => Single!Spec
<1>1. Init => Single!Init
  BY DEF Init
<1>2. IInv /\ Apart /\ meetings = 0 /\ (meetings = 0)' /\ [Next]_vars
        => [Single!Next]_(Single!vars)
  <2> SUFFICES ASSUME IInv, Apart, meetings = 0, meetings' = 0, [Next]_vars
               PROVE  Single!Next \/ UNCHANGED Single!vars
    OBVIOUS
  <2>1. ~ Crowded /\ ~ Crowded'
    BY Noticed DEF Apart
  <2> QED BY <2>1, SoloStep
<1> QED BY <1>1, <1>2, Invariance, StaysApart, PTL DEF Spec, Single!Spec

(* Whatever the goroutines do to the counters, they come and go as Reporters says,
   which is all that Link promises of them. *)
THEOREM LivesAsPromised == Spec => Life!Spec
<1>1. Init => Life!Init
  BY DEF Init
<1>2. [Next]_vars => [Life!Next]_<<current, stage>>
  <2> SUFFICES ASSUME [Next]_vars
               PROVE  Life!Next \/ UNCHANGED <<current, stage>>
    OBVIOUS
  <2>1. CASE Lifecycle
    BY <2>1 DEF Lifecycle, Life!Next
  <2>2. CASE Restart
    BY <2>2 DEF Restart, Life!Next
  <2>3. CASE Elsewhere \/ UNCHANGED vars
    BY <2>3 DEF Elsewhere, vars, life
  <2>4. ASSUME NEW s \in Sessions, Report(s)
        PROVE  Life!Next \/ UNCHANGED <<current, stage>>
    BY <2>4 DEF Report, StatsTick, ReadTotals, ReadFails, Delta, SendOk,
                SendFails, StatsReported, Life!Next, life
  <2> QED BY <2>1, <2>2, <2>3, <2>4 DEF Next
<1> QED BY <1>1, <1>2, PTL DEF Spec, Life!Spec
=============================================================================
