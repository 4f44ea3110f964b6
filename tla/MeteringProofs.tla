--------------------------- MODULE MeteringProofs ---------------------------
(***************************************************************************)
(* Proofs about Metering, for any users, instances and traffic.            *)
(***************************************************************************)
EXTENDS Metering, TLAPS

(* A reading is in flight and will become the baseline once it is acked. *)
Unacked == pc = "ack" /\ pending # NoReading

(* Which instance each pointer may lead to.  Only ApplyFresh puts an instance
   in place, and it moves box, base and the counters together; a reading that
   survived (pending is not nil) is therefore of the baseline's instance. *)
Pointers ==
  /\ box \in used \cup {NoInstance}
  /\ base \in used \cup {NoInstance}
  /\ ctx \in used \cup {NoInstance}
  /\ box # NoInstance => box = base
  /\ pc # "wait" => base # NoInstance
  /\ ~crossed /\ pc \in {"send", "ack"} =>
       IF pending = NoReading THEN ctx # base
                              ELSE ctx = base /\ pending = reading

Untouched ==
  \A i \in Instances, u \in Users :
    /\ total[i][u] <= relayed[i][u]
    /\ i \notin used => relayed[i][u] = 0 /\ written[i][u] = 0

(* What is still to be reported, on top of what was, is covered by traffic. *)
Covered(u) ==
  /\ \A i \in Instances : written[i][u] <= relayed[i][u]
  /\ base # NoInstance /\ ~Unacked =>
       written[base][u] + Since(reported[u], total[base][u]) <= relayed[base][u]
  /\ pc = "delta" /\ ctx = base =>
       written[base][u] + Since(reported[u], reading[u])
         + Since(reading[u], total[base][u]) <= relayed[base][u]
  /\ pc = "send" => written[ctx][u] + out[u] <= relayed[ctx][u]
  /\ pc = "send" /\ pending # NoReading =>
       written[base][u] + out[u] + Since(pending[u], total[base][u])
         <= relayed[base][u]
  /\ Unacked =>
       written[base][u] + Since(pending[u], total[base][u]) <= relayed[base][u]

(* With the counter unbroken nothing is left out either. *)
Exact(u) ==
  base # NoInstance /\ Unbroken(u) =>
    /\ ~Unacked => reported[u] = written[base][u]
    /\ pc = "delta" /\ ctx = base =>
         reported[u] <= reading[u] /\ reading[u] <= total[base][u]
    /\ pc = "send" /\ pending # NoReading =>
         written[base][u] + out[u] = pending[u]
    /\ Unacked => pending[u] = written[base][u]

(* A report that is about to be sent accounts for what was read, whatever has
   become of the instance since. *)
InFlight(u) ==
  pc = "send" /\ total[ctx][u] = relayed[ctx][u] =>
    written[ctx][u] + out[u] = reading[u]

(* What the panel got is what counts as reported, and what was in doubt, each
   time no more than was relayed by then. *)
Doubted(u) ==
  \A i \in Instances :
    billed[i][u] <= written[i][u] + doubts * relayed[i][u]

IInv ==
  /\ TypeOK
  /\ Pointers
  /\ Untouched
  /\ ~crossed =>
       \A u \in Users : Covered(u) /\ Exact(u) /\ InFlight(u) /\ Doubted(u)
-----------------------------------------------------------------------------
(* Usage since a baseline is a number of units, never more than the counter
   shows: what delta computes is safe to send whatever sing-box reset. *)
LEMMA SinceBounds ==
  ASSUME NEW before \in Nat, NEW cur \in Nat
  PROVE  /\ Since(before, cur) \in Nat
         /\ Since(before, cur) <= cur
         /\ Since(0, cur) = cur
         /\ Since(cur, cur) = 0
         /\ Since(before, 0) = 0
         /\ Since(before, cur + 1) <= Since(before, cur) + 1
BY DEF Since

(* Crediting a report touches the account of the instance it was read from,
   and no other. *)
LEMMA CreditEffect ==
  ASSUME TypeOK, pc # "wait", NEW account \in [Instances -> Readings]
  PROVE  /\ Credit(account) \in [Instances -> Readings]
         /\ \A i \in Instances, u \in Users :
              Credit(account)[i][u] =
                IF i = ctx THEN account[i][u] + out[u] ELSE account[i][u]
<1> DEFINE row == [u \in Users |-> account[ctx][u] + out[u]]
<1>1. ctx \in Instances /\ out \in [Users -> Nat]
  BY DEF TypeOK, Readings
<1>2. account[ctx] \in [Users -> Nat]
  BY <1>1 DEF Readings
<1>3. row \in Readings
  BY <1>1, <1>2 DEF Readings
<1>4. Credit(account) = [account EXCEPT ![ctx] = row]
  BY DEF Credit
<1> HIDE DEF row
<1>5. Credit(account) \in [Instances -> Readings]
  BY <1>3, <1>4
<1>6. Credit(account)[ctx] = row
  BY <1>1, <1>4
<1>7. \A u \in Users : row[u] = account[ctx][u] + out[u]
  BY DEF row
<1> QED BY <1>4, <1>5, <1>6, <1>7

(* Every value starts of its type. *)
LEMMA TypeCorrectInit == Init => TypeOK
<1>1. Zero \in Readings
  BY DEF Zero, Readings
<1>2. NoTraffic \in [Instances -> Readings]
  BY <1>1 DEF NoTraffic
<1>3. Init => doubts \in 0..MaxDoubts
  BY MeteringAssumption DEF Init
<1> QED BY <1>1, <1>2, <1>3 DEF Init, TypeOK

(* No operation takes a value out of its type: a counter is never negative. *)
LEMMA TypeCorrectStep == TypeOK /\ [Next]_vars => TypeOK'
<1> SUFFICES ASSUME TypeOK, [Next]_vars PROVE TypeOK'
  OBVIOUS
<1> USE DEF TypeOK, Readings, Zero
<1>1. ASSUME NEW u \in Users, Relay(u) PROVE TypeOK'
  BY <1>1 DEF Relay, node, reporter, ledger
<1>2. ASSUME NEW u \in Users, DropCounter(u) PROVE TypeOK'
  BY <1>2 DEF DropCounter, node, reporter, ledger
<1>3. ASSUME NEW i \in Instances, ApplyFresh(i) PROVE TypeOK'
  BY <1>3 DEF ApplyFresh, Reset, reporter, ledger, traffic
<1>4. CASE ApplyLost
  BY <1>4 DEF ApplyLost, reporter, ledger, traffic
<1>5. CASE Restart
  BY <1>5 DEF Restart, ledger, traffic
<1>6. CASE StatsTick
  BY <1>6 DEF StatsTick, node, ledger, traffic
<1>7. CASE ReadTotals
  BY <1>7 DEF ReadTotals, node, ledger, traffic
<1>8. CASE ReadFails
  BY <1>8 DEF ReadFails, node, ledger, traffic
<1>9. CASE SendFails
  <2>1. Credit(billed) \in [Instances -> Readings]
    BY <1>9, CreditEffect DEF SendFails
  <2>2. doubts < MaxDoubts => doubts + 1 \in 0..MaxDoubts
    BY MeteringAssumption
  <2> QED BY <1>9, <2>1, <2>2 DEF SendFails, node, traffic
<1>10. CASE Delta
  <2>1. \A u \in Users : Since(reported[u], reading[u]) \in Nat
    BY SinceBounds
  <2> QED BY <1>10, <2>1 DEF Delta, ledger, traffic
<1>11. CASE SendOk
  <2>1. Credit(written) \in [Instances -> Readings]
    BY <1>11, CreditEffect DEF SendOk
  <2>2. Credit(billed) \in [Instances -> Readings]
    BY <1>11, CreditEffect DEF SendOk
  <2> QED BY <1>11, <2>1, <2>2 DEF SendOk, node, traffic
<1>12. CASE StatsReported
  BY <1>12 DEF StatsReported, Commit, ledger, traffic
<1>13. CASE UNCHANGED vars
  BY <1>13 DEF vars, node, reporter, ledger, traffic
<1> QED BY <1>1, <1>2, <1>3, <1>4, <1>5, <1>6, <1>7, <1>8, <1>9, <1>10,
           <1>11, <1>12, <1>13 DEF Next, Report

(* Every value the code keeps stays of its type, a counter never negative. *)
THEOREM TypeCorrect == Spec => []TypeOK
BY TypeCorrectInit, TypeCorrectStep, PTL DEF Spec

-----------------------------------------------------------------------------
(* The inductive invariant holds initially. *)
LEMMA InvInit == Init => IInv
<1> SUFFICES ASSUME Init PROVE IInv
  OBVIOUS
<1>1. TypeOK
  BY TypeCorrectInit
<1>2. \A i \in Instances : NoTraffic[i] = Zero
  BY DEF NoTraffic
<1>3. \A u \in Users : Zero[u] = 0
  BY DEF Zero
<1>4. \A i \in Instances, u \in Users :
        /\ total[i][u] = 0 /\ relayed[i][u] = 0
        /\ written[i][u] = 0 /\ billed[i][u] = 0
  BY <1>2, <1>3 DEF Init
<1>5. Untouched
  BY <1>4 DEF Untouched
<1>6. \A u \in Users : Doubted(u)
  BY <1>4 DEF Init, Doubted
<1> QED BY <1>1, <1>4, <1>5, <1>6
    DEF Init, IInv, Pointers, Covered, Exact, Unacked, InFlight

(* Every operation keeps the pointers straight. *)
LEMMA PointersStep == TypeOK /\ Pointers /\ [Next]_vars => Pointers'
<1> SUFFICES ASSUME TypeOK, Pointers, [Next]_vars PROVE Pointers'
  OBVIOUS
<1> USE MeteringAssumption DEF TypeOK, Pointers
<1>1. ASSUME NEW u \in Users, Relay(u) \/ DropCounter(u) PROVE Pointers'
  BY <1>1 DEF Relay, DropCounter, node, reporter
<1>2. ASSUME NEW i \in Instances, ApplyFresh(i) PROVE Pointers'
  BY <1>2 DEF ApplyFresh, Reset, reporter
<1>3. CASE ApplyLost
  BY <1>3 DEF ApplyLost, reporter
<1>4. CASE Restart
  BY <1>4 DEF Restart
<1>5. CASE StatsTick \/ ReadTotals \/ ReadFails \/ SendOk \/ SendFails
  BY <1>5 DEF StatsTick, ReadTotals, ReadFails, SendOk, SendFails, node
<1>6. CASE Delta
  BY <1>6 DEF Delta, Readings
<1>7. CASE StatsReported
  BY <1>7 DEF StatsReported, Commit
<1>8. CASE UNCHANGED vars
  BY <1>8 DEF vars, node, reporter
<1> QED BY <1>1, <1>2, <1>3, <1>4, <1>5, <1>6, <1>7, <1>8 DEF Next, Report

(* What Relay and DropCounter do to the two tables they write. *)
LEMMA TableUpdate ==
  ASSUME NEW table \in [Instances -> Readings],
         NEW i \in Instances, NEW w \in Users, NEW n \in Nat
  PROVE  \A j \in Instances, u \in Users :
           [table EXCEPT ![i][w] = n][j][u] =
             IF j = i /\ u = w THEN n ELSE table[j][u]
BY DEF Readings

(* One unit relayed moves the total and the ledger of one user by one, and
   nothing else. *)
LEMMA RelayEffect ==
  ASSUME TypeOK, NEW w \in Users, Relay(w)
  PROVE  \A j \in Instances, u \in Users :
           IF j = box /\ u = w
             THEN /\ total'[j][u] = total[j][u] + 1
                  /\ relayed'[j][u] = relayed[j][u] + 1
             ELSE /\ total'[j][u] = total[j][u]
                  /\ relayed'[j][u] = relayed[j][u]
<1>1. box \in Instances
  BY DEF Relay, TypeOK
<1>2. total[box][w] + 1 \in Nat /\ relayed[box][w] + 1 \in Nat
  BY <1>1 DEF TypeOK, Readings
<1>3. total' = [total EXCEPT ![box][w] = total[box][w] + 1]
  BY DEF Relay
<1>4. relayed' = [relayed EXCEPT ![box][w] = relayed[box][w] + 1]
  BY DEF Relay
<1>5. \A j \in Instances, u \in Users :
        total'[j][u] = IF j = box /\ u = w THEN total[box][w] + 1
                                          ELSE total[j][u]
  BY <1>1, <1>2, <1>3, TableUpdate DEF TypeOK
<1>6. \A j \in Instances, u \in Users :
        relayed'[j][u] = IF j = box /\ u = w THEN relayed[box][w] + 1
                                            ELSE relayed[j][u]
  BY <1>1, <1>2, <1>4, TableUpdate DEF TypeOK
<1> QED BY <1>5, <1>6

(* A counter that starts over moves one total to zero, and nothing else. *)
LEMMA DropEffect ==
  ASSUME TypeOK, NEW w \in Users, DropCounter(w)
  PROVE  /\ \A j \in Instances, u \in Users :
              total'[j][u] = IF j = box /\ u = w THEN 0 ELSE total[j][u]
         /\ box \in Instances /\ total[box][w] > 0
<1>1. /\ box \in Instances /\ total \in [Instances -> Readings]
      /\ total' = [total EXCEPT ![box][w] = 0] /\ total[box][w] > 0
  BY DEF DropCounter, TypeOK
<1> QED BY <1>1, TableUpdate

(* A counter never runs ahead of the traffic, and an instance not started yet
   has none. *)
LEMMA UntouchedStep ==
  TypeOK /\ Pointers /\ Untouched /\ [Next]_vars => Untouched'
<1> SUFFICES ASSUME TypeOK, Pointers, Untouched, [Next]_vars PROVE Untouched'
  OBVIOUS
<1> USE MeteringAssumption
<1>1. \A i \in Instances, u \in Users :
        total[i][u] \in Nat /\ relayed[i][u] \in Nat /\ written[i][u] \in Nat
  BY DEF TypeOK, Readings
<1>2. ASSUME NEW w \in Users, Relay(w) PROVE Untouched'
  <2>1. box \in Instances /\ box \in used
    BY <1>2 DEF Relay, Pointers, TypeOK
  <2>2. written' = written /\ used' = used
    BY <1>2 DEF Relay, node, ledger
  <2> QED BY <1>1, <1>2, <2>1, <2>2, RelayEffect DEF Untouched
<1>3. ASSUME NEW w \in Users, DropCounter(w) PROVE Untouched'
  <2>1. relayed' = relayed /\ written' = written /\ used' = used
    BY <1>3 DEF DropCounter, node, ledger
  <2> QED BY <1>1, <1>3, <2>1, DropEffect DEF Untouched
<1>4. ASSUME NEW i \in Instances, ApplyFresh(i) PROVE Untouched'
  BY <1>4 DEF ApplyFresh, ledger, traffic, Untouched
<1>5. CASE SendOk
  <2>1. ctx \in Instances /\ ctx \in used
    BY <1>5 DEF SendOk, TypeOK, Pointers
  <2>2. \A i \in Instances, u \in Users :
          written'[i][u] = IF i = ctx THEN written[i][u] + out[u]
                                      ELSE written[i][u]
    BY <1>5, CreditEffect DEF SendOk, TypeOK
  <2>3. total' = total /\ relayed' = relayed /\ used' = used
    BY <1>5 DEF SendOk, node, traffic
  <2> QED BY <2>1, <2>2, <2>3 DEF Untouched
<1>6. CASE \/ ApplyLost \/ Restart \/ StatsTick \/ ReadTotals \/ ReadFails
           \/ Delta \/ SendFails \/ StatsReported \/ UNCHANGED vars
  <2>1. UNCHANGED <<used, written, traffic>>
    BY <1>6 DEF ApplyLost, Restart, StatsTick, ReadTotals, ReadFails, Delta,
                SendFails, StatsReported, vars, node, ledger
  <2> QED BY <2>1 DEF Untouched, traffic
<1> QED BY <1>2, <1>3, <1>4, <1>5, <1>6 DEF Next, Report

(* The core: no step charges for traffic that is not there, and none leaves
   a reading out, for any one user. *)
LEMMA UserStep ==
  ASSUME IInv, [Next]_vars, ~crossed', NEW u \in Users
  PROVE  Covered(u)' /\ Exact(u)'
<1> USE MeteringAssumption
<1>1. TypeOK /\ Pointers /\ Untouched
  BY DEF IInv
<1>2. /\ \A i \in Instances : /\ total[i][u] \in Nat /\ relayed[i][u] \in Nat
                              /\ written[i][u] \in Nat
                              /\ total[i][u] <= relayed[i][u]
      /\ reported[u] \in Nat /\ reading[u] \in Nat /\ out[u] \in Nat
      /\ pending # NoReading => pending[u] \in Nat
      /\ base # NoInstance => base \in Instances
      /\ pc # "wait" => ctx \in Instances /\ base \in Instances
  BY <1>1 DEF TypeOK, Readings, Untouched, Pointers
<1>3. ~crossed
  BY DEF Next, Report, Relay, DropCounter, ApplyFresh, ApplyLost, Restart,
         StatsTick, ReadTotals, ReadFails, Delta, SendOk, SendFails,
         StatsReported, vars, reporter
<1>4. Covered(u) /\ Exact(u)
  BY <1>3 DEF IInv
<1>5. ASSUME NEW w \in Users, Relay(w) PROVE Covered(u)' /\ Exact(u)'
  <2>1. /\ UNCHANGED <<box, used, reported, pending, base, pc, ctx, reading,
                       out, written>>
        /\ box = base
    BY <1>1, <1>5 DEF Relay, Pointers, node, reporter, ledger
  <2>2. CASE u # w
    <3>1. \A i \in Instances : total'[i][u] = total[i][u]
                              /\ relayed'[i][u] = relayed[i][u]
      BY <1>1, <1>5, <2>2, RelayEffect
    <3> QED BY <1>2, <1>4, <2>1, <3>1 DEF Covered, Exact, Unbroken, Unacked
  <2>3. CASE u = w
    <3>1. \A i \in Instances :
            IF i = base THEN /\ total'[i][u] = total[i][u] + 1
                             /\ relayed'[i][u] = relayed[i][u] + 1
                        ELSE /\ total'[i][u] = total[i][u]
                             /\ relayed'[i][u] = relayed[i][u]
      BY <1>1, <1>5, <2>1, <2>3, RelayEffect
    <3>2. Covered(u)'
      BY <1>2, <1>4, <2>1, <3>1 DEF Covered, Unacked, Since
    <3>3. Exact(u)'
      BY <1>2, <1>4, <2>1, <3>1 DEF Exact, Unbroken, Unacked
    <3> QED BY <3>2, <3>3
  <2> QED BY <2>2, <2>3
<1>6. ASSUME NEW w \in Users, DropCounter(w) PROVE Covered(u)' /\ Exact(u)'
  <2>1. /\ UNCHANGED <<box, used, reported, pending, base, pc, ctx, reading,
                       out, written, relayed>>
        /\ box = base
    BY <1>1, <1>6 DEF DropCounter, Pointers, node, reporter, ledger
  <2>2. CASE u # w
    <3>1. \A i \in Instances : total'[i][u] = total[i][u]
      BY <1>1, <1>6, <2>2, DropEffect
    <3> QED BY <1>2, <1>4, <2>1, <3>1 DEF Covered, Exact, Unbroken, Unacked
  <2>3. CASE u = w
    <3>1. /\ \A i \in Instances :
               total'[i][u] = IF i = base THEN 0 ELSE total[i][u]
          /\ total[base][u] > 0
      BY <1>1, <1>6, <2>1, <2>3, DropEffect
    <3>2. Covered(u)'
      BY <1>2, <1>4, <2>1, <3>1 DEF Covered, Unacked, Since
    <3>3. ~Unbroken(u)'
      BY <1>1, <1>2, <1>6, <2>1, <3>1, DropEffect DEF Unbroken
    <3> QED BY <3>2, <3>3 DEF Exact
  <2> QED BY <2>2, <2>3
<1>7. ASSUME NEW i \in Instances, ApplyFresh(i) PROVE Covered(u)' /\ Exact(u)'
  <2>1. /\ UNCHANGED <<pc, ctx, reading, out, written, total, relayed>>
        /\ base' = i /\ pending' = NoReading /\ reported'[u] = 0
    BY <1>7 DEF ApplyFresh, Reset, Zero, reporter, ledger, traffic
  <2>2. total[i][u] = 0 /\ relayed[i][u] = 0 /\ written[i][u] = 0
    BY <1>1, <1>2, <1>7 DEF ApplyFresh, Untouched
  <2>3. pc # "wait" => ctx # i
    BY <1>1, <1>2, <1>7 DEF ApplyFresh, Pointers
  <2>4. Covered(u)'
    BY <1>2, <1>4, <2>1, <2>2, <2>3 DEF Covered, Unacked, Since
  <2> QED BY <2>1, <2>2, <2>3, <2>4 DEF Exact, Unacked
<1>8. CASE ApplyLost
  BY <1>2, <1>4, <1>8 DEF ApplyLost, Covered, Exact, Unbroken, Unacked,
                          reporter, ledger, traffic
<1>9. CASE Restart
  BY <1>2, <1>4, <1>9 DEF Restart, Covered, Exact, Unacked, ledger, traffic
<1>10. CASE StatsTick \/ ReadFails \/ SendFails
  <2>1. /\ UNCHANGED <<reported, pending, base, written, total, relayed>>
        /\ ~Unacked /\ ~Unacked'
        /\ pc' \in {"wait", "read"}
    BY <1>10 DEF StatsTick, ReadFails, SendFails, Unacked, node, ledger, traffic
  <2> QED BY <1>2, <1>4, <2>1 DEF Covered, Exact, Unbroken
<1>11. CASE ReadTotals
  <2>1. /\ UNCHANGED <<ctx, reported, pending, base, written, total, relayed>>
        /\ pc = "read" /\ pc' = "delta" /\ reading'[u] = total[ctx][u]
    BY <1>11 DEF ReadTotals, node, ledger, traffic
  <2>2. Covered(u)'
    BY <1>2, <1>4, <2>1 DEF Covered, Unacked, Since
  <2>3. Exact(u)'
    BY <1>2, <1>4, <2>1 DEF Covered, Exact, Unbroken, Unacked, Since
  <2> QED BY <2>2, <2>3
<1>12. CASE Delta
  <2>1. /\ UNCHANGED <<ctx, reading, reported, base, written, total, relayed>>
        /\ pc = "delta" /\ pc' = "send" /\ pending' = reading
        /\ out'[u] = Since(reported[u], reading[u])
        /\ ctx = base
    BY <1>12 DEF Delta, ledger, traffic
  <2>2. reading # NoReading
    BY <1>1 DEF TypeOK, Readings
  <2>3. /\ Since(reported[u], reading[u]) \in Nat
        /\ Since(reading[u], total[base][u]) \in Nat
    BY <1>2, <2>1, SinceBounds
  <2>4. Covered(u)'
    <3>1. written[base][u] + Since(reported[u], reading[u])
            + Since(reading[u], total[base][u]) <= relayed[base][u]
      BY <1>4, <2>1 DEF Covered
    <3>2. pending'[u] = reading[u] /\ ~Unacked /\ ~Unacked'
      BY <2>1 DEF Unacked
    <3>3. written[base][u] + out'[u] <= relayed[base][u]
      BY <1>2, <2>1, <2>3, <3>1
    <3> QED BY <1>2, <1>4, <2>1, <3>1, <3>2, <3>3 DEF Covered
  <2>5. Exact(u)'
    BY <1>2, <1>4, <2>1 DEF Exact, Unbroken, Unacked, Since
  <2> QED BY <2>4, <2>5
<1>13. CASE SendOk
  <2>1. /\ UNCHANGED <<ctx, reading, reported, pending, base, total, relayed>>
        /\ pc = "send" /\ pc' = "ack" /\ ctx \in Instances
    BY <1>2, <1>13 DEF SendOk, node, traffic
  <2>2. \A i \in Instances :
          written'[i][u] = IF i = ctx THEN written[i][u] + out[u]
                                      ELSE written[i][u]
    BY <1>1, <1>13, CreditEffect DEF SendOk, TypeOK
  <2>3. IF pending = NoReading THEN ctx # base ELSE ctx = base
    BY <1>1, <1>3, <2>1 DEF Pointers
  <2>4. Covered(u)'
    BY <1>2, <1>4, <2>1, <2>2, <2>3 DEF Covered, Unacked
  <2>5. Exact(u)'
    BY <1>2, <1>4, <2>1, <2>2, <2>3 DEF Exact, Unbroken, Unacked
  <2> QED BY <2>4, <2>5
<1>14. CASE StatsReported
  <2>1. /\ UNCHANGED <<base, written, total, relayed>>
        /\ pc = "ack" /\ pc' = "wait"
        /\ reported' = IF pending = NoReading THEN reported ELSE pending
    BY <1>14 DEF StatsReported, Commit, ledger, traffic
  <2> QED BY <1>2, <1>4, <2>1 DEF Covered, Exact, Unbroken, Unacked
<1>15. CASE UNCHANGED vars
  BY <1>4, <1>15 DEF vars, node, reporter, ledger, traffic, Covered, Exact,
                     Unbroken, Unacked
<1> QED BY <1>5, <1>6, <1>7, <1>8, <1>9, <1>10, <1>11, <1>12, <1>13, <1>14,
           <1>15 DEF Next, Report

(* What is about to be sent is fixed once delta has run: traffic and counters
   that start over afterwards, and an apply, leave the account it completes
   alone. *)
LEMMA InFlightStep ==
  ASSUME IInv, [Next]_vars, ~crossed', NEW u \in Users
  PROVE  InFlight(u)'
<1> USE MeteringAssumption
<1>1. TypeOK /\ Pointers /\ Untouched
  BY DEF IInv
<1>2. ~crossed
  BY DEF Next, Report, Relay, DropCounter, ApplyFresh, ApplyLost, Restart,
         StatsTick, ReadTotals, ReadFails, Delta, SendOk, SendFails,
         StatsReported, vars, reporter
<1>3. Exact(u) /\ InFlight(u)
  BY <1>2 DEF IInv
<1>4. /\ \A i \in Instances : /\ total[i][u] \in Nat /\ relayed[i][u] \in Nat
                              /\ written[i][u] \in Nat
                              /\ total[i][u] <= relayed[i][u]
      /\ reported[u] \in Nat /\ reading[u] \in Nat /\ out[u] \in Nat
      /\ pc # "wait" => ctx \in Instances /\ base \in Instances
  BY <1>1 DEF TypeOK, Readings, Untouched, Pointers
<1>5. ASSUME NEW w \in Users, Relay(w) PROVE InFlight(u)'
  <2>1. UNCHANGED <<pc, ctx, reading, out, written>>
    BY <1>5 DEF Relay, reporter, ledger
  <2>2. \A i \in Instances :
          total'[i][u] = relayed'[i][u] => total[i][u] = relayed[i][u]
    BY <1>1, <1>4, <1>5, RelayEffect
  <2> QED BY <1>3, <1>4, <2>1, <2>2 DEF InFlight
<1>6. ASSUME NEW w \in Users, DropCounter(w) PROVE InFlight(u)'
  <2>1. UNCHANGED <<pc, ctx, reading, out, written, relayed>>
    BY <1>6 DEF DropCounter, reporter, ledger
  <2>2. \A i \in Instances :
          total'[i][u] = relayed[i][u] => total[i][u] = relayed[i][u]
    BY <1>1, <1>4, <1>6, DropEffect
  <2> QED BY <1>3, <1>4, <2>1, <2>2 DEF InFlight
<1>7. CASE Delta
  <2>1. /\ UNCHANGED <<ctx, reading, reported, base, written, total, relayed>>
        /\ pc = "delta" /\ ctx = base
        /\ out'[u] = Since(reported[u], reading[u])
    BY <1>7 DEF Delta, ledger, traffic
  <2> QED BY <1>3, <1>4, <2>1 DEF Exact, Unbroken, Unacked, InFlight, Since
<1>8. CASE \/ \E i \in Instances : ApplyFresh(i)
           \/ ApplyLost \/ UNCHANGED vars
  <2>1. UNCHANGED <<pc, ctx, reading, out, written, total, relayed>>
    BY <1>8 DEF ApplyFresh, ApplyLost, vars, reporter, ledger, traffic
  <2> QED BY <1>3, <2>1 DEF InFlight
<1>9. CASE \/ Restart \/ StatsTick \/ ReadTotals \/ ReadFails \/ SendOk
           \/ SendFails \/ StatsReported
  <2>1. pc' # "send"
    BY <1>9 DEF Restart, StatsTick, ReadTotals, ReadFails, SendOk, SendFails,
                StatsReported
  <2> QED BY <2>1 DEF InFlight
<1> QED BY <1>5, <1>6, <1>7, <1>8, <1>9 DEF Next, Report

(* Twice the times, or one more unit each time. *)
LEMMA Times ==
  ASSUME NEW d \in Nat, NEW r \in Nat
  PROVE  /\ d * r \in Nat /\ d * (r + 1) \in Nat
         /\ d * (r + 1) = d * r + d
         /\ (d + 1) * r = d * r + r /\ (1 + d) * r = r + d * r
OBVIOUS

(* Only a failed write that was received puts the panel ahead, by a report that
   is no more than what was relayed. *)
LEMMA DoubtedStep ==
  ASSUME IInv, [Next]_vars, ~crossed', NEW u \in Users
  PROVE  Doubted(u)'
<1> USE MeteringAssumption
<1>1. TypeOK /\ Pointers
  BY DEF IInv
<1>2. ~crossed
  BY DEF Next, Report, Relay, DropCounter, ApplyFresh, ApplyLost, Restart,
         StatsTick, ReadTotals, ReadFails, Delta, SendOk, SendFails,
         StatsReported, vars, reporter
<1>3. Covered(u) /\ Doubted(u)
  BY <1>2 DEF IInv
<1>4. /\ \A i \in Instances : /\ relayed[i][u] \in Nat /\ written[i][u] \in Nat
                              /\ billed[i][u] \in Nat
      /\ out[u] \in Nat /\ doubts \in Nat
      /\ pc # "wait" => ctx \in Instances
  BY <1>1 DEF TypeOK, Readings
<1>5. ASSUME NEW w \in Users, Relay(w) PROVE Doubted(u)'
  <2>1. UNCHANGED <<written, billed, doubts>>
    BY <1>5 DEF Relay, ledger
  <2>2. \A i \in Instances : \/ relayed'[i][u] = relayed[i][u]
                            \/ relayed'[i][u] = relayed[i][u] + 1
    BY <1>1, <1>5, RelayEffect
  <2>3. \A i \in Instances : /\ doubts * relayed[i][u] \in Nat
                            /\ doubts * relayed'[i][u] \in Nat
                            /\ doubts * relayed[i][u] <= doubts * relayed'[i][u]
    BY <1>4, <2>2, Times
  <2> QED BY <1>3, <1>4, <2>1, <2>3 DEF Doubted
<1>6. CASE SendOk
  <2>1. UNCHANGED <<relayed, doubts>> /\ ctx \in Instances
    BY <1>4, <1>6 DEF SendOk, traffic
  <2>2. /\ \A i \in Instances : written'[i][u] = IF i = ctx
                                   THEN written[i][u] + out[u] ELSE written[i][u]
        /\ \A i \in Instances : \/ billed'[i][u] = billed[i][u]
                                \/ billed'[i][u] = IF i = ctx
                                     THEN billed[i][u] + out[u] ELSE billed[i][u]
    BY <1>1, <1>6, CreditEffect DEF SendOk, TypeOK
  <2>3. \A i \in Instances : doubts * relayed[i][u] \in Nat
    BY <1>4, Times
  <2> QED BY <1>3, <1>4, <2>1, <2>2, <2>3 DEF Doubted
<1>7. CASE SendFails
  <2>1. CASE UNCHANGED <<billed, doubts>>
    BY <1>3, <1>7, <2>1 DEF SendFails, Doubted, traffic
  <2>2. CASE doubts' = doubts + 1 /\ billed' = Credit(billed)
    <3>1. /\ UNCHANGED <<relayed, written>> /\ ctx \in Instances
          /\ out[u] <= relayed[ctx][u]
      BY <1>3, <1>4, <1>7 DEF SendFails, Covered, traffic
    <3>2. \A i \in Instances : billed'[i][u] =
            IF i = ctx THEN billed[i][u] + out[u] ELSE billed[i][u]
      BY <1>1, <1>7, <2>2, CreditEffect DEF SendFails, TypeOK
    <3>3. \A i \in Instances :
            /\ doubts * relayed[i][u] \in Nat
            /\ doubts' * relayed[i][u] = doubts * relayed[i][u] + relayed[i][u]
      BY <1>4, <2>2, Times
    <3> QED BY <1>3, <1>4, <3>1, <3>2, <3>3 DEF Doubted
  <2> QED BY <1>7, <2>1, <2>2 DEF SendFails
<1>8. CASE \/ \E w \in Users : DropCounter(w)
           \/ \E i \in Instances : ApplyFresh(i)
           \/ ApplyLost \/ Restart \/ StatsTick \/ ReadTotals \/ ReadFails
           \/ Delta \/ StatsReported \/ UNCHANGED vars
  <2>1. UNCHANGED <<relayed, written, billed, doubts>>
    BY <1>8 DEF DropCounter, ApplyFresh, ApplyLost, Restart, StatsTick,
                ReadTotals, ReadFails, Delta, StatsReported, vars, ledger, traffic
  <2> QED BY <1>3, <2>1 DEF Doubted
<1> QED BY <1>5, <1>6, <1>7, <1>8 DEF Next, Report

(* No step breaks the invariant. *)
LEMMA InvStep == IInv /\ [Next]_vars => IInv'
BY TypeCorrectStep, PointersStep, UntouchedStep, UserStep, InFlightStep,
   DoubtedStep DEF IInv

(* The invariant holds in every reachable state. *)
THEOREM Invariance == Spec => []IInv
BY InvInit, InvStep, PTL DEF Spec

(* What the invariant says of the ledgers. *)
LEMMA InvPromises ==
  IInv => NeverOvercharged /\ BaselineIsWhatWasReported
BY DEF IInv, Covered, Exact, Unacked, Settled, NeverOvercharged,
       BaselineIsWhatWasReported

(* A user is never charged for more than they relayed, for any number of
   users, instances, applies, restarts and failed reports. *)
THEOREM ChargedAtMostOnce == Spec => []NeverOvercharged
BY InvPromises, Invariance, PTL

(* Nor charged by the panel, except that a report it got although its write
   failed may be repeated: at most once for each of those. *)
THEOREM ChargedAgainOnlyInDoubt == Spec => []RepeatedOnlyInDoubt
<1>1. IInv => RepeatedOnlyInDoubt
  <2> SUFFICES ASSUME IInv, ~crossed, NEW i \in Instances, NEW u \in Users
               PROVE  billed[i][u] <= (1 + doubts) * relayed[i][u]
    BY DEF RepeatedOnlyInDoubt
  <2>1. /\ billed[i][u] \in Nat /\ written[i][u] \in Nat
        /\ relayed[i][u] \in Nat /\ doubts \in Nat
    BY MeteringAssumption DEF IInv, TypeOK, Readings
  <2>2. /\ billed[i][u] <= written[i][u] + doubts * relayed[i][u]
        /\ written[i][u] <= relayed[i][u]
    BY DEF IInv, Covered, Doubted
  <2>3. /\ doubts * relayed[i][u] \in Nat
        /\ (1 + doubts) * relayed[i][u] = relayed[i][u] + doubts * relayed[i][u]
    BY <2>1, Times
  <2> QED BY <2>1, <2>2, <2>3
<1> QED BY <1>1, Invariance, PTL

(* The baseline of the running instance is what was reported from it: the
   next report neither skips nor repeats traffic. *)
THEOREM BaselineCorrect == Spec => []BaselineIsWhatWasReported
BY InvPromises, Invariance, PTL

(* A report that gets through settles the account of the instance it was read
   from to the unit, also the last one of an instance that was replaced. *)
THEOREM ReportedIsRead == Spec => ReportsAreExact
<1>1. IInv /\ [Next]_vars =>
        [pc = "send" /\ pc' = "ack" /\ ~crossed =>
           \A u \in Users : total[ctx][u] = relayed[ctx][u] =>
                               written'[ctx][u] = reading[u]]_vars
  <2> SUFFICES ASSUME IInv, Next, pc = "send", pc' = "ack", ~crossed,
                      NEW u \in Users, total[ctx][u] = relayed[ctx][u]
               PROVE  written'[ctx][u] = reading[u]
    OBVIOUS
  <2>1. SendOk
    BY DEF Next, Report, Relay, DropCounter, ApplyFresh, ApplyLost, Restart,
           StatsTick, ReadTotals, ReadFails, Delta, SendFails, StatsReported,
           reporter
  <2>2. TypeOK /\ ctx \in Instances /\ written \in [Instances -> Readings]
    BY DEF IInv, TypeOK
  <2>3. written'[ctx][u] = written[ctx][u] + out[u]
    BY <2>1, <2>2, CreditEffect DEF SendOk
  <2> QED BY <2>3 DEF IInv, InFlight
<1> QED BY <1>1, Invariance, PTL DEF Spec, ReportsAreExact
=============================================================================
