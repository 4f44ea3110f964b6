-------------------------- MODULE ConfigSwapProofs --------------------------
(***************************************************************************)
(* Proofs about ConfigSwap, for any configurations and instances and    *)
(* whichever steps of sing-box fail.                                       *)
(***************************************************************************)
EXTENDS ConfigSwap, TLAPS

(* What a call in progress has established at each of its steps. *)
CallState ==
  /\ pc \in {"stop", "start"} =>
       instance \notin started /\ config[instance] = target
  /\ pc = "start" => box = NoInstance
  /\ pc = "done" => box # NoInstance /\ current = target
  /\ pc # "idle" /\ attempt = "apply" => target = tried /\ tried = asked
  /\ pc \notin {"idle", "done"} => previous = current
  /\ attempt = "restore" =>
       /\ pc # "idle"
       /\ applyErr # NoError
       /\ pc # "done" => box = NoInstance
       /\ target = current

(* What is served is what the engine believes. *)
EngineState ==
  /\ box # NoInstance => config[box] = current /\ current # NoConfig
  /\ activeTags = Served

IInv ==
  /\ TypeOK
  /\ NoStrayInstance
  /\ CallState
  /\ EngineState
  /\ ErrorTellsOutcome

-----------------------------------------------------------------------------
(* The invariant holds when the process starts. *)
LEMMA InvInit == Init => IInv
BY ConfigSwapAssumption
   DEF Init, IInv, TypeOK, NoStrayInstance, CallState, EngineState,
       ErrorTellsOutcome, Served, MaybeConfig, MaybeInstance, Errors

(* Every step keeps every value of its type. *)
LEMMA TypeCorrectStep == TypeOK /\ [Next]_vars => TypeOK'
<1> SUFFICES ASSUME TypeOK, [Next]_vars PROVE TypeOK'
  OBVIOUS
<1> USE DEF TypeOK, MaybeConfig, MaybeInstance, Errors, history
<1>1. ASSUME NEW c \in Configs, RejectUndecoded(c) \/ Begin(c) PROVE TypeOK'
  BY <1>1 DEF RejectUndecoded, Begin, engine, call, singbox
<1>2. CASE BuildFails \/ StartFails
  BY <1>2 DEF BuildFails, StartFails, engine, singbox, panel
<1>3. ASSUME NEW i \in Instances, Build(i) PROVE TypeOK'
  BY <1>3 DEF Build, engine, panel
<1>4. CASE Stop \/ StartOk
  BY <1>4 DEF Stop, StartOk, panel
<1>5. CASE Applied \/ Restored \/ RestoreFails
  BY <1>5 DEF Applied, Restored, RestoreFails, Return, engine, singbox
<1>6. CASE FailNoRestore \/ CannotDecodePrevious
  BY <1>6 DEF FailNoRestore, CannotDecodePrevious, Return, singbox
<1>7. CASE BeginRestore
  BY <1>7 DEF BeginRestore, NothingToRestore, singbox, panel
<1>8. CASE Restart
  BY <1>8 DEF Restart, Return
<1>9. CASE UNCHANGED vars
  BY <1>9 DEF vars, engine, call, singbox, panel
<1> QED BY <1>1, <1>2, <1>3, <1>4, <1>5, <1>6, <1>7, <1>8, <1>9 DEF Next

(* Every step keeps the rest of the invariant. *)
LEMMA InvStep == IInv /\ [Next]_vars => IInv'
<1> SUFFICES ASSUME IInv, [Next]_vars PROVE IInv'
  OBVIOUS
<1> DEFINE Rest == NoStrayInstance /\ CallState /\ EngineState
                     /\ ErrorTellsOutcome
<1>1. TypeOK /\ TypeOK' /\ Rest
  BY TypeCorrectStep DEF IInv
<1> SUFFICES Rest'
  BY <1>1 DEF IInv
<1> USE <1>1, ConfigSwapAssumption
    DEF TypeOK, MaybeConfig, MaybeInstance, Errors, NoStrayInstance, CallState,
        EngineState, ErrorTellsOutcome, Served, history
<1>2. ASSUME NEW c \in Configs, RejectUndecoded(c) \/ Begin(c) PROVE Rest'
  BY <1>2 DEF RejectUndecoded, Begin, engine, call, singbox
<1>3. CASE BuildFails
  BY <1>3 DEF BuildFails, engine, singbox, panel
<1>4. ASSUME NEW i \in Instances, Build(i) PROVE Rest'
  BY <1>4 DEF Build, engine, panel
<1>5. CASE Stop
  BY <1>5 DEF Stop, panel
<1>6. CASE StartFails
  BY <1>6 DEF StartFails, engine, panel
<1>7. CASE StartOk
  BY <1>7 DEF StartOk, panel
<1>8. CASE Applied
  BY <1>8 DEF Applied, Return, singbox
<1>9. CASE Restored \/ RestoreFails
  BY <1>9 DEF Restored, RestoreFails, Return, engine, singbox
<1>10. CASE FailNoRestore \/ CannotDecodePrevious
  BY <1>10 DEF FailNoRestore, CannotDecodePrevious, Return, singbox
<1>11. CASE BeginRestore
  BY <1>11 DEF BeginRestore, NothingToRestore, singbox, panel
<1>12. CASE Restart
  BY <1>12 DEF Restart, Return
<1>13. CASE UNCHANGED vars
  BY <1>13 DEF vars, engine, call, singbox, panel
<1> QED BY <1>2, <1>3, <1>4, <1>5, <1>6, <1>7, <1>8, <1>9, <1>10, <1>11,
           <1>12, <1>13 DEF Next

(* The invariant holds in every reachable state. *)
THEOREM Invariance == Spec => []IInv
BY InvInit, InvStep, PTL DEF Spec

(* Every value the engine keeps stays of its type. *)
THEOREM TypeCorrect == Spec => []TypeOK
<1>1. IInv => TypeOK
  BY DEF IInv
<1> QED BY <1>1, Invariance, PTL

(* No sing-box instance is ever left behind, whichever step fails. *)
THEOREM NothingLeaks == Spec => []NoStrayInstance
<1>1. IInv => NoStrayInstance
  BY DEF IInv
<1> QED BY <1>1, Invariance, PTL

(* State never lists an inbound that is not served, nor misses one. *)
THEOREM StateIsTruthful == Spec => []TruthfulState
<1>1. IInv => TruthfulState
  BY DEF IInv, EngineState, TruthfulState
<1> QED BY <1>1, Invariance, PTL

(* The error shown is that of the last configuration the node could decode, and
   a node that shows none serves it. *)
THEOREM ErrorIsTrue == Spec => []ErrorTellsOutcome
<1>1. IInv => ErrorTellsOutcome
  BY DEF IInv
<1> QED BY <1>1, Invariance, PTL
-----------------------------------------------------------------------------
(* Initial states map to initial states. *)
LEMMA InitRefines == Init => Promise!Init
BY DEF Init, Promise!Init, Served, Phase

(* Every step maps to a step of DataPlane, or to none. *)
LEMMA StepRefines == IInv /\ [Next]_vars => [Promise!Next]_(Promise!vars)
<1> SUFFICES ASSUME IInv, [Next]_vars PROVE [Promise!Next]_(Promise!vars)
  OBVIOUS
<1> USE ConfigSwapAssumption
    DEF IInv, TypeOK, MaybeConfig, MaybeInstance, NoStrayInstance, CallState,
        EngineState, Served, Phase, Promise!vars, history
<1>1. ASSUME NEW c \in Configs, RejectUndecoded(c) PROVE Promise!Reject(c)
  BY <1>1 DEF RejectUndecoded, engine, call, singbox, Promise!Reject
<1>2. ASSUME NEW c \in Configs, Begin(c) PROVE Promise!Begin(c)
  BY <1>2 DEF Begin, engine, singbox, Promise!Begin
<1>3. ASSUME BuildFails \/ StartFails PROVE UNCHANGED Promise!vars
  BY <1>3 DEF BuildFails, StartFails, engine, singbox, panel
<1>4. ASSUME NEW i \in Instances, Build(i) PROVE UNCHANGED Promise!vars
  BY <1>4 DEF Build, engine, panel
<1>5. ASSUME Stop, box = NoInstance PROVE UNCHANGED Promise!vars
  BY <1>5 DEF Stop, panel
<1>6. ASSUME Stop, box # NoInstance PROVE Promise!Interrupt
  BY <1>6 DEF Stop, panel, Promise!Interrupt
<1>7. ASSUME StartOk, attempt = "apply" PROVE Promise!Adopt
  BY <1>7 DEF StartOk, panel, Promise!Adopt
<1>8. ASSUME StartOk, attempt = "restore" PROVE Promise!Restore
  BY <1>8 DEF StartOk, panel, Promise!Restore
<1>9. ASSUME Applied PROVE Promise!Succeed
  BY <1>9 DEF Applied, Return, singbox, Promise!Succeed
<1>10. ASSUME Restored \/ RestoreFails PROVE Promise!Fail
  BY <1>10 DEF Restored, RestoreFails, Return, engine, singbox, Promise!Fail
<1>11. ASSUME FailNoRestore \/ CannotDecodePrevious PROVE Promise!Fail
  BY <1>11 DEF FailNoRestore, CannotDecodePrevious, Return, singbox,
               Promise!Fail
<1>12. ASSUME BeginRestore PROVE Promise!Retreat
  BY <1>12 DEF BeginRestore, NothingToRestore, singbox, panel, Promise!Retreat
<1>13. ASSUME Restart PROVE Promise!Restart
  BY <1>13 DEF Restart, Return, Promise!Restart
<1>14. ASSUME UNCHANGED vars PROVE UNCHANGED Promise!vars
  BY <1>14 DEF vars, engine, call, singbox, panel
<1>15. attempt \in {"apply", "restore"}
  OBVIOUS
<1> HIDE DEF IInv, TypeOK, NoStrayInstance, CallState, EngineState, Served,
             Phase, Promise!vars
<1> QED BY <1>1, <1>2, <1>3, <1>4, <1>5, <1>6, <1>7, <1>8, <1>9,
           <1>10, <1>11, <1>12, <1>13, <1>14, <1>15 DEF Next, Promise!Next

(* ApplyConfig keeps the promise of DataPlane. *)
THEOREM Refinement == Spec => Implements
BY InitRefines, StepRefines, Invariance, PTL DEF Spec, Implements, Promise!Spec
-----------------------------------------------------------------------------
(* Between calls only a failed restoration leaves nothing running. *)
Recovers ==
  pc = "idle" /\ current # NoConfig /\ ~lost => box # NoInstance

(* Unless going back failed as well, a node that has served something serves
   the last thing that started, whatever it is sent next. *)
THEOREM StaysUp == Spec => []KeepsServing
<1>1. Init => Recovers
  BY DEF Init, Recovers
<1>2. IInv /\ Recovers /\ [Next]_vars => Recovers'
  <2> SUFFICES ASSUME IInv, Recovers, [Next]_vars PROVE Recovers'
    OBVIOUS
  <2> USE DEF IInv, CallState, TypeOK, Recovers, history
  <2>1. ASSUME NEW c \in Configs, RejectUndecoded(c) \/ Begin(c)
        PROVE  Recovers'
    BY <2>1 DEF RejectUndecoded, Begin, engine, call
  <2>2. CASE BuildFails \/ StartFails
    BY <2>2 DEF BuildFails, StartFails, engine
  <2>3. ASSUME NEW i \in Instances, Build(i) PROVE Recovers'
    BY <2>3 DEF Build, engine
  <2>4. CASE Stop \/ StartOk
    BY <2>4 DEF Stop, StartOk
  <2>5. CASE Applied \/ Restored \/ RestoreFails
    BY <2>5 DEF Applied, Restored, RestoreFails, Return, engine
  <2>6. CASE FailNoRestore \/ CannotDecodePrevious
    BY <2>6 DEF FailNoRestore, CannotDecodePrevious, NothingToRestore, Return
  <2>7. CASE BeginRestore
    BY <2>7 DEF BeginRestore
  <2>8. CASE Restart
    BY <2>8 DEF Restart, Return
  <2>9. CASE UNCHANGED vars
    BY <2>9 DEF vars, engine, call
  <2> QED BY <2>1, <2>2, <2>3, <2>4, <2>5, <2>6, <2>7, <2>8, <2>9 DEF Next
<1>3. IInv /\ Recovers => KeepsServing
  BY DEF IInv, EngineState, Recovers, KeepsServing, Served
<1> QED BY <1>1, <1>2, <1>3, Invariance, PTL DEF Spec
=============================================================================
