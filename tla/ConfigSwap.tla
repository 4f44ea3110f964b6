----------------------------- MODULE ConfigSwap -----------------------------
(***************************************************************************)
(* Engine.ApplyConfig step by step: decode, build the new instance, stop   *)
(* the running one, start the new one, and go back to the previous         *)
(* configuration when that fails.  sing-box cannot reload in place, and    *)
(* any of its steps may fail: its decoder, constructor and Start are       *)
(* external and decide freely.                                             *)
(*                                                                         *)
(* The read loop is the only caller, and everything after the decoding     *)
(* runs under e.mu, so other goroutines see the engine only when pc is     *)
(* "idle".  e.running always agrees with e.box and is not modelled apart   *)
(* from it.                                                                *)
(***************************************************************************)
CONSTANTS
  Configs,         \* configurations the panel may send
  Instances,       \* identities of sing-box instances, reused once closed
  NoConfig,        \* a nil e.current, and what an empty activeTags lists
  NoInstance,      \* a nil e.box
  NoError          \* an empty e.applyErr

ASSUME ConfigSwapAssumption ==
  /\ NoConfig \notin Configs
  /\ NoInstance \notin Instances
  /\ NoError \notin {"build", "start"}

VARIABLES
  (* Engine *)
  box,         \* e.box, e.cancel, e.ctx and e.running
  current,     \* e.current
  activeTags,  \* e.activeTags: the configuration whose inbounds it lists
  applyErr,    \* e.applyErr
  (* One call of ApplyConfig and of the swapLocked inside it *)
  pc,
  attempt,     \* "apply" for the configuration asked for, else "restore"
  previous,    \* what e.current was when the call began
  target,      \* the configuration swapLocked is given
  instance,    \* the instance it built
  err,         \* the error it returned
  (* sing-box *)
  built,       \* instances constructed and not yet started
  started,     \* instances holding listeners
  config,      \* config[i]: what instance i was built from
  (* What the panel sees of it *)
  asked,       \* the configuration it last sent
  answer,      \* the reply to it
  verdict,     \* the reply to the last one that could be decoded
  (* History that only properties read *)
  tried,       \* the configuration last asked for that could be decoded
  lost         \* going back to the previous configuration failed

engine == <<box, current, activeTags, applyErr>>
call == <<pc, attempt, previous, target, instance, err>>
singbox == <<built, started, config>>
panel == <<asked, answer, verdict>>
history == <<tried, lost>>
vars == <<engine, call, singbox, panel, history>>

MaybeConfig == Configs \cup {NoConfig}
MaybeInstance == Instances \cup {NoInstance}
Errors == {"build", "start"}

TypeOK ==
  /\ box \in MaybeInstance
  /\ current \in MaybeConfig
  /\ activeTags \in MaybeConfig
  /\ applyErr \in Errors \cup {NoError}
  /\ pc \in {"idle", "build", "stop", "start", "done", "failed"}
  /\ attempt \in {"apply", "restore"}
  /\ previous \in MaybeConfig
  /\ target \in IF pc = "idle" THEN MaybeConfig ELSE Configs
  /\ instance \in IF pc \in {"stop", "start"} THEN Instances ELSE MaybeInstance
  /\ err \in IF pc = "failed" THEN Errors ELSE Errors \cup {NoError}
  /\ built \in SUBSET Instances
  /\ started \in SUBSET Instances
  /\ config \in [Instances -> MaybeConfig]
  /\ asked \in MaybeConfig
  /\ {answer, verdict} \subseteq {"none", "ok", "error"}
  /\ tried \in MaybeConfig /\ lost \in BOOLEAN

Init ==
  /\ box = NoInstance /\ current = NoConfig
  /\ activeTags = NoConfig /\ applyErr = NoError
  /\ pc = "idle" /\ attempt = "apply" /\ previous = NoConfig
  /\ target = NoConfig /\ instance = NoInstance /\ err = NoError
  /\ built = {} /\ started = {} /\ config = [i \in Instances |-> NoConfig]
  /\ asked = NoConfig /\ answer = "none" /\ verdict = "none"
  /\ tried = NoConfig /\ lost = FALSE

-----------------------------------------------------------------------------
(* Locals of a call that has returned are dead; they are put back so that
   they do not multiply states. *)
Return(reply) ==
  /\ pc' = "idle" /\ attempt' = "apply" /\ previous' = NoConfig
  /\ target' = NoConfig /\ instance' = NoInstance /\ err' = NoError
  /\ answer' = reply /\ verdict' = reply

(* Empty, or refused by the decoder: returned before the lock is taken. *)
RejectUndecoded(c) ==
  /\ pc = "idle"
  /\ asked' = c /\ answer' = "error"
  /\ UNCHANGED <<verdict, engine, call, singbox, history>>

Begin(c) ==
  /\ pc = "idle"
  /\ pc' = "build"
  /\ asked' = c /\ tried' = c /\ target' = c
  /\ previous' = current
  /\ UNCHANGED <<attempt, instance, err, answer, verdict, lost, engine, singbox>>

(* swapLocked: preparing or building the new instance fails; the old one has
   not been touched. *)
BuildFails ==
  /\ pc = "build"
  /\ pc' = "failed" /\ err' = "build"
  /\ UNCHANGED <<attempt, previous, target, instance, engine, singbox, panel,
                 history>>

Build(i) ==
  /\ pc = "build"
  /\ i \notin built \cup started
  /\ pc' = "stop"
  /\ instance' = i
  /\ built' = built \cup {i}
  /\ config' = [config EXCEPT ![i] = target]
  /\ UNCHANGED <<attempt, previous, target, err, started, engine, panel,
                 history>>

(* stopLocked.  Does nothing when nothing is running. *)
StopUncleared ==
  /\ pc = "stop"
  /\ pc' = "start"
  /\ started' = started \ {box}
  /\ box' = NoInstance
  /\ UNCHANGED <<attempt, previous, target, instance, err, current, applyErr,
                 activeTags, built, config, panel, history>>

Stop ==
  /\ pc = "stop"
  /\ pc' = "start"
  /\ started' = started \ {box}
  /\ box' = NoInstance
  /\ activeTags' = IF box = NoInstance THEN activeTags ELSE NoConfig
  /\ UNCHANGED <<attempt, previous, target, instance, err, current, applyErr,
                 built, config, panel, history>>

StartFailsLeaking ==
  /\ pc = "start"
  /\ pc' = "failed" /\ err' = "start"
  /\ UNCHANGED <<attempt, previous, target, instance, engine, singbox, panel,
                 history>>

StartFails ==
  /\ pc = "start"
  /\ pc' = "failed" /\ err' = "start"
  /\ built' = built \ {instance}
  /\ UNCHANGED <<attempt, previous, target, instance, started, config, engine,
                 panel, history>>

StartOk ==
  /\ pc = "start"
  /\ pc' = "done" /\ err' = NoError
  /\ built' = built \ {instance}
  /\ started' = started \cup {instance}
  /\ box' = instance /\ current' = target /\ activeTags' = target
  /\ lost' = FALSE
  /\ UNCHANGED <<attempt, previous, target, instance, applyErr, config, panel,
                 tried>>

-----------------------------------------------------------------------------
(* Back in ApplyConfig. *)

Applied ==
  /\ pc = "done" /\ attempt = "apply"
  /\ applyErr' = NoError
  /\ Return("ok")
  /\ UNCHANGED <<box, current, activeTags, asked, singbox, history>>

Restored ==
  /\ pc = "done" /\ attempt = "restore"
  /\ Return("error")
  /\ UNCHANGED <<asked, engine, singbox, history>>

EagerNothingToRestore == previous = NoConfig
UncheckedNothingToRestore == box # NoInstance
InvertedNothingToRestore == previous = NoConfig \/ box = NoInstance

(* Nothing was served before, or it still is. *)
NothingToRestore == previous = NoConfig \/ box # NoInstance

FailNoRestore ==
  /\ pc = "failed" /\ attempt = "apply"
  /\ NothingToRestore
  /\ applyErr' = err
  /\ Return("error")
  /\ UNCHANGED <<box, current, activeTags, asked, singbox, history>>

(* The previous configuration no longer decodes. *)
CannotDecodePrevious ==
  /\ pc = "failed" /\ attempt = "apply"
  /\ ~NothingToRestore
  /\ applyErr' = err
  /\ lost' = TRUE
  /\ Return("error")
  /\ UNCHANGED <<box, current, activeTags, asked, singbox, tried>>

SilentRestore ==
  /\ pc = "failed" /\ attempt = "apply"
  /\ ~NothingToRestore
  /\ pc' = "build" /\ attempt' = "restore" /\ target' = previous
  /\ applyErr' = NoError
  /\ UNCHANGED <<previous, instance, err, box, current, activeTags, singbox,
                 panel, history>>

BeginRestore ==
  /\ pc = "failed" /\ attempt = "apply"
  /\ ~NothingToRestore
  /\ pc' = "build" /\ attempt' = "restore" /\ target' = previous
  /\ applyErr' = err
  /\ UNCHANGED <<previous, instance, err, box, current, activeTags, singbox,
                 panel, history>>

RestoreFails ==
  /\ pc = "failed" /\ attempt = "restore"
  /\ lost' = TRUE
  /\ Return("error")
  /\ UNCHANGED <<asked, engine, singbox, tried>>

-----------------------------------------------------------------------------
(* The process ends, cleanly (Close) or not, and starts again: the kernel
   takes back the listeners and nothing was persisted. *)
Restart ==
  /\ box' = NoInstance /\ current' = NoConfig
  /\ activeTags' = NoConfig /\ applyErr' = NoError
  /\ Return("none")
  /\ built' = {} /\ started' = {} /\ config' = [i \in Instances |-> NoConfig]
  /\ asked' = NoConfig /\ tried' = NoConfig /\ lost' = FALSE

Next ==
  \/ \E c \in Configs : RejectUndecoded(c) \/ Begin(c)
  \/ BuildFails \/ \E i \in Instances : Build(i)
  \/ Stop \/ StartFails \/ StartOk
  \/ Applied \/ Restored \/ FailNoRestore \/ CannotDecodePrevious
  \/ BeginRestore \/ RestoreFails
  \/ Restart

Spec == Init /\ [][Next]_vars

-----------------------------------------------------------------------------
(* Properties. *)

Served == IF box = NoInstance THEN NoConfig ELSE config[box]

(* Whenever e.mu is free, State lists the inbounds of the instance that is
   running, and none when nothing is (engine.go:178, 223-225). *)
TruthfulState == pc = "idle" => activeTags = Served

(* No instance is left behind holding memory or ports: one that was built is
   the one about to be started, one that was started is e.box.  So a new
   instance never meets a listener of the node's own. *)
NoStrayInstance ==
  /\ built = IF pc \in {"stop", "start"} THEN {instance} ELSE {}
  /\ started = IF box = NoInstance THEN {} ELSE {box}

(* One bad configuration does not take the node offline: unless going back to
   the previous one failed as well, a node that served something once serves
   the last thing that started (engine.go:106-110). *)
KeepsServing ==
  pc = "idle" /\ current # NoConfig /\ ~lost =>
    box # NoInstance /\ Served = current

(* What the panel is shown tells a rolled-back apply from one that took effect
   (engine.go:43-46): the error is set exactly when the last configuration
   that could be decoded was refused, and a node that shows none is serving
   that configuration. *)
ErrorTellsOutcome ==
  pc = "idle" =>
    /\ applyErr # NoError <=> verdict = "error"
    /\ applyErr = NoError => Served = tried

(* ApplyConfig does what DataPlane promises. *)
Phase ==
  CASE pc = "idle" -> "idle"
    [] pc = "done" -> IF attempt = "apply" THEN "adopted" ELSE "restored"
    [] OTHER -> IF attempt = "apply" THEN "trying" ELSE "retreating"

Promise == INSTANCE DataPlane WITH
  served <- Served, last <- current, goal <- asked, phase <- Phase

Implements == Promise!Spec
=============================================================================
