-------------------------------- MODULE Link --------------------------------
(***************************************************************************)
(* The control channel: Client.Run opening one session after another, the  *)
(* session's read loop answering the panel's commands, and the report      *)
(* goroutine each session starts and does not wait for.  A session's       *)
(* goroutine may still be inside the engine when the session is over; its  *)
(* context is cancelled by then, but c.ws may already lead to the          *)
(* connection of the next session.                                         *)
(*                                                                         *)
(* c.mu is held across a write and otherwise for an instant, so it is      *)
(* taken when somebody is writing.  The engine decides freely whether its  *)
(* calls fail, and takes as long as it likes.                              *)
(*                                                                         *)
(* The connection is external: a write under a context that is not         *)
(* cancelled closes it when it fails; one under a cancelled context may    *)
(* write the frame or not, and close the connection or not.  Frames arrive *)
(* in order while the connection lasts.                                    *)
(***************************************************************************)
EXTENDS Integers

CONSTANTS
  Sessions,    \* identities of sessions, reused once nothing refers to them
  NoSession,   \* a nil c.ws
  Frames,      \* kinds of frames the panel sends: commands, "other" for one
               \* that is malformed or of an unknown type, and "large" for
               \* one over maxFrame
  Configs,     \* configurations the panel may send
  NoConfig     \* nothing being served, or nothing known of what is

ASSUME LinkAssumption ==
  /\ Frames \subseteq {"config", "users", "ping", "other", "large"}
  /\ NoSession \notin Sessions
  /\ NoConfig \notin Configs

VARIABLES
  ctx,        \* the context given to Run
  pc,         \* where Run, and the session it is in, are
  session,    \* that session; its context is cancelled when it returns
  sending,    \* what it is sending; "hello" until hello was sent
  after,      \* what handle sends after that
  ws,         \* c.ws: whose connection it is
  conn,       \* the connection of the session
  report,     \* report[s]: where the report goroutine of s is
  serving,    \* what the engine serves
  panel       \* the panel's side of the connection

Commands == {"config", "users", "ping"}

Published == {"send", "write", "read", "apply", "update", "withdraw"}
Between == {"start", "wait", "returned"}

(* Nothing sent by the panel that was not read, no command without an answer,
   no configuration tried (tried counts them, up to one), nothing known of what
   is served. *)
NoPanel == [inbox |-> "none", owed |-> 0, tried |-> 0, view |-> NoConfig]

TypeOK ==
  /\ ctx \in {"live", "cancelled"}
  /\ pc \in Between \cup Published \cup {"dial", "publish", "close", "cancel"}
  /\ session \in IF pc \in Between THEN {NoSession} ELSE Sessions
  /\ sending \in {"hello", "reply", "pong", "state"}
  /\ after \in {"nothing", "state"}
  /\ ws = IF pc \in Published THEN session ELSE NoSession
  /\ conn \in {"none", "open", "broken"}
  /\ report \in [Sessions ->
       {"none", "select", "stats", "sendStats", "writeStats", "acknowledge",
        "online", "sample", "sendOnline", "writeOnline", "limits", "store"}]
  /\ serving \in Configs \cup {NoConfig}
  /\ panel \in [inbox : Frames \cup {"none"}, owed : 0..2, tried : 0..1,
                view : Configs \cup {NoConfig}]

what == <<session, sending, after>>
others == <<ctx, report, serving>>
vars == <<pc, what, ws, conn, panel, others>>

Init ==
  /\ ctx = "live"
  /\ pc = "start" /\ session = NoSession
  /\ sending = "hello" /\ after = "nothing"
  /\ ws = NoSession /\ conn = "none"
  /\ report = [s \in Sessions |-> "none"]
  /\ serving = NoConfig
  /\ panel = NoPanel

done == ctx = "cancelled"

Cancelled(s) == done \/ s # session

(* Nobody holds c.mu. *)
Free == pc # "write" /\ \A s \in Sessions :
                          report[s] \notin {"writeStats", "writeOnline"}

(* A write under the context of s returns, well or with an error. *)
WriteReturns(s, ok) ==
  conn' \in CASE Cancelled(s) -> {conn, "broken"}
              [] ok -> {conn}
              [] OTHER -> {"broken"}

Received(ok) == ok /\ conn = "open"

-----------------------------------------------------------------------------
(* Run and session. *)

Goes(here, there) == pc = here /\ pc' = there

Step(here, there) ==
  Goes(here, there) /\ UNCHANGED <<what, ws, conn, panel, others>>

(* A session begins.  Its identity is one nothing refers to any more. *)
Dial(s) ==
  /\ Goes("start", "dial")
  /\ report[s] = "none"
  /\ session' = s
  /\ UNCHANGED <<sending, after, ws, conn, panel, others>>

DialFails == Step("dial", "cancel")

DialOk ==
  /\ Goes("dial", "publish")
  /\ conn' = "open"
  /\ UNCHANGED <<what, ws, panel, others>>

(* c.ws is set, and hello is next. *)
Publish ==
  /\ Free
  /\ Goes("publish", "send")
  /\ ws' = session
  /\ UNCHANGED <<what, conn, panel, others>>

(* send: c.mu is taken. *)
Lock == Free /\ Step("send", "write")

(* The goroutine is started; what was sent does not matter any more. *)
HelloOk ==
  /\ sending = "hello" /\ sending' = "reply"
  /\ Goes("write", "read")
  /\ WriteReturns(session, TRUE)
  /\ report' = [report EXCEPT ![session] = "select"]
  /\ UNCHANGED <<session, after, ws, panel, ctx, serving>>

HelloFails ==
  /\ sending = "hello"
  /\ Goes("write", "withdraw")
  /\ WriteReturns(session, FALSE)
  /\ UNCHANGED <<what, ws, panel, others>>

DeafReadFails == conn = "broken" /\ Step("read", "withdraw")

(* The connection is lost, or nothing came for readTimeout, or a frame over the
   limit; or Run's context was cancelled. *)
ReadFails ==
  /\ conn = "broken" \/ panel.inbox = "large" \/ done
  /\ Step("read", "withdraw")

(* The deferred calls of session, in their order: c.ws is cleared, the
   connection closed, the context cancelled. *)
HoldsOn == Free /\ Step("withdraw", "close")

Withdraw ==
  /\ Free
  /\ Goes("withdraw", "close")
  /\ ws' = NoSession
  /\ UNCHANGED <<what, conn, panel, others>>

CloseConn ==
  /\ Goes("close", "cancel")
  /\ conn' = "none" /\ panel' = NoPanel
  /\ UNCHANGED <<what, ws, others>>

Leave(there) ==
  /\ Goes("cancel", there)
  /\ session' = NoSession /\ sending' = "hello"
  /\ UNCHANGED <<after, ws, conn, panel, others>>

GiveUp == Leave("returned")

(* Back in Run. *)
Cancel == Leave(IF done THEN "returned" ELSE "wait")

(* The backoff, of whatever length, is over, or cut short; when both are so,
   select may choose either. *)
Wait == Step("wait", "start") \/ (done /\ Step("wait", "returned"))

-----------------------------------------------------------------------------
(* handle. *)

Send(frame, then) ==
  /\ pc' = "send"
  /\ sending' = frame
  /\ after' = then

(* A command whose payload does not decode is answered at once. *)
Handle ==
  /\ pc = "read" /\ ~done
  /\ panel.inbox # "none" /\ panel' = [panel EXCEPT !.inbox = "none"]
  /\ \/ panel.inbox = "ping" /\ Send("pong", "nothing")
     \/ panel.inbox \in {"config", "users"} /\ Send("reply", "nothing")
     \/ panel.inbox = "config" /\ pc' = "apply" /\ UNCHANGED <<sending, after>>
     \/ panel.inbox = "users" /\ pc' = "update" /\ UNCHANGED <<sending, after>>
     \/ panel.inbox = "other" /\ UNCHANGED <<pc, sending, after>>
  /\ UNCHANGED <<session, ws, conn, others>>

(* What a failing ApplyConfig leaves: what was served, or nothing; or, if
   nothing was, perhaps the last configuration that had worked. *)
FallsBack ==
  {serving, NoConfig} \cup IF serving = NoConfig THEN Configs ELSE {}

Applied(ok) ==
  /\ pc = "apply"
  /\ serving' \in IF ok THEN Configs ELSE FallsBack
  /\ panel' = [panel EXCEPT !.tried = 1]
  /\ UNCHANGED <<session, ws, conn, ctx, report>>

ApplyQuietly ==
  \E ok \in BOOLEAN :
    Applied(ok) /\ Send("reply", IF ok THEN "nothing" ELSE "state")

(* ApplyConfig, whose insides are module ConfigSwap; State follows the reply
   whether it succeeded or not. *)
Apply == \E ok \in BOOLEAN : Applied(ok) /\ Send("reply", "state")

UpdateQuietly ==
  \/ Step("update", "read")
  \/ /\ pc = "update" /\ Send("reply", "nothing")
     /\ UNCHANGED <<session, ws, conn, panel, others>>

(* UpdateUsers, whose insides are module UserSync. *)
Update ==
  /\ pc = "update"
  /\ Send("reply", "nothing")
  /\ UNCHANGED <<session, ws, conn, panel, others>>

(* The error of a write is ignored: if the connection is gone, Read finds
   out. *)
AnswerReturns(ok) ==
  /\ pc = "write" /\ sending \in {"reply", "pong"}
  /\ WriteReturns(session, ok)
  /\ panel' = [panel EXCEPT !.owed = IF Received(ok) THEN @ - 1 ELSE @]
  /\ IF after = "state" THEN Send("state", "nothing")
                 ELSE pc' = "read" /\ UNCHANGED <<sending, after>>
  /\ UNCHANGED <<session, ws, others>>

StateReturns(ok) ==
  /\ sending = "state"
  /\ Goes("write", "read")
  /\ WriteReturns(session, ok)
  /\ panel' = [panel EXCEPT !.view = IF Received(ok) THEN serving ELSE @]
  /\ UNCHANGED <<what, ws, others>>

-----------------------------------------------------------------------------
(* report, started by session s. *)

At(s, here, next) ==
  /\ report[s] = here
  /\ report' = [report EXCEPT ![s] = next]

Reports(s, here, next) ==
  At(s, here, next) /\ UNCHANGED <<pc, what, ws, conn, panel, ctx, serving>>

NeverEnds(s) == FALSE /\ UNCHANGED vars

(* ctx.Done; with a tick due as well, select may choose either. *)
Ends(s) == Cancelled(s) /\ Reports(s, "select", "none")

Branches == {"stats", "online", "limits"}

Tick(s) == \E branch \in Branches : Reports(s, "select", branch)

FailsForGood(s) == \E branch \in Branches : Reports(s, branch, "none")

(* An engine call fails, or has nothing to report: the next tick tries again. *)
Fails(s) == \E branch \in Branches : Reports(s, branch, "select")

Stats(s) == Reports(s, "stats", "sendStats")

(* The connection table is read under a context of its own, so a session that
   ends does not cut it short. *)
Online(s) == Reports(s, "online", "sample")

(* lastSample: what the last enforcement stored. *)
LastSample(s) == Free /\ Reports(s, "sample", "sendOnline")

(* Under the session's context and without a deadline: nothing but the end of
   the session is sure to make it return. *)
EnforceIPLimits(s) == Reports(s, "limits", "store")

Store(s) == Free /\ Reports(s, "store", "select")

(* send: c.mu is taken, with whatever c.ws holds by now. *)
LockReport(s) ==
  /\ Free /\ ws # NoSession
  /\ \/ Reports(s, "sendStats", "writeStats")
     \/ Reports(s, "sendOnline", "writeOnline")

ChannelDown(s) ==
  /\ Free /\ ws = NoSession
  /\ Reports(s, "sendStats", "none") \/ Reports(s, "sendOnline", "none")

ReportRetries(s, ok) ==
  /\ \/ At(s, "writeStats", IF ok THEN "acknowledge" ELSE "select")
     \/ At(s, "writeOnline", "select")
  /\ WriteReturns(s, ok)
  /\ UNCHANGED <<pc, what, ws, panel, ctx, serving>>

ReportReturns(s, ok) ==
  /\ \/ At(s, "writeStats", IF ok THEN "acknowledge" ELSE "none")
     \/ At(s, "writeOnline", IF ok THEN "select" ELSE "none")
  /\ WriteReturns(s, ok)
  /\ UNCHANGED <<pc, what, ws, panel, ctx, serving>>

StatsReported(s) == Reports(s, "acknowledge", "select")

Report(s) ==
  \/ Ends(s) \/ Tick(s) \/ Fails(s)
  \/ Stats(s) \/ Online(s) \/ LastSample(s) \/ EnforceIPLimits(s) \/ Store(s)
  \/ LockReport(s) \/ ChannelDown(s)
  \/ \E ok \in BOOLEAN : ReportReturns(s, ok)
  \/ StatsReported(s)

-----------------------------------------------------------------------------
(* The outside. *)

(* The panel sends a frame, one more than the node has read; it answers hello
   with the configuration and the users, and goes on as it likes. *)
PanelSends(f) ==
  /\ sending # "hello" /\ conn = "open" /\ panel.inbox = "none"
  /\ pc \notin {"withdraw", "close"}
  /\ panel' = [panel EXCEPT !.inbox = f,
                            !.owed = IF f \in Commands THEN @ + 1 ELSE @]
  /\ UNCHANGED <<pc, what, ws, conn, others>>

Break ==
  /\ conn = "open"
  /\ conn' = "broken"
  /\ UNCHANGED <<pc, what, ws, panel, others>>

(* SIGTERM or an interrupt. *)
Interrupt ==
  /\ ~done
  /\ ctx' = "cancelled"
  /\ UNCHANGED <<pc, what, ws, conn, panel, report, serving>>

-----------------------------------------------------------------------------
Session ==
  \/ \E s \in Sessions : Dial(s)
  \/ DialFails \/ DialOk \/ Publish \/ Lock \/ HelloOk \/ HelloFails
  \/ Handle \/ Apply \/ Update
  \/ \E ok \in BOOLEAN : AnswerReturns(ok) \/ StateReturns(ok)
  \/ ReadFails \/ Withdraw \/ CloseConn \/ Cancel \/ Wait

Next ==
  \/ Session
  \/ \E s \in Sessions : Report(s)
  \/ \E f \in Frames : PanelSends(f)
  \/ Break \/ Interrupt

Spec == Init /\ [][Next]_vars

(* Every goroutine that can run again and again runs: a blocked write and a
   silent read time out, a mutex is granted in the end, and select does not
   overlook a closed channel for ever.  Engine calls return, but of
   EnforceIPLimits that is not assumed before the session is over.  A panel
   dialled again and again is there, and takes hello, now and then. *)
Fairness ==
  /\ SF_vars(Session) /\ SF_vars(DialOk) /\ SF_vars(HelloOk)
  /\ \A s \in Sessions :
       /\ SF_vars((report[s] # "limits" \/ Cancelled(s)) /\ Report(s))
       /\ SF_vars(Ends(s))

FairSpec == Spec /\ Fairness

-----------------------------------------------------------------------------
(* Properties. *)

(* Every command is answered, whether it decoded, worked or failed: when the
   read loop waits for more on a working connection, the only command without
   an answer is the one it has yet to read (link.go:275-277). *)
EverythingIsAnswered ==
  pc = "read" /\ conn = "open" /\ ~done =>
    panel.owed = IF panel.inbox \in Commands THEN 1 ELSE 0

(* The panel knows what a node that tried a configuration serves, after a
   success, a fallback and a loss alike (link.go:299-302). *)
PanelKnows ==
  pc = "read" /\ conn = "open" /\ panel.tried = 1 /\ ~done => panel.view = serving

(* A session does not go on without its report goroutine: whatever failed in
   the engine, reports and the address limits go on for as long as the
   connection works (link.go:336-337). *)
SessionReports ==
  pc \in {"read", "apply", "update"} /\ conn = "open" /\ ~done =>
    report[session] # "none"

(* The node keeps coming back until it is told to stop (link.go:193). *)
KeepsComingBack == []<>(pc = "read" \/ done)

(* Told to stop, Run returns, whatever it was doing. *)
Stops == done ~> pc = "returned"

(* No report goroutine outlives its session for ever, not even one whose
   address enforcement hangs until then. *)
ReportersEnd == \A s \in Sessions : Cancelled(s) ~> report[s] = "none"

(* link.go:336-337: "report pushes traffic and online users on a timer for as
   long as the session lasts", so not on the connection of another. *)
ReportsOnOwnChannel ==
  \A s \in Sessions : report[s] \in {"writeStats", "writeOnline"} => ws = s

(* What the channel does with its report goroutines is what Reports takes it
   to do: one per session, started once, after hello; never a second while a
   session is up. *)
Stage(at) ==
  CASE at \in {"none", "stats"} -> at
    [] at \in {"sendStats", "writeStats"} -> "send"
    [] at = "acknowledge" -> "ack"
    [] OTHER -> "wait"

current == IF sending = "hello" THEN NoSession ELSE session
stage == [s \in Sessions |-> Stage(report[s])]

Life == INSTANCE Reporters

ImplementsReporters == Life!Spec
=============================================================================
