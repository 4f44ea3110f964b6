----------------------------- MODULE LinkProofs -----------------------------
(* Proofs about Link, for any sessions, frames and configurations. *)
EXTENDS Link, TLAPS

USE DEF done

(***************************************************************************)
(* What a step of a report goroutine does.                                 *)
(***************************************************************************)

Stages == {"none", "select", "stats", "sendStats", "writeStats", "acknowledge",
           "online", "sample", "sendOnline", "writeOnline", "limits", "store"}

Writing == {"writeStats", "writeOnline"}

(* It moves, writes only when nobody else does and there is a connection to
   write to, breaks no connection but the one it is writing to, and returns
   only when its session is over, c.ws is cleared, or its write failed. *)
LEMMA ReportStep ==
  ASSUME NEW s \in Sessions, Report(s), report \in [Sessions -> Stages],
         conn \in {"none", "open", "broken"}
  PROVE  /\ UNCHANGED <<pc, session, sending, after, ws, panel, ctx, serving>>
         /\ report[s] # "none"
         /\ report' \in [Sessions -> Stages]
         /\ \A t \in Sessions : t # s => report'[t] = report[t]
         /\ conn' = conn \/ (conn' = "broken" /\ report[s] \in Writing)
         /\ report'[s] \in Writing => Free /\ ws # NoSession
         /\ report'[s] = "none" =>
              Cancelled(s) \/ ws = NoSession \/ conn' = "broken"
<1> USE DEF At, what, others, Stages, Writing
<1>1. CASE Ends(s) \/ Tick(s) \/ Fails(s)
  BY <1>1 DEF Ends, Tick, Fails, Branches, Reports
<1>2. CASE Stats(s) \/ Online(s) \/ LastSample(s) \/ EnforceIPLimits(s) \/ Store(s)
  BY <1>2 DEF Stats, Online, LastSample, EnforceIPLimits, Store, Reports
<1>3. CASE LockReport(s) \/ ChannelDown(s) \/ StatsReported(s)
  BY <1>3 DEF LockReport, ChannelDown, StatsReported, Reports
<1>4. ASSUME NEW ok \in BOOLEAN, ReportReturns(s, ok)
      PROVE  /\ UNCHANGED <<pc, session, sending, after, ws, panel, ctx, serving>>
             /\ report[s] \in Writing
             /\ \E next \in {"acknowledge", "select", "none"} :
                  report' = [report EXCEPT ![s] = next]
             /\ conn' \in {conn, "broken"}
             /\ report'[s] = "none" => Cancelled(s) \/ conn' = "broken"
  <2>1. CASE ok = TRUE
    BY <1>4, <2>1 DEF ReportReturns, WriteReturns
  <2>2. CASE ok = FALSE
    BY <1>4, <2>2 DEF ReportReturns, WriteReturns
  <2> QED
    BY <2>1, <2>2
<1> QED
  BY <1>1, <1>2, <1>3, <1>4 DEF Report

(***************************************************************************)
(* Types.                                                                  *)
(***************************************************************************)

(* Where Run is when there is a connection, what it sends first, and who else may
   write. *)
Wired ==
  /\ pc \in Between \cup {"dial", "publish"} => sending = "hello"
  /\ conn = "none" <=> pc \in Between \cup {"dial", "cancel"}
  /\ conn = "none" => panel = NoPanel
  /\ \A s \in Sessions : report[s] \in Writing => pc \in Published \ {"write"}

(* Commands the panel has sent and the session has not taken up. *)
Waiting == IF panel.inbox \in Commands THEN 1 ELSE 0

(* Commands it has taken up and not answered. *)
Doing == IF \/ pc \in {"apply", "update"}
            \/ pc \in {"send", "write"} /\ sending \in {"reply", "pong"}
           THEN 1 ELSE 0

(* On a working connection every command the panel still expects an answer to is
   one of these; an answer can only get lost once the node was told to stop. *)
Counted ==
  conn = "open" =>
    /\ Waiting + Doing <= panel.owed /\ panel.owed <= Waiting + 1
    /\ ~done => panel.owed = Waiting + Doing

(* Every step keeps every value of its type; that no more than two commands are
   owed an answer needs Counted. *)
LEMMA TypeInv == TypeOK /\ Wired /\ Counted /\ [Next]_vars => TypeOK'
<1> SUFFICES ASSUME TypeOK, Wired, Counted, [Next]_vars PROVE TypeOK'
  OBVIOUS
<1> USE DEF TypeOK, Published, Between, Stages, Goes, what, others
<1>1. CASE UNCHANGED vars
  BY <1>1 DEF vars
<1>2. ASSUME NEW s \in Sessions, Dial(s) PROVE TypeOK'
  BY <1>2 DEF Dial
<1>3. CASE DialFails \/ Lock \/ ReadFails \/ Wait
  BY <1>3 DEF DialFails, Lock, ReadFails, Wait, Step
<1>4. CASE DialOk \/ Publish
  BY <1>4 DEF DialOk, Publish
<1>5. CASE HelloOk
  BY <1>5 DEF HelloOk, WriteReturns
<1>6. CASE HelloFails
  BY <1>6 DEF HelloFails, WriteReturns
<1>7. CASE Handle
  BY <1>7 DEF Handle, Send
<1>8. CASE Apply
  BY <1>8 DEF Apply, Applied, FallsBack, Send
<1>9. CASE Update
  BY <1>9 DEF Update, Send
<1>10. ASSUME NEW ok \in BOOLEAN, AnswerReturns(ok) PROVE TypeOK'
  <2>1. panel' = [panel EXCEPT !.owed = IF Received(ok) THEN @ - 1 ELSE @]
    BY <1>10 DEF AnswerReturns
  <2>2. Received(ok) => panel.owed \in 1..2
    BY <1>10 DEF AnswerReturns, Received, Counted, Waiting, Doing
  <2>3. panel.owed \in 0..2 /\ (Received(ok) => panel.owed - 1 \in 0..2)
    BY <2>2
  <2>4. panel' \in [inbox : Frames \cup {"none"}, owed : 0..2, tried : 0..1,
                    view : Configs \cup {NoConfig}]
    BY <2>1, <2>3
  <2>5. CASE ok = TRUE
    BY <1>10, <2>4, <2>5 DEF AnswerReturns, WriteReturns, Send
  <2>6. CASE ok = FALSE
    BY <1>10, <2>4, <2>6 DEF AnswerReturns, WriteReturns, Send
  <2> QED
    BY <2>5, <2>6
<1>11. ASSUME NEW ok \in BOOLEAN, StateReturns(ok) PROVE TypeOK'
  BY <1>11 DEF StateReturns, WriteReturns, Received
<1>12. CASE Withdraw
  BY <1>12 DEF Withdraw
<1>13. CASE CloseConn
  BY <1>13 DEF CloseConn, NoPanel
<1>14. CASE Cancel
  BY <1>14 DEF Cancel, Leave
<1>15. ASSUME NEW s \in Sessions, Report(s) PROVE TypeOK'
  BY <1>15, ReportStep
<1>16. ASSUME NEW f \in Frames, PanelSends(f) PROVE TypeOK'
  <2>1. panel.owed \in 0..1
    <3>1. conn = "open" /\ Waiting = 0
      BY <1>16 DEF PanelSends, Waiting, Commands
    <3> QED
      BY <3>1 DEF Counted
  <2>2. panel' \in [inbox : Frames \cup {"none"}, owed : 0..2, tried : 0..1,
                    view : Configs \cup {NoConfig}]
    <3>1. panel' = [panel EXCEPT !.inbox = f,
                                 !.owed = IF f \in Commands THEN @ + 1 ELSE @]
      BY <1>16 DEF PanelSends
    <3>2. (IF f \in Commands THEN panel.owed + 1 ELSE panel.owed) \in 0..2
      BY <2>1
    <3> QED
      BY <3>1, <3>2
  <2> QED
    BY <1>16, <2>2 DEF PanelSends
<1>17. CASE Break \/ Interrupt
  BY <1>17 DEF Break, Interrupt
<1> QED
  BY <1>1, <1>2, <1>3, <1>4, <1>5, <1>6, <1>7, <1>8, <1>9, <1>10, <1>11, <1>12,
     <1>13, <1>14, <1>15, <1>16, <1>17 DEF Next, Session

(* Every step keeps the connection, hello and c.mu in step with where Run is. *)
LEMMA WiredInv == TypeOK /\ Wired /\ [Next]_vars => Wired'
<1> SUFFICES ASSUME TypeOK, Wired, [Next]_vars PROVE Wired'
  OBVIOUS
<1> USE DEF TypeOK, Wired, Published, Between, Stages, Writing, Free, Goes, what,
            others
<1>1. CASE UNCHANGED vars
  BY <1>1 DEF vars
<1>2. ASSUME NEW s \in Sessions, Dial(s) PROVE Wired'
  BY <1>2 DEF Dial
<1>3. CASE DialFails \/ Lock \/ ReadFails \/ Wait
  BY <1>3 DEF DialFails, Lock, ReadFails, Wait, Step
<1>4. CASE DialOk \/ Publish
  BY <1>4 DEF DialOk, Publish
<1>5. CASE HelloOk
  BY <1>5 DEF HelloOk, WriteReturns
<1>6. CASE HelloFails
  BY <1>6 DEF HelloFails, WriteReturns
<1>7. CASE Handle
  BY <1>7 DEF Handle, Send
<1>8. CASE Apply
  BY <1>8 DEF Apply, Applied, FallsBack, Send
<1>9. CASE Update
  BY <1>9 DEF Update, Send
<1>10. ASSUME NEW ok \in BOOLEAN, AnswerReturns(ok) PROVE Wired'
  BY <1>10 DEF AnswerReturns, WriteReturns, Received, Send
<1>11. ASSUME NEW ok \in BOOLEAN, StateReturns(ok) PROVE Wired'
  BY <1>11 DEF StateReturns, WriteReturns, Received
<1>12. CASE Withdraw
  BY <1>12 DEF Withdraw
<1>13. CASE CloseConn
  BY <1>13 DEF CloseConn, NoPanel
<1>14. CASE Cancel
  BY <1>14 DEF Cancel, Leave
<1>15. ASSUME NEW s \in Sessions, Report(s) PROVE Wired'
  BY <1>15, ReportStep
<1>16. ASSUME NEW f \in Frames, PanelSends(f) PROVE Wired'
  BY <1>16 DEF PanelSends
<1>17. CASE Break \/ Interrupt
  BY <1>17 DEF Break, Interrupt
<1> QED
  BY <1>1, <1>2, <1>3, <1>4, <1>5, <1>6, <1>7, <1>8, <1>9, <1>10, <1>11, <1>12,
     <1>13, <1>14, <1>15, <1>16, <1>17 DEF Next, Session

(* Every step that reads a command, answers it or loses it keeps the count. *)
LEMMA CountedInv == TypeOK /\ Wired /\ Counted /\ [Next]_vars => Counted'
<1> SUFFICES ASSUME TypeOK, Wired, Counted, [Next]_vars PROVE Counted'
  OBVIOUS
<1> USE DEF TypeOK, Wired, Counted, Waiting, Doing, Commands, Published, Between,
            Stages, Goes, what, others
<1>1. CASE UNCHANGED vars
  BY <1>1 DEF vars
<1>2. ASSUME NEW s \in Sessions, Dial(s) PROVE Counted'
  BY <1>2 DEF Dial
<1>3. CASE DialFails \/ Lock \/ ReadFails \/ Wait
  BY <1>3 DEF DialFails, Lock, ReadFails, Wait, Step
<1>4. CASE DialOk \/ Publish
  <2>1. CASE DialOk
    <3>1. panel' = NoPanel /\ pc' = "publish"
      BY <2>1 DEF DialOk
    <3> QED
      BY <3>1 DEF NoPanel
  <2>2. CASE Publish
    BY <2>2 DEF Publish
  <2> QED
    BY <1>4, <2>1, <2>2
<1>5. CASE HelloOk
  BY <1>5 DEF HelloOk, WriteReturns
<1>6. CASE HelloFails
  BY <1>6 DEF HelloFails, WriteReturns
<1>7. CASE Handle
  BY <1>7 DEF Handle, Send
<1>8. CASE Apply
  BY <1>8 DEF Apply, Applied, FallsBack, Send
<1>9. CASE Update
  BY <1>9 DEF Update, Send
<1>10. ASSUME NEW ok \in BOOLEAN, AnswerReturns(ok) PROVE Counted'
  <2>1. panel' = [panel EXCEPT !.owed = IF Received(ok) THEN @ - 1 ELSE @]
    BY <1>10 DEF AnswerReturns
  <2>2. panel'.inbox = panel.inbox /\ Waiting' = Waiting
    BY <2>1
  <2>3. Doing = 1 /\ Doing' = 0
    BY <1>10 DEF AnswerReturns, Send
  <2>4. conn' = "open" => conn = "open" /\ (ok \/ done)
    BY <1>10 DEF AnswerReturns, WriteReturns, Cancelled
  <2>5. CASE Received(ok)
    <3>1. panel'.owed = panel.owed - 1 /\ conn = "open"
      BY <2>1, <2>5 DEF Received
    <3> QED
      BY <1>10, <2>2, <2>3, <3>1 DEF AnswerReturns
  <2>6. CASE ~Received(ok)
    <3>1. panel'.owed = panel.owed /\ (conn' = "open" => done /\ done')
      BY <1>10, <2>1, <2>4, <2>6 DEF Received, AnswerReturns
    <3> QED
      BY <2>2, <2>3, <2>4, <3>1
  <2> QED
    BY <2>5, <2>6
<1>11. ASSUME NEW ok \in BOOLEAN, StateReturns(ok) PROVE Counted'
  BY <1>11 DEF StateReturns, WriteReturns, Received
<1>12. CASE Withdraw
  BY <1>12 DEF Withdraw
<1>13. CASE CloseConn
  BY <1>13 DEF CloseConn, NoPanel
<1>14. CASE Cancel
  BY <1>14 DEF Cancel, Leave
<1>15. ASSUME NEW s \in Sessions, Report(s) PROVE Counted'
  BY <1>15, ReportStep
<1>16. ASSUME NEW f \in Frames, PanelSends(f) PROVE Counted'
  BY <1>16 DEF PanelSends
<1>17. CASE Break \/ Interrupt
  BY <1>17 DEF Break, Interrupt
<1> QED
  BY <1>1, <1>2, <1>3, <1>4, <1>5, <1>6, <1>7, <1>8, <1>9, <1>10, <1>11, <1>12,
     <1>13, <1>14, <1>15, <1>16, <1>17 DEF Next, Session

(* The three together hold in every reachable state. *)
LEMMA LinkInv == Spec => [](TypeOK /\ Wired /\ Counted)
<1>1. Init => TypeOK /\ Wired /\ Counted
  BY DEF Init, TypeOK, Wired, Counted, Published, Between, NoPanel, Writing
<1>2. TypeOK /\ Wired /\ Counted /\ [Next]_vars => (TypeOK /\ Wired /\ Counted)'
  BY TypeInv, WiredInv, CountedInv
<1> QED
  BY <1>1, <1>2, PTL DEF Spec

(* Every value is of its type, and the panel is never owed more than two
   answers. *)
THEOREM TypeCorrect == Spec => []TypeOK
BY LinkInv, PTL

(* No command is left without an answer on a working connection. *)
THEOREM CommandsAreAnswered == Spec => []EverythingIsAnswered
<1>1. TypeOK /\ Counted => EverythingIsAnswered
  BY DEF TypeOK, Counted, EverythingIsAnswered, Waiting, Doing
<1> QED
  BY <1>1, LinkInv, PTL

(***************************************************************************)
(* What the panel knows.                                                   *)
(***************************************************************************)

(* A state frame is yet to be written. *)
Due ==
  /\ pc \in {"send", "write"}
  /\ sending = "state" \/ (sending = "reply" /\ after = "state")

Told ==
  conn = "open" /\ panel.tried = 1 /\ ~done => panel.view = serving \/ Due

(* A step that changes what is served, or takes the first configuration, leaves
   a state frame due. *)
LEMMA ToldInv == TypeOK /\ Wired /\ Told /\ [Next]_vars => Told'
<1> SUFFICES ASSUME TypeOK, Wired, Told, [Next]_vars PROVE Told'
  OBVIOUS
<1> USE DEF TypeOK, Wired, Told, Due, Between, NoPanel, Stages, Goes, what, others
<1>1. CASE UNCHANGED vars
  BY <1>1 DEF vars
<1>2. ASSUME NEW s \in Sessions, Dial(s) PROVE Told'
  BY <1>2 DEF Dial
<1>3. CASE DialFails \/ Lock \/ ReadFails \/ Wait
  BY <1>3 DEF DialFails, Lock, ReadFails, Wait, Step
<1>4. CASE DialOk \/ Publish
  BY <1>4 DEF DialOk, Publish
<1>5. CASE HelloOk
  BY <1>5 DEF HelloOk, WriteReturns
<1>6. CASE HelloFails
  BY <1>6 DEF HelloFails, WriteReturns
<1>7. CASE Handle
  BY <1>7 DEF Handle, Send
<1>8. CASE Apply
  BY <1>8 DEF Apply, Applied, FallsBack, Send
<1>9. CASE Update
  BY <1>9 DEF Update, Send
<1>10. ASSUME NEW ok \in BOOLEAN, AnswerReturns(ok) PROVE Told'
  <2>1. panel'.tried = panel.tried /\ panel'.view = panel.view
    <3>1. panel' = [panel EXCEPT !.owed = IF Received(ok) THEN @ - 1 ELSE @]
      BY <1>10 DEF AnswerReturns
    <3> QED
      BY <3>1
  <2>2. serving' = serving /\ done' = done /\ (conn' = "open" => conn = "open")
    BY <1>10 DEF AnswerReturns, WriteReturns
  <2>3. Due => Due'
    BY <1>10 DEF AnswerReturns, Send
  <2> QED
    BY <2>1, <2>2, <2>3
<1>11. ASSUME NEW ok \in BOOLEAN, StateReturns(ok) PROVE Told'
  <2>1. conn' = "open" /\ ~done' => Received(ok) /\ serving' = serving
    BY <1>11 DEF StateReturns, WriteReturns, Received, Cancelled
  <2>2. Received(ok) => panel'.view = serving
    BY <1>11 DEF StateReturns
  <2> QED
    BY <2>1, <2>2
<1>12. CASE Withdraw
  BY <1>12 DEF Withdraw
<1>13. CASE CloseConn
  BY <1>13 DEF CloseConn, NoPanel
<1>14. CASE Cancel
  BY <1>14 DEF Cancel, Leave
<1>15. ASSUME NEW s \in Sessions, Report(s) PROVE Told'
  BY <1>15, ReportStep
<1>16. ASSUME NEW f \in Frames, PanelSends(f) PROVE Told'
  BY <1>16 DEF PanelSends
<1>17. CASE Break \/ Interrupt
  BY <1>17 DEF Break, Interrupt
<1> QED
  BY <1>1, <1>2, <1>3, <1>4, <1>5, <1>6, <1>7, <1>8, <1>9, <1>10, <1>11, <1>12,
     <1>13, <1>14, <1>15, <1>16, <1>17 DEF Next, Session

(* Whatever became of the configurations it was sent, a node that is waiting for
   more has told the panel what it serves. *)
THEOREM PanelIsTold == Spec => []PanelKnows
<1>1. Init => Told
  BY DEF Init, Told
<1>2. Told => PanelKnows
  BY DEF Told, Due, PanelKnows
<1> QED
  BY <1>1, <1>2, ToldInv, LinkInv, PTL DEF Spec

(***************************************************************************)
(* Sessions and their report goroutines.                                   *)
(***************************************************************************)

(* The goroutine of a session is there from hello until the connection fails,
   and not before. *)
Attended ==
  /\ pc \in {"read", "apply", "update"} => sending # "hello"
  /\ pc \in Published /\ sending # "hello" /\ conn = "open" /\ ~done =>
       report[session] # "none"
  /\ sending = "hello" /\ session \in Sessions => report[session] = "none"

(* Only a goroutine whose session is over, or whose write failed and broke the
   connection, returns. *)
LEMMA AttendedInv == TypeOK /\ Wired /\ Attended /\ [Next]_vars => Attended'
<1> SUFFICES ASSUME TypeOK, Wired, Attended, [Next]_vars PROVE Attended'
  OBVIOUS
<1> USE DEF TypeOK, Wired, Attended, Published, Between, Stages, Goes, what, others
<1>1. CASE UNCHANGED vars
  BY <1>1 DEF vars
<1>2. ASSUME NEW s \in Sessions, Dial(s) PROVE Attended'
  BY <1>2 DEF Dial
<1>3. CASE DialFails \/ Lock \/ ReadFails \/ Wait
  BY <1>3 DEF DialFails, Lock, ReadFails, Wait, Step
<1>4. CASE DialOk \/ Publish
  BY <1>4 DEF DialOk, Publish
<1>5. CASE HelloOk
  BY <1>5 DEF HelloOk, WriteReturns
<1>6. CASE HelloFails
  BY <1>6 DEF HelloFails, WriteReturns
<1>7. CASE Handle
  BY <1>7 DEF Handle, Send
<1>8. CASE Apply
  BY <1>8 DEF Apply, Applied, FallsBack, Send
<1>9. CASE Update
  BY <1>9 DEF Update, Send
<1>10. ASSUME NEW ok \in BOOLEAN, AnswerReturns(ok) PROVE Attended'
  BY <1>10 DEF AnswerReturns, WriteReturns, Received, Send
<1>11. ASSUME NEW ok \in BOOLEAN, StateReturns(ok) PROVE Attended'
  BY <1>11 DEF StateReturns, WriteReturns, Received
<1>12. CASE Withdraw
  BY <1>12 DEF Withdraw
<1>13. CASE CloseConn
  BY <1>13 DEF CloseConn, NoPanel
<1>14. CASE Cancel
  <2>1. session' = NoSession /\ sending' = "hello" /\ pc' \in {"returned", "wait"}
    BY <1>14 DEF Cancel, Leave
  <2> QED
    BY <2>1, LinkAssumption
<1>15. ASSUME NEW s \in Sessions, Report(s) PROVE Attended'
  BY <1>15, ReportStep, LinkAssumption DEF Cancelled
<1>16. ASSUME NEW f \in Frames, PanelSends(f) PROVE Attended'
  BY <1>16 DEF PanelSends
<1>17. CASE Break \/ Interrupt
  BY <1>17 DEF Break, Interrupt
<1> QED
  BY <1>1, <1>2, <1>3, <1>4, <1>5, <1>6, <1>7, <1>8, <1>9, <1>10, <1>11, <1>12,
     <1>13, <1>14, <1>15, <1>16, <1>17 DEF Next, Session

(* So a session is attended in every reachable state. *)
LEMMA SessionInv == Spec => []Attended
<1>1. Init => Attended
  BY LinkAssumption DEF Init, Attended, Published
<1> QED
  BY <1>1, AttendedInv, LinkInv, PTL DEF Spec

(* A session whose connection works has a goroutine that reports. *)
THEOREM SessionsReport == Spec => []SessionReports
<1>1. Attended => SessionReports
  BY DEF Attended, SessionReports, Published
<1> QED
  BY <1>1, SessionInv, PTL

(***************************************************************************)
(* The channel is what Reports takes it to be.                             *)
(***************************************************************************)

(* What Reporters calls each position of a goroutine. *)
LEMMA Staged ==
  /\ Stage("none") = "none" /\ Stage("select") = "wait" /\ Stage("stats") = "stats"
  /\ Stage("sendStats") = "send" /\ Stage("writeStats") = "send"
  /\ Stage("acknowledge") = "ack"
  /\ \A at \in {"online", "sample", "sendOnline", "writeOnline", "limits", "store"} :
       Stage(at) = "wait"
BY DEF Stage

(* A goroutine that moves moves in Reporters, or stays where it was. *)
LEMMA StageStep ==
  ASSUME report \in [Sessions -> Stages], NEW s \in Sessions, NEW here, NEW next,
         At(s, here, next)
  PROVE  stage[s] = Stage(here) /\ stage' = [stage EXCEPT ![s] = Stage(next)]
BY DEF At, stage

(* Every step of a goroutine is a step of Reporters, or invisible to it. *)
LEMMA LifeReport ==
  ASSUME TypeOK, NEW s \in Sessions, Report(s)
  PROVE  Life!Next \/ UNCHANGED <<current, stage>>
<1>1. report \in [Sessions -> Stages]
  BY DEF TypeOK, Stages
<1>2. UNCHANGED current
  BY <1>1, ReportStep DEF TypeOK, current
<1>3. SUFFICES ASSUME stage' # stage
               PROVE  \/ Life!Tick(s) \/ Life!Nothing(s) \/ Life!Ready(s)
                      \/ Life!Written(s) \/ Life!NotWritten(s)
                      \/ Life!Accepted(s) \/ Life!Returns(s)
  BY <1>2 DEF Life!Next
<1> DEFINE Moves(from, to) == stage[s] = from /\ stage' = [stage EXCEPT ![s] = to]
<1>4. ASSUME NEW here, NEW next, At(s, here, next)
      PROVE  Moves(Stage(here), Stage(next))
  BY <1>1, <1>4, StageStep
<1>5. ASSUME NEW to, Moves(to, to) PROVE FALSE
  BY <1>3, <1>5 DEF stage
<1> HIDE DEF Moves
<1> USE DEF Branches, Reports
<1>6. CASE Ends(s)
  <2>1. Moves("wait", "none")
    BY <1>4, <1>6, Staged DEF Ends
  <2> QED
    BY <1>2, <2>1 DEF Moves, Life!Returns, Life!Moves
<1>7. CASE Tick(s)
  <2>1. Moves("wait", "stats") \/ Moves("wait", "wait")
    BY <1>4, <1>7, Staged DEF Tick
  <2> QED
    BY <1>2, <1>5, <2>1 DEF Moves, Life!Tick, Life!Moves
<1>8. CASE Fails(s)
  <2>1. Moves("stats", "wait") \/ Moves("wait", "wait")
    BY <1>4, <1>8, Staged DEF Fails
  <2> QED
    BY <1>2, <1>5, <2>1 DEF Moves, Life!Nothing, Life!Moves
<1>9. CASE Stats(s)
  <2>1. Moves("stats", "send")
    BY <1>4, <1>9, Staged DEF Stats
  <2> QED
    BY <1>2, <2>1 DEF Moves, Life!Ready, Life!Moves
<1>10. CASE Online(s) \/ LastSample(s) \/ EnforceIPLimits(s) \/ Store(s)
  <2>1. Moves("wait", "wait")
    BY <1>4, <1>10, Staged DEF Online, LastSample, EnforceIPLimits, Store
  <2> QED
    BY <1>5, <2>1
<1>11. CASE LockReport(s)
  <2>1. Moves("send", "send") \/ Moves("wait", "wait")
    BY <1>4, <1>11, Staged DEF LockReport
  <2> QED
    BY <1>5, <2>1
<1>12. CASE ChannelDown(s)
  <2>1. Moves("send", "none") \/ Moves("wait", "none")
    BY <1>4, <1>12, Staged DEF ChannelDown
  <2> QED
    BY <1>2, <2>1 DEF Moves, Life!NotWritten, Life!Returns, Life!Moves
<1>13. ASSUME NEW ok \in BOOLEAN, ReportReturns(s, ok)
       PROVE  Life!Written(s) \/ Life!NotWritten(s) \/ Life!Returns(s)
  <2>1. \/ Moves("send", "ack") \/ Moves("send", "none")
        \/ Moves("wait", "wait") \/ Moves("wait", "none")
    BY <1>4, <1>13, Staged DEF ReportReturns
  <2> QED
    BY <1>2, <1>5, <2>1
       DEF Moves, Life!Written, Life!NotWritten, Life!Returns, Life!Moves
<1>14. CASE StatsReported(s)
  <2>1. Moves("ack", "wait")
    BY <1>4, <1>14, Staged DEF StatsReported
  <2> QED
    BY <1>2, <2>1 DEF Moves, Life!Accepted, Life!Moves
<1> QED
  BY <1>6, <1>7, <1>8, <1>9, <1>10, <1>11, <1>12, <1>13, <1>14 DEF Report

(* So is every other step of the node. *)
LEMMA LifeStep ==
  TypeOK /\ Wired /\ Attended /\ [Next]_vars => [Life!Next]_<<current, stage>>
<1> SUFFICES ASSUME TypeOK, Wired, Attended, [Next]_vars
             PROVE  [Life!Next]_<<current, stage>>
  OBVIOUS
<1> DEFINE Quiet == /\ report' = report /\ session' = session
                    /\ sending = "hello" <=> sending' = "hello"
<1>1. ASSUME Quiet PROVE [Life!Next]_<<current, stage>>
  BY <1>1 DEF current, stage
<1> USE DEF Goes, what, others
<1>2. CASE UNCHANGED vars
  BY <1>1, <1>2 DEF vars
<1>3. ASSUME NEW s \in Sessions, Dial(s) PROVE [Life!Next]_<<current, stage>>
  BY <1>3 DEF Dial, Wired, Between, current, stage
<1>4. CASE DialFails \/ Lock \/ ReadFails \/ Wait
  BY <1>1, <1>4 DEF DialFails, Lock, ReadFails, Wait, Step
<1>5. CASE DialOk \/ Publish \/ HelloFails \/ Withdraw \/ CloseConn
  BY <1>1, <1>5 DEF DialOk, Publish, HelloFails, Withdraw, CloseConn
<1>6. CASE HelloOk
  <2>1. session \in Sessions /\ session # NoSession
    BY <1>6, LinkAssumption DEF HelloOk, TypeOK, Between
  <2>2. current = NoSession /\ current' = session
    BY <1>6 DEF HelloOk, current
  <2>3. At(session, "none", "select")
    BY <1>6, <2>1 DEF HelloOk, At, Attended
  <2>4. stage[session] = "none" /\ stage' = [stage EXCEPT ![session] = "wait"]
    BY <2>1, <2>3, StageStep, Staged DEF TypeOK, Stages
  <2> QED
    BY <2>1, <2>2, <2>4 DEF Life!Next, Life!Begin
<1>7. CASE Handle
  BY <1>1, <1>7 DEF Handle, Send, Attended
<1>8. CASE Apply \/ Update
  BY <1>1, <1>8 DEF Apply, Applied, Update, Send, Attended
<1>9. ASSUME NEW ok \in BOOLEAN, AnswerReturns(ok) \/ StateReturns(ok)
      PROVE  [Life!Next]_<<current, stage>>
  <2>1. CASE AnswerReturns(ok)
    <3>1. sending \in {"reply", "pong"} /\ sending' \in {"state", sending}
      BY <2>1 DEF AnswerReturns, WriteReturns, Received, Send
    <3>2. report' = report /\ session' = session
      BY <2>1 DEF AnswerReturns
    <3> QED
      BY <1>1, <3>1, <3>2
  <2>2. CASE StateReturns(ok)
    BY <1>1, <2>2 DEF StateReturns
  <2> QED
    BY <1>9, <2>1, <2>2
<1>10. CASE Cancel
  <2>1. current' = NoSession /\ stage' = stage
    BY <1>10 DEF Cancel, Leave, current, stage
  <2> QED
    BY <2>1 DEF Life!Next, Life!End
<1>11. ASSUME NEW s \in Sessions, Report(s)
       PROVE  [Life!Next]_<<current, stage>>
  BY <1>11, LifeReport
<1>12. ASSUME NEW f \in Frames, PanelSends(f) PROVE [Life!Next]_<<current, stage>>
  BY <1>1, <1>12 DEF PanelSends
<1>13. CASE Break \/ Interrupt
  BY <1>1, <1>13 DEF Break, Interrupt
<1> QED
  BY <1>2, <1>3, <1>4, <1>5, <1>6, <1>7, <1>8, <1>9, <1>10, <1>11, <1>12, <1>13
     DEF Next, Session

(* Whatever the connections, the engine and the timers do, traffic is reported as
   Reporters says, which is what Reports builds on. *)
THEOREM Refinement == Spec => ImplementsReporters
<1>1. Init => Life!Init
  BY Staged DEF Init, Life!Init, current, stage
<1> QED
  BY <1>1, LifeStep, LinkInv, SessionInv, PTL
     DEF Spec, ImplementsReporters, Life!Spec
=============================================================================
