----------------------------- MODULE HostProofs -----------------------------
(* Proofs about Host, for any builds, panels, domains and certificates. *)
EXTENDS Host, TLAPS

(***************************************************************************)
(* Types.                                                                  *)
(***************************************************************************)

(* What is true or false. *)
Flags ==
  /\ unit \in BOOLEAN /\ enabled \in BOOLEAN /\ active \in BOOLEAN
  /\ cut \in BOOLEAN /\ orphaned \in BOOLEAN

(* No step makes a flag anything but true or false. *)
LEMMA FlagsInv == Flags /\ [Next]_vars => Flags'
<1> SUFFICES ASSUME Flags, [Next]_vars PROVE Flags'
  OBVIOUS
<1> USE DEF Flags, files, service, script, history
<1>1. CASE UNCHANGED vars
  BY <1>1 DEF vars
<1>2. CASE SystemdStarts \/ Crash \/ DeployRestarts \/ Restart
  BY <1>2, Zenon DEF SystemdStarts, Crash, DeployRestarts, Restart, Ends
<1>3. CASE DeployNothing \/ DeployCopies \/ DeployFails
  BY <1>3, Zenon DEF DeployNothing, DeployCopies, DeployFails
<1>4. ASSUME NEW d \in Domains, Renew(d) PROVE Flags'
  BY <1>4, Zenon DEF Renew
<1>5. ASSUME NEW what, NEW p, NEW d, NEW here, Begin(here, what, p, d) PROVE Flags'
  BY <1>5, Zenon DEF Begin
<1>6. ASSUME NEW b, Installed(b) PROVE Flags'
  BY <1>6, Zenon DEF Installed, Placed
<1>7. CASE NoRelease \/ InstallBinaryFails
  BY <1>7, Zenon DEF NoRelease, InstallBinaryFails, Placed
<1>8. CASE TruncateHook \/ WriteHook \/ Certbot \/ Deployed \/ TruncateEnv \/ WriteEnv
  BY <1>8, Zenon DEF TruncateHook, WriteHook, Certbot, Deployed, TruncateEnv,
                     WriteEnv, Writes
<1>9. CASE WriteUnit \/ Enable \/ Stop \/ RemoveUnit
  BY <1>9, Zenon DEF WriteUnit, Enable, Stop, RemoveUnit, Writes
<1>10. CASE RemoveBinary \/ RemoveFiles
  BY <1>10, Zenon DEF RemoveBinary, RemoveFiles, Removed, Ends
<1>11. ASSUME NEW ok \in BOOLEAN, DeleteCert(ok) PROVE Flags'
  BY <1>11, Zenon DEF DeleteCert, Ends
<1>12. CASE Dies \/ Reboot
  BY <1>12, Zenon DEF Dies, Reboot, CutShort
<1> QED
  BY <1>1, <1>2, <1>3, <1>4, <1>5, <1>6, <1>7, <1>8, <1>9, <1>10, <1>11, <1>12
     DEF Next, Install, Upgrade, Remove, InstallRelease, Build, InstallReleaseFails

(* What runs was started from files that work. *)
Runs == proc \in {NoProcess} \cup [build : Builds, panel : Panels, cert : Certs]

(* The other files, and the certificates. *)
Files ==
  /\ binary \in Builds \cup {Missing, Torn}
  /\ env \in Panels \cup {Missing, Torn}
  /\ hook \in Domains \cup {Missing, Torn}
  /\ live \in [Domains -> Nat]
  /\ cert \in Certs

(* The runs of the installer and of the hook. *)
Scripts ==
  /\ deploy \in {"idle", "due", "copied"}
  /\ pc \in Positions
  /\ action \in {"none", "install", "upgrade", "uninstall", "purge"}
  /\ panel \in Panels \cup {Missing} /\ domain \in Domains \cup {Missing}
  /\ given \in Panels \cup {Missing} /\ named \in Domains \cup {Missing}

(* A run of the installer is always somewhere it can be, doing something it
   was asked. *)
LEMMA ScriptsInv == Scripts /\ Files /\ [Next]_vars => Scripts'
<1> SUFFICES ASSUME Scripts, Files, [Next]_vars PROVE Scripts'
  OBVIOUS
<1> USE DEF Scripts, files, service, script, history
<1>1. CASE UNCHANGED vars
  BY <1>1, Zenon DEF vars
<1>2. CASE SystemdStarts \/ Crash
  BY <1>2, Zenon DEF SystemdStarts, Crash
<1>3. CASE DeployNothing \/ DeployCopies \/ DeployFails \/ DeployRestarts
  BY <1>3, Zenon DEF DeployNothing, DeployCopies, DeployFails, DeployRestarts
<1>4. ASSUME NEW d \in Domains, Renew(d) PROVE Scripts'
  BY <1>4, Zenon DEF Renew
<1>5. ASSUME NEW p \in Panels, NEW d \in Domains \cup {Missing}, Install(p, d)
      PROVE  Scripts'
  BY <1>5, Zenon DEF Install, Begin, Goes, Positions
<1>6. CASE Upgrade
  BY <1>6, Zenon DEF Upgrade, Begin, Goes, Positions
<1>7. CASE NoRelease \/ InstallBinaryFails
  BY <1>7, Zenon DEF NoRelease, InstallBinaryFails, Placed, Goes, Idle, Positions
<1>8. ASSUME NEW b, Installed(b) PROVE Scripts'
  BY <1>8, Zenon DEF Installed, Placed, Certify, Positions
<1>9. CASE TruncateHook \/ WriteHook \/ Deployed
  BY <1>9, Zenon DEF TruncateHook, WriteHook, Deployed, Writes, Goes, Positions
<1>10. CASE Certbot
  BY <1>10, Zenon DEF Certbot, Goes, Positions
<1>11. CASE TruncateEnv \/ WriteEnv \/ WriteUnit \/ Enable
  BY <1>11, Zenon DEF TruncateEnv, WriteEnv, WriteUnit, Enable, Writes, Goes, Positions
<1>12. CASE Restart
  BY <1>12, Zenon DEF Restart, Ends, Idle, Positions
<1>13. ASSUME NEW what \in {"uninstall", "purge"}, Remove(what) PROVE Scripts'
  BY <1>13, Zenon DEF Remove, Begin, Goes, Positions
<1>14. CASE Stop \/ RemoveUnit
  BY <1>14, Zenon DEF Stop, RemoveUnit, Writes, Goes, Positions
<1>15. CASE RemoveBinary \/ RemoveFiles
  BY <1>15, Zenon DEF RemoveBinary, RemoveFiles, Removed, Domain, Ends, Idle,
                      Goes, Positions
<1>16. ASSUME NEW ok \in BOOLEAN, DeleteCert(ok) PROVE Scripts'
  BY <1>16, Zenon DEF DeleteCert, Ends, Idle, Positions
<1>17. CASE Dies \/ Reboot
  BY <1>17, Zenon DEF Dies, Reboot, CutShort, Idle, Positions
<1> QED
  BY <1>1, <1>2, <1>3, <1>4, <1>5, <1>6, <1>7, <1>8, <1>9, <1>10, <1>11, <1>12,
     <1>13, <1>14, <1>15, <1>16, <1>17
     DEF Next, InstallRelease, Build, InstallReleaseFails

(* One more certificate for any domain leaves a count for each. *)
LEMMA Counted ==
  ASSUME NEW f \in [Domains -> Nat], NEW d
  PROVE  [f EXCEPT ![d] = @ + 1] \in [Domains -> Nat]
<1>1. CASE d \in Domains
  BY <1>1
<1>2. CASE d \notin Domains
  <2>1. [f EXCEPT ![d] = @ + 1] = f
    BY <1>2
  <2> QED
    BY <2>1
<1> QED
  BY <1>1, <1>2

(* Each file is missing, torn, or what some run wrote. *)
LEMMA FilesInv == Scripts /\ Files /\ [Next]_vars => Files'
<1> SUFFICES ASSUME Scripts, Files, [Next]_vars PROVE Files'
  OBVIOUS
<1> USE DEF Files, Scripts, files, service, script, history
<1>1. CASE UNCHANGED vars
  BY <1>1, Zenon DEF vars
<1>2. CASE SystemdStarts \/ Crash \/ DeployRestarts \/ Restart
  BY <1>2, Zenon DEF SystemdStarts, Crash, DeployRestarts, Restart
<1>3. ASSUME NEW d, Issue(d) PROVE live' \in [Domains -> Nat]
  <2>1. [live EXCEPT ![d] = @ + 1] \in [Domains -> Nat]
    BY Counted
  <2> QED
    BY <1>3, <2>1, Zenon DEF Issue
<1>4. ASSUME NEW d \in Domains, Renew(d) PROVE Files'
  BY <1>3, <1>4, Zenon DEF Renew
<1>5. CASE DeployNothing \/ DeployFails
  BY <1>5, Zenon DEF DeployNothing, DeployFails
<1>6. CASE DeployCopies
  <2>1. cert' \in Certs
    BY <1>6 DEF DeployCopies, Certs
  <2> QED
    BY <1>6, <2>1, Zenon DEF DeployCopies
<1>7. ASSUME NEW what, NEW p, NEW d, NEW here, Begin(here, what, p, d) PROVE Files'
  BY <1>7, Zenon DEF Begin
<1>8. CASE NoRelease
  BY <1>8, Zenon DEF NoRelease
<1>9. ASSUME NEW b \in Builds \cup {Missing, Torn}, Placed(b) PROVE Files'
  BY <1>9, Zenon DEF Placed
<1>10. CASE TruncateHook \/ Deployed
  BY <1>10, Zenon DEF TruncateHook, Deployed, Writes
<1>11. CASE WriteHook
  BY <1>11 DEF WriteHook, Writes, Goes
<1>12. CASE Certbot
  BY <1>3, <1>12, Zenon DEF Certbot
<1>13. CASE TruncateEnv \/ WriteEnv \/ WriteUnit \/ Enable
  BY <1>13, Zenon DEF TruncateEnv, WriteEnv, WriteUnit, Enable, Writes
<1>14. CASE Stop \/ RemoveUnit
  BY <1>14, Zenon DEF Stop, RemoveUnit, Writes
<1>15. CASE RemoveBinary \/ RemoveFiles
  BY <1>15, Zenon DEF RemoveBinary, RemoveFiles, Removed, Certs
<1>16. ASSUME NEW ok \in BOOLEAN, DeleteCert(ok) PROVE Files'
  <2>1. [live EXCEPT ![domain] = 0] \in [Domains -> Nat]
    OBVIOUS
  <2> QED
    BY <1>16, <2>1, Zenon DEF DeleteCert
<1>17. CASE Dies \/ Reboot
  BY <1>17, Zenon DEF Dies, Reboot, CutShort
<1> QED
  BY <1>1, <1>2, <1>4, <1>5, <1>6, <1>7, <1>8, <1>9, <1>10, <1>11, <1>12,
     <1>13, <1>14, <1>15, <1>16, <1>17
     DEF Next, Install, Upgrade, Remove, InstallRelease, Build,
         InstallReleaseFails, InstallBinaryFails, Installed

(* A process is started from files that work, and systemd keeps it up. *)
LEMMA ProcessInv ==
  ASSUME Files, Runs, proc # NoProcess => active, [Next]_vars
  PROVE  Runs' /\ (proc' # NoProcess => active')
<1> USE DEF files, service, script, history
<1>1. ASSUME Started PROVE Runs'
  BY <1>1, HostAssumption DEF Started, Starts, Disk, Runs, Files
<1>2. ASSUME UNCHANGED <<proc, active>> PROVE Runs' /\ (proc' # NoProcess => active')
  BY <1>2, Zenon DEF Runs
<1>3. CASE UNCHANGED vars
  BY <1>2, <1>3, Zenon DEF vars
<1>4. CASE SystemdStarts \/ DeployRestarts \/ Restart
  BY <1>1, <1>4, Zenon DEF SystemdStarts, DeployRestarts, Restart, Runs
<1>5. CASE Crash \/ Stop \/ Reboot
  BY <1>5, Zenon DEF Crash, Stop, Reboot, Runs
<1>6. CASE DeployNothing \/ DeployCopies \/ DeployFails
  BY <1>2, <1>6, Zenon DEF DeployNothing, DeployCopies, DeployFails
<1>7. ASSUME NEW d \in Domains, Renew(d) PROVE UNCHANGED <<proc, active>>
  BY <1>7, Zenon DEF Renew
<1>8. ASSUME NEW what, NEW p, NEW d, NEW here, Begin(here, what, p, d)
      PROVE  UNCHANGED <<proc, active>>
  BY <1>8, Zenon DEF Begin
<1>9. CASE NoRelease \/ Certbot \/ Deployed \/ Enable
  BY <1>2, <1>9, Zenon DEF NoRelease, Certbot, Deployed, Enable
<1>10. ASSUME NEW b, Placed(b) PROVE UNCHANGED <<proc, active>>
  BY <1>10, Zenon DEF Placed
<1>11. CASE TruncateHook \/ WriteHook \/ TruncateEnv \/ WriteEnv \/ WriteUnit
            \/ RemoveUnit
  BY <1>2, <1>11, Zenon
     DEF TruncateHook, WriteHook, TruncateEnv, WriteEnv, WriteUnit, RemoveUnit, Writes
<1>12. CASE RemoveBinary \/ RemoveFiles \/ Dies
  BY <1>2, <1>12, Zenon DEF RemoveBinary, RemoveFiles, Removed, Dies
<1>13. ASSUME NEW ok \in BOOLEAN, DeleteCert(ok) PROVE UNCHANGED <<proc, active>>
  BY <1>13, Zenon DEF DeleteCert
<1> QED
  BY <1>2, <1>3, <1>4, <1>5, <1>6, <1>7, <1>8, <1>9, <1>10, <1>11, <1>12, <1>13
     DEF Next, Install, Upgrade, Remove, InstallRelease, Build,
         InstallReleaseFails, InstallBinaryFails, Installed

(* Together these are the type invariant. *)
LEMMA TypeInv == TypeOK /\ [Next]_vars => TypeOK'
<1> SUFFICES ASSUME TypeOK, [Next]_vars PROVE TypeOK'
  OBVIOUS
<1>1. Flags /\ Files /\ Scripts /\ Runs /\ (proc # NoProcess => active)
  BY Zenon DEF TypeOK, Flags, Files, Scripts, Runs
<1>2. Flags' /\ Files' /\ Scripts' /\ Runs' /\ (proc' # NoProcess => active')
  BY <1>1, FlagsInv, FilesInv, ScriptsInv, ProcessInv
<1> QED
  BY <1>2, Zenon DEF TypeOK, Flags, Files, Scripts, Runs

(* A machine with nothing installed is of its type. *)
LEMMA TypeInit == Init => TypeOK
<1> SUFFICES ASSUME Init PROVE TypeOK
  OBVIOUS
<1>1. live \in [Domains -> Nat]
  BY DEF Init
<1> QED
  BY <1>1, Zenon DEF Init, TypeOK, Certs, Positions

(* Every file, and what is known of it, is of its type; systemd keeps up
   whatever runs. *)
THEOREM TypeCorrect == Spec => []TypeOK
BY TypeInit, TypeInv, PTL DEF Spec

(***************************************************************************)
(* What runs is what is installed.                                         *)
(***************************************************************************)

Removing == {"rm unit", "rm binary", "rm files", "delete"}

(* While nothing was replaced the process is what is on disk; once the service
   was stopped for a removal nothing runs. *)
Agreement ==
  /\ pc \in Untouched /\ ~cut /\ deploy # "copied" /\ proc # NoProcess => proc = Disk
  /\ pc \in Removing => ~active

(* What runs keeps agreeing with the files: every step that replaces one leaves
   the script where it still has to restart the service, or cut. *)
LEMMA AgreementInv == TypeOK /\ Agreement /\ [Next]_vars => Agreement'
<1> SUFFICES ASSUME TypeOK, Agreement, [Next]_vars PROVE Agreement'
  OBVIOUS
<1> USE DEF Agreement, files, service, script, history
<1>0. proc # NoProcess => active
  BY Zenon DEF TypeOK
<1>1. CASE UNCHANGED vars
  BY <1>1, Zenon DEF vars, Disk
<1>2. CASE SystemdStarts \/ Crash
  <2>1. UNCHANGED <<pc, active>>
    BY <1>2, Zenon DEF SystemdStarts, Crash
  <2>2. proc' \in {Disk', NoProcess}
    BY <1>2, Zenon DEF SystemdStarts, Crash, Started, Disk
  <2> QED
    BY <2>1, <2>2, Zenon
<1>3. CASE DeployRestarts
  BY <1>3, <1>0, Zenon DEF DeployRestarts, Started, Disk
<1>4. CASE Restart
  BY <1>4 DEF Restart, Started, Ends, Idle, Disk, Removing
<1>5. ASSUME NEW d \in Domains, Renew(d) PROVE Agreement'
  BY <1>5, Zenon DEF Renew, Issue, Disk
<1>6. CASE DeployNothing \/ DeployCopies \/ DeployFails
  <2>1. UNCHANGED <<pc, active, proc>>
    BY <1>6, Zenon DEF DeployNothing, DeployCopies, DeployFails
  <2>2. CASE DeployNothing
    <3>1. pc' = pc /\ Disk' = Disk /\ deploy # "copied"
      BY <2>2, Zenon DEF DeployNothing, Disk
    <3>2. ~cut' => ~cut
      BY <2>2, Zenon DEF DeployNothing
    <3> QED
      BY <2>1, <3>1, <3>2, Zenon
  <2>3. CASE DeployCopies
    <3>1. pc' = pc /\ deploy' = "copied"
      BY <2>3, Zenon DEF DeployCopies
    <3> QED
      BY <2>1, <3>1, Zenon
  <2>4. CASE DeployFails
    <3>1. pc' = pc /\ cut'
      BY <2>4, Zenon DEF DeployFails
    <3> QED
      BY <2>1, <3>1, Zenon
  <2> QED
    BY <1>6, <2>2, <2>3, <2>4
<1>7. ASSUME NEW p \in Panels, NEW d \in Domains \cup {Missing}, Install(p, d)
      PROVE  Agreement'
  BY <1>7 DEF Install, Begin, Goes, Disk, Untouched, Removing
<1>8. CASE Upgrade
  BY <1>8 DEF Upgrade, Begin, Goes, Disk, Untouched, Removing
<1>9. CASE NoRelease \/ InstallReleaseFails \/ InstallBinaryFails
  BY <1>9 DEF NoRelease, InstallReleaseFails, InstallBinaryFails, Installed,
              Placed, Certify, Goes, Idle, Disk, Untouched, Removing
<1>10. ASSUME NEW b \in Builds, InstallRelease(b) \/ Build(b) PROVE Agreement'
  BY <1>10 DEF InstallRelease, Build, Installed, Placed, Certify, Disk,
               Untouched, Removing
<1>11. CASE TruncateHook \/ WriteHook \/ Certbot \/ Deployed
  BY <1>11 DEF TruncateHook, WriteHook, Certbot, Deployed, Writes, Goes,
               Untouched, Removing
<1>12. CASE TruncateEnv \/ WriteEnv \/ WriteUnit \/ Enable
  BY <1>12 DEF TruncateEnv, WriteEnv, WriteUnit, Enable, Writes, Goes,
               Untouched, Removing
<1>13. ASSUME NEW what \in {"uninstall", "purge"}, Remove(what) PROVE Agreement'
  BY <1>13 DEF Remove, Begin, Goes, Disk, Untouched, Removing
<1>14. CASE Stop \/ RemoveUnit
  <2>1. CASE Stop
    BY <2>1, Zenon DEF Stop
  <2>2. CASE RemoveUnit
    <3>1. pc \in Removing /\ pc' \in Removing /\ pc' \notin Untouched
      BY <2>2, Zenon DEF RemoveUnit, Writes, Goes, Removing, Untouched
    <3>2. UNCHANGED active
      BY <2>2, Zenon DEF RemoveUnit, Writes
    <3> QED
      BY <3>1, <3>2, Zenon
  <2> QED
    BY <1>14, <2>1, <2>2
<1>15. CASE RemoveBinary \/ RemoveFiles
  <2>1. pc \in Removing
    BY <1>15, Zenon DEF RemoveBinary, RemoveFiles, Removed, Goes, Removing
  <2>2. UNCHANGED <<active, proc>>
    BY <1>15, Zenon DEF RemoveBinary, RemoveFiles, Removed
  <2> QED
    BY <1>0, <2>1, <2>2, Zenon
<1>16. ASSUME NEW ok \in BOOLEAN, DeleteCert(ok) PROVE Agreement'
  BY <1>16, <1>0, Zenon DEF DeleteCert, Ends, Idle, Removing
<1>17. CASE Dies \/ Reboot
  BY <1>17 DEF Dies, Reboot, CutShort, Idle, Disk, Untouched, Removing
<1> QED
  BY <1>1, <1>2, <1>3, <1>4, <1>5, <1>6, <1>7, <1>8, <1>9, <1>10, <1>11, <1>12,
     <1>13, <1>14, <1>15, <1>16, <1>17 DEF Next

(* A run that reached its end leaves nothing running but what is installed, and
   so does one that failed before it replaced anything. *)
THEOREM WhatRunsIsInstalled == Spec => []RunsWhatIsInstalled
<1>1. Init => Agreement
  BY DEF Init, Agreement, Removing
<1>2. Agreement => RunsWhatIsInstalled
  BY DEF Agreement, RunsWhatIsInstalled, Untouched
<1> QED
  BY <1>1, <1>2, TypeCorrect, AgreementInv, PTL DEF Spec

(***************************************************************************)
(* Credentials.                                                            *)
(***************************************************************************)

Installing == {"fetch", "build", "hook", "write hook", "certbot", "deploy",
               "env", "write env"}

(* An upgrade carries what it has read back. *)
Carried ==
  /\ CredentialsStay
  /\ action = "upgrade" /\ given # Missing => panel = given
  /\ pc \in Installing => action \in {"install", "upgrade"}

(* No step but the writing of node.env, and a purge, touches what was given. *)
LEMMA CarriedInv == TypeOK /\ Carried /\ [Next]_vars => Carried'
<1> SUFFICES ASSUME TypeOK, Carried, [Next]_vars PROVE Carried'
  OBVIOUS
<1> USE DEF Carried, CredentialsStay, Installing, files, service, script, history
<1>1. CASE UNCHANGED vars
  BY <1>1, Zenon DEF vars
<1>2. CASE SystemdStarts \/ Crash \/ DeployRestarts
  BY <1>2 DEF SystemdStarts, Crash, DeployRestarts
<1>3. ASSUME NEW d \in Domains, Renew(d) PROVE Carried'
  BY <1>3 DEF Renew
<1>4. CASE DeployNothing \/ DeployCopies \/ DeployFails
  BY <1>4 DEF DeployNothing, DeployCopies, DeployFails
<1>5. ASSUME NEW p \in Panels, NEW d \in Domains \cup {Missing}, Install(p, d)
      PROVE  Carried'
  BY <1>5 DEF Install, Begin, Goes
<1>6. CASE Upgrade
  BY <1>6 DEF Upgrade, Begin, Goes
<1>7. CASE NoRelease \/ InstallReleaseFails \/ InstallBinaryFails
  BY <1>7 DEF NoRelease, InstallReleaseFails, InstallBinaryFails, Installed,
              Placed, Certify, Goes, Idle
<1>8. ASSUME NEW b \in Builds, InstallRelease(b) \/ Build(b) PROVE Carried'
  BY <1>8 DEF InstallRelease, Build, Installed, Placed, Certify
<1>9. CASE TruncateHook \/ WriteHook \/ Certbot \/ Deployed
  BY <1>9 DEF TruncateHook, WriteHook, Certbot, Deployed, Writes, Goes
<1>10. CASE TruncateEnv \/ WriteUnit \/ Enable
  BY <1>10 DEF TruncateEnv, WriteUnit, Enable, Writes, Goes
<1>11. CASE WriteEnv
  BY <1>11 DEF WriteEnv, Writes, Goes, TypeOK
<1>12. CASE Restart
  BY <1>12 DEF Restart, Ends, Idle
<1>13. ASSUME NEW what \in {"uninstall", "purge"}, Remove(what) PROVE Carried'
  BY <1>13 DEF Remove, Begin, Goes
<1>14. CASE Stop \/ RemoveUnit
  BY <1>14 DEF Stop, RemoveUnit, Writes, Goes
<1>15. CASE RemoveBinary \/ RemoveFiles
  BY <1>15 DEF RemoveBinary, RemoveFiles, Removed, Ends, Idle, Goes
<1>16. ASSUME NEW ok \in BOOLEAN, DeleteCert(ok) PROVE Carried'
  BY <1>16 DEF DeleteCert, Ends, Idle
<1>17. CASE Dies \/ Reboot
  <2>1. /\ pc' = "idle" /\ action' = "none" /\ UNCHANGED env
        /\ given' = IF pc = "write env" THEN Missing ELSE given
    BY <1>17, Zenon DEF Dies, Reboot, CutShort, Idle
  <2> QED
    BY <2>1
<1> QED
  BY <1>1, <1>2, <1>3, <1>4, <1>5, <1>6, <1>7, <1>8, <1>9, <1>10, <1>11, <1>12,
     <1>13, <1>14, <1>15, <1>16, <1>17 DEF Next

(* What was given to an installation is there for every later --upgrade. *)
THEOREM GivenIsKept == Spec => []CredentialsStay
<1>1. Init => Carried
  BY DEF Init, Carried, CredentialsStay, Installing
<1>2. Carried => CredentialsStay
  BY DEF Carried
<1> QED
  BY <1>1, <1>2, TypeCorrect, CarriedInv, PTL DEF Spec

(***************************************************************************)
(* Certificates.                                                           *)
(***************************************************************************)

(* certbot is run once the hook names the domain. *)
Hooked ==
  /\ CertificatesAreKnown
  /\ pc = "certbot" => hook = named

(* No step takes the hook away from a domain and leaves its certificate. *)
LEMMA HookedInv == TypeOK /\ Hooked /\ [Next]_vars => Hooked'
<1> SUFFICES ASSUME TypeOK, Hooked, [Next]_vars PROVE Hooked'
  OBVIOUS
<1> USE DEF files, service, script, history
<1> DEFINE Kept == UNCHANGED <<hook, live, named, orphaned>>
<1>1. ASSUME Kept, UNCHANGED <<pc, domain>> PROVE Hooked'
  BY <1>1, Zenon DEF Hooked, CertificatesAreKnown
<1>2. ASSUME Kept, pc \notin {"write hook", "delete"}, pc' # "certbot" PROVE Hooked'
  BY <1>2, Zenon DEF Hooked, CertificatesAreKnown
<1> DEFINE Elsewhere == Kept /\ pc \notin {"write hook", "delete"} /\ pc' # "certbot"
<1>3. CASE UNCHANGED vars
  BY <1>1, <1>3, Zenon DEF vars
<1>4. CASE SystemdStarts \/ Crash
  BY <1>1, <1>4, Zenon DEF SystemdStarts, Crash
<1>5. CASE DeployNothing \/ DeployCopies \/ DeployFails \/ DeployRestarts
  BY <1>1, <1>5, Zenon DEF DeployNothing, DeployCopies, DeployFails, DeployRestarts
<1>6. ASSUME NEW d \in Domains, Renew(d) PROVE Hooked'
  <2>1. live[d] > 0 /\ UNCHANGED <<hook, pc, domain, named>> /\ (orphaned => orphaned')
    BY <1>6, Zenon DEF Renew
  <2>2. live' = [live EXCEPT ![d] = @ + 1] /\ live \in [Domains -> Nat]
    BY <1>6, Zenon DEF Renew, Issue, TypeOK
  <2>3. named # Missing => named \in Domains
    BY Zenon DEF TypeOK
  <2>4. named # Missing /\ live'[named] > 0 => live[named] > 0
    BY <2>1, <2>2, <2>3
  <2> QED
    BY <2>1, <2>4, Zenon DEF Hooked, CertificatesAreKnown
<1>7. ASSUME NEW p, NEW d, Install(p, d) PROVE Hooked'
  <2>1. Elsewhere
    BY <1>7, Zenon DEF Install, Begin, Goes
  <2> QED
    BY <1>2, <2>1, Zenon
<1>8. CASE NoRelease \/ Deployed \/ Enable \/ Stop
  <2>1. Elsewhere
    BY <1>8, Zenon DEF NoRelease, Deployed, Enable, Stop, Goes
  <2> QED
    BY <1>2, <2>1, Zenon
<1>9. ASSUME NEW b, pc \in {"fetch", "build"}, Installed(b) PROVE Hooked'
  <2>1. Elsewhere
    BY <1>9, Zenon DEF Installed, Placed, Certify
  <2> QED
    BY <1>2, <2>1, Zenon
<1>10. CASE InstallBinaryFails
  BY <1>2, <1>10, Zenon DEF InstallBinaryFails, Idle, Placed
<1>11. CASE TruncateEnv \/ WriteEnv \/ WriteUnit \/ RemoveUnit
  <2>1. Elsewhere
    BY <1>11, Zenon DEF TruncateEnv, WriteEnv, WriteUnit, RemoveUnit, Writes, Goes
  <2> QED
    BY <1>2, <2>1, Zenon
<1>12. CASE Restart \/ RemoveBinary
  <2>1. Elsewhere
    BY <1>12, Zenon DEF Restart, RemoveBinary, Ends, Idle
  <2> QED
    BY <1>2, <2>1, Zenon
<1>13. CASE TruncateHook
  BY <1>13, Zenon DEF TruncateHook, Writes, Goes, Hooked, CertificatesAreKnown
<1>14. CASE WriteHook
  BY <1>14, Zenon DEF WriteHook, Hooked, CertificatesAreKnown
<1>15. CASE Certbot
  <2>1. hook' = named' /\ pc' # "certbot"
    BY <1>15, Zenon DEF Certbot, Goes, Hooked
  <2> QED
    BY <2>1, Zenon DEF Hooked, CertificatesAreKnown
<1>16. CASE RemoveFiles
  <2>1. pc = "rm files" /\ pc' = "delete" /\ domain' = Domain(hook)
    BY <1>16, Zenon DEF RemoveFiles, Removed, Goes
  <2>2. UNCHANGED <<live, named, orphaned>>
    BY <1>16, Zenon DEF RemoveFiles, Removed
  <2>3. named # Missing => named \in Domains
    BY Zenon DEF TypeOK
  <2> QED
    BY <2>1, <2>2, <2>3, Zenon DEF Hooked, CertificatesAreKnown, Domain
<1>17. ASSUME NEW ok \in BOOLEAN, DeleteCert(ok) PROVE Hooked'
  <2>1. pc = "delete" /\ pc' = "idle" /\ UNCHANGED hook
    BY <1>17, Zenon DEF DeleteCert, Ends, Idle
  <2>2. CASE domain = Missing
    <3>1. UNCHANGED <<live, named, orphaned>>
      BY <1>17, <2>2, Zenon DEF DeleteCert
    <3> QED
      BY <2>1, <2>2, <3>1, Zenon DEF Hooked, CertificatesAreKnown
  <2>3. CASE domain # Missing
    <3>1. named' = Missing \/ orphaned'
      BY <1>17, <2>3, Zenon DEF DeleteCert
    <3> QED
      BY <2>1, <3>1, Zenon DEF Hooked, CertificatesAreKnown
  <2> QED
    BY <2>2, <2>3
<1>18. CASE Dies \/ Reboot
  <2>1. pc' = "idle" /\ UNCHANGED <<hook, live, named>>
    BY <1>18, Zenon DEF Dies, Reboot, CutShort, Idle
  <2>2. orphaned' <=> orphaned \/ pc \in {"write hook", "delete"}
    BY <1>18, Zenon DEF Dies, Reboot, CutShort
  <2> QED
    BY <2>1, <2>2, Zenon DEF Hooked, CertificatesAreKnown
<1>19. ASSUME NEW b \in Builds, InstallRelease(b) \/ Build(b) PROVE Hooked'
  <2>1. pc \in {"fetch", "build"} /\ Installed(b)
    BY <1>19, Zenon DEF InstallRelease, Build
  <2> QED
    BY <1>9, <2>1
<1>20. CASE InstallReleaseFails
  <2>1. pc \in {"fetch", "build"} /\ \E b : Installed(b)
    BY <1>20, Zenon DEF InstallReleaseFails
  <2> QED
    BY <1>9, <2>1
<1>21. CASE Upgrade
  <2>1. Elsewhere
    BY <1>21, Zenon DEF Upgrade, Begin, Goes
  <2> QED
    BY <1>2, <2>1, Zenon
<1>22. ASSUME NEW what, Remove(what) PROVE Hooked'
  <2>1. Elsewhere
    BY <1>22, Zenon DEF Remove, Begin, Goes
  <2> QED
    BY <1>2, <2>1, Zenon
<1> QED
  BY <1>3, <1>4, <1>5, <1>6, <1>7, <1>8, <1>10, <1>11, <1>12, <1>13, <1>14,
     <1>15, <1>16, <1>17, <1>18, <1>19, <1>20, <1>21, <1>22 DEF Next

(* A certificate for the domain last given is one that a purge finds. *)
THEOREM PurgeFindsTheCertificate == Spec => []CertificatesAreKnown
<1>1. Init => Hooked
  BY DEF Init, Hooked, CertificatesAreKnown
<1>2. Hooked => CertificatesAreKnown
  BY DEF Hooked
<1> QED
  BY <1>1, <1>2, TypeCorrect, HookedInv, PTL DEF Spec
=============================================================================
