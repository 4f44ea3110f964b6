-------------------------------- MODULE Host --------------------------------
(***************************************************************************)
(* The machine a node lives on: the installer putting files in place one   *)
(* after the other, systemd keeping a process of what it finds there, and  *)
(* certbot renewing the certificate and restarting the process for it.     *)
(* The installer can fail or be killed at every step, and the machine can  *)
(* go down at any time; the process starts if main and link.New like what  *)
(* they are given, and is started again every few seconds if not.          *)
(*                                                                         *)
(* The toolchain, the build cache, the skysbx shortcut and what a panel on *)
(* the same host would share are left out, and so is preflight, where the  *)
(* run may end (Dies) but changes nothing that is modelled.  The unit is   *)
(* written at once, --upgrade is run without options, and there is one run *)
(* of the installer at a time.                                             *)
(***************************************************************************)
EXTENDS Integers, Functions

CONSTANTS
  Builds,     \* binaries that run, released or compiled
  Panels,     \* panel URLs an operator may give, with a token
  Domains,    \* domains the node may be given
  Missing,    \* a file that is not there
  Torn,       \* one that was not written to its end
  NoProcess,
  MaxCerts    \* bound: certificates issued and not deleted

ASSUME HostAssumption ==
  /\ Panels \subseteq [scheme : {"https", "http", "other"},
                       host : {"localhost", "loopback", "remote"}]
  /\ {Missing, Torn} \cap (Builds \cup Panels \cup Domains) = {}
  /\ MaxCerts \in Nat

VARIABLES
  binary,    \* $ROOT/skysbx-node
  env,       \* $ROOT/node.env, by the panel it names
  unit,      \* the unit file is there
  hook,      \* $ROOT/certbot-deploy.sh, by the domain it names
  cert,      \* the certificate in $ROOT: of which domain, the how manieth
  live,      \* those in /etc/letsencrypt: live[d] were issued; 0 for none
  enabled,   \* the unit is enabled
  active,    \* systemd is to keep the service up
  proc,      \* the process, by the files it was started from
  deploy,    \* where certbot's deploy hook is
  pc, action, panel, domain,   \* the installer: where it is, and what it is for
  (* History that only properties read. *)
  cut,       \* the installer or the hook replaced something and was cut short,
             \* and neither a later run nor a reboot has made up for it
  given,     \* the panel last given to an installation
  named,     \* the domain last given, until its certificate is deleted
  orphaned   \* a run was cut short writing the hook, or cut short or
             \* failed deleting the certificate

files == <<binary, env, unit, hook, cert>>
service == <<enabled, active, proc>>
script == <<pc, action, panel, domain>>
history == <<cut, given, named, orphaned>>
vars == <<files, live, service, deploy, script, history>>

Disk == [build |-> binary, panel |-> env, cert |-> cert]

Certs == {Missing} \cup (Domains \X Nat)

Positions == {"idle", "fetch", "build", "hook", "write hook", "certbot", "deploy",
              "env", "write env", "unit", "enable", "restart",
              "stop", "rm unit", "rm binary", "rm files", "delete"}

(* Types; and systemd keeps up whatever runs. *)
TypeOK ==
  /\ binary \in Builds \cup {Missing, Torn}
  /\ env \in Panels \cup {Missing, Torn}
  /\ unit \in BOOLEAN /\ enabled \in BOOLEAN /\ active \in BOOLEAN
  /\ hook \in Domains \cup {Missing, Torn}
  /\ live \in [Domains -> Nat]
  /\ cert \in Certs
  /\ proc \in {NoProcess} \cup [build : Builds, panel : Panels, cert : Certs]
  /\ proc # NoProcess => active
  /\ deploy \in {"idle", "due", "copied"}
  /\ pc \in Positions
  /\ action \in {"none", "install", "upgrade", "uninstall", "purge"}
  /\ panel \in Panels \cup {Missing} /\ domain \in Domains \cup {Missing}
  /\ cut \in BOOLEAN /\ orphaned \in BOOLEAN
  /\ given \in Panels \cup {Missing} /\ named \in Domains \cup {Missing}

Init ==
  /\ binary = Missing /\ env = Missing /\ unit = FALSE
  /\ hook = Missing /\ cert = Missing /\ live = [d \in Domains |-> 0] /\ deploy = "idle"
  /\ enabled = FALSE /\ active = FALSE /\ proc = NoProcess
  /\ pc = "idle" /\ action = "none" /\ panel = Missing /\ domain = Missing
  /\ cut = FALSE /\ given = Missing /\ named = Missing /\ orphaned = FALSE

-----------------------------------------------------------------------------
(* A process starts. *)

IsLoopback(host) == host \in {"localhost", "loopback"}

New(url) ==
  url.scheme = "https" \/ (url.scheme = "http" /\ IsLoopback(url.host))

(* main exits if the environment names no panel or New refuses it. *)
Starts == binary \in Builds /\ env \in Panels /\ New(env)

Started == proc' = IF Starts THEN Disk ELSE NoProcess

(* Restart=always, and every three seconds until it works. *)
SystemdStarts ==
  /\ active /\ proc = NoProcess /\ Starts
  /\ Started
  /\ UNCHANGED <<files, live, enabled, active, deploy, script, history>>

CrashForGood ==
  /\ proc # NoProcess
  /\ proc' = NoProcess /\ active' = FALSE
  /\ UNCHANGED <<files, live, enabled, deploy, script, history>>

(* The process dies; systemd does not give up on it. *)
Crash ==
  /\ proc # NoProcess
  /\ proc' = NoProcess
  /\ UNCHANGED <<files, live, enabled, active, deploy, script, history>>

-----------------------------------------------------------------------------
(* certbot, and its deploy hook, which copies the certificate of the domain it
   names, whichever was renewed. *)

Room == FoldFunction(+, 0, live) < MaxCerts

Issue(d) ==
  /\ Room
  /\ live' = [live EXCEPT ![d] = @ + 1]

Renew(d) ==
  /\ live[d] > 0 /\ Issue(d)
  /\ deploy = "idle"
  /\ deploy' = "due"
  /\ UNCHANGED <<files, service, script, history>>

(* With no certificate, or no hook any more, there is nothing to do; and it
   may fail. *)
DeployNothing ==
  /\ deploy = "due"
  /\ deploy' = "idle"
  /\ UNCHANGED <<files, live, service, script, history>>

DeployCopies ==
  /\ deploy = "due"
  /\ hook \in Domains /\ live[hook] > 0
  /\ deploy' = "copied"
  /\ cert' = <<hook, live[hook]>>
  /\ UNCHANGED <<binary, env, unit, hook, live, service, script, history>>

(* The key could not be copied: the hook ends there. *)
DeployFails ==
  /\ deploy = "copied"
  /\ deploy' = "idle"
  /\ cut' = TRUE
  /\ UNCHANGED <<files, live, service, script, given, named, orphaned>>

(* The process is restarted for it to read the certificate, if there is one. *)
DeployRestarts ==
  /\ deploy = "copied"
  /\ deploy' = "idle"
  /\ IF proc # NoProcess THEN Started ELSE UNCHANGED proc
  /\ UNCHANGED <<files, live, enabled, active, script, history>>

-----------------------------------------------------------------------------
(* install-node.sh, to install or to upgrade. *)

Goes(here, there) == pc = here /\ pc' = there

Idle ==
  pc' = "idle" /\ action' = "none" /\ panel' = Missing /\ domain' = Missing

Begin(here, what, p, d) ==
  /\ Goes("idle", here)
  /\ action' = what /\ panel' = p /\ domain' = d
  /\ UNCHANGED <<files, live, service, deploy, history>>

Install(p, d) == Begin("fetch", "install", p, d)

(* Panel and token are read back; without them it dies at once. *)
Upgrade == env \in Panels /\ Begin("fetch", "upgrade", env, Missing)

Certify == IF domain = Missing THEN "env" ELSE "hook"

Placed(b) ==
  /\ binary' = b
  /\ UNCHANGED <<env, unit, hook, cert, live, service, deploy>>

(* No release, or no way to get it. *)
NoRelease ==
  /\ Goes("fetch", "build")
  /\ UNCHANGED <<files, live, service, deploy, action, panel, domain, history>>

Installed(b) ==
  pc' = Certify /\ Placed(b) /\ UNCHANGED <<action, panel, domain, history>>

(* A release is there, and is what its checksum says. *)
InstallRelease(b) == pc = "fetch" /\ Installed(b)

(* The release could not be installed: set -e is off inside try_release, so
   the script goes on with whatever is there now. *)
InstallReleaseFails ==
  pc = "fetch" /\ \E b \in {Missing, Torn} : Installed(b)

(* Otherwise the sources are fetched, and compiled. *)
Build(b) == pc = "build" /\ Installed(b)

(* What was compiled could not be, or the script is killed in the middle. *)
InstallBinaryFails ==
  /\ pc \in {"fetch", "build"} /\ Idle
  /\ \E b \in {Missing, Torn} : Placed(b)
  /\ cut' = TRUE /\ UNCHANGED <<given, named, orphaned>>

Writes(here, there) ==
  /\ Goes(here, there)
  /\ UNCHANGED <<binary, cert, live, service, deploy, action, panel, domain, cut>>

(* The shell empties a file before cat writes it. *)
TruncateHook ==
  /\ Writes("hook", "write hook")
  /\ hook' = Torn
  /\ UNCHANGED <<env, unit, given, named, orphaned>>

WriteHook ==
  /\ Writes("write hook", "certbot")
  /\ hook' = domain
  /\ named' = domain /\ orphaned' = FALSE
  /\ UNCHANGED <<env, unit, given>>

(* A failure is a warning; the hook is run either way. *)
Certbot ==
  /\ Goes("certbot", "deploy")
  /\ Issue(domain) \/ UNCHANGED live
  /\ deploy = "idle" /\ deploy' = "due"
  /\ UNCHANGED <<files, service, action, panel, domain, history>>

Deployed ==
  /\ Goes("deploy", "env")
  /\ deploy = "idle"
  /\ UNCHANGED <<files, live, service, deploy, action, panel, domain, history>>

TruncateEnv ==
  /\ Writes("env", "write env")
  /\ env' = Torn
  /\ UNCHANGED <<unit, hook, given, named, orphaned>>

WriteEnv ==
  /\ Writes("write env", "unit")
  /\ env' = panel
  /\ given' = IF action = "install" THEN panel ELSE given
  /\ UNCHANGED <<unit, hook, named, orphaned>>

WriteUnit ==
  /\ Writes("unit", "enable")
  /\ unit' = TRUE
  /\ UNCHANGED <<env, hook, given, named, orphaned>>

Enable ==
  /\ Goes("enable", "restart")
  /\ enabled' = TRUE
  /\ UNCHANGED <<files, live, active, proc, deploy, action, panel, domain,
                 history>>

Ends ==
  /\ Idle
  /\ cut' = FALSE
  /\ UNCHANGED given

StartNow ==
  /\ pc = "restart" /\ Ends
  /\ active' = TRUE
  /\ IF proc = NoProcess THEN Started ELSE UNCHANGED proc
  /\ UNCHANGED <<files, live, enabled, deploy, named, orphaned>>

(* restart, not enable --now. *)
Restart ==
  /\ pc = "restart" /\ Ends
  /\ active' = TRUE /\ Started
  /\ UNCHANGED <<files, live, enabled, deploy, named, orphaned>>

-----------------------------------------------------------------------------
(* install-node.sh, to uninstall or to purge. *)

Remove(what) ==
  what \in {"uninstall", "purge"} /\ Begin("stop", what, Missing, Missing)

StopLater ==
  /\ Goes("stop", "rm unit")
  /\ enabled' = FALSE /\ active' = FALSE
  /\ UNCHANGED <<files, live, proc, deploy, action, panel, domain, history>>

(* systemctl disable --now; there may be no unit, and then nothing runs. *)
Stop ==
  /\ Goes("stop", "rm unit")
  /\ enabled' = FALSE /\ active' = FALSE /\ proc' = NoProcess
  /\ UNCHANGED <<files, live, deploy, action, panel, domain, history>>

RemoveUnit ==
  /\ Writes("rm unit", "rm binary")
  /\ unit' = FALSE
  /\ UNCHANGED <<env, hook, given, named, orphaned>>

RemoveEverything ==
  /\ pc = "rm binary" /\ action = "uninstall" /\ Ends
  /\ binary' = Missing /\ env' = Missing
  /\ UNCHANGED <<unit, hook, cert, live, service, deploy, named, orphaned>>

(* The end of --uninstall: node.env and the certificate stay. *)
RemoveBinary ==
  /\ pc = "rm binary"
  /\ binary' = Missing
  /\ IF action = "uninstall"
       THEN Ends
       ELSE pc' = "rm files" /\ UNCHANGED <<action, panel, domain, cut, given>>
  /\ UNCHANGED <<env, unit, hook, cert, live, service, deploy, named, orphaned>>

Removed ==
  /\ Goes("rm files", "delete")
  /\ env' = Missing /\ cert' = Missing /\ hook' = Missing
  /\ given' = Missing
  /\ UNCHANGED <<binary, unit, live, service, deploy, action, panel, cut, named,
                 orphaned>>

Domain(h) == IF h \in Domains THEN h ELSE Missing

RemoveFilesFirst == Removed /\ domain' = Domain(hook')

(* The domain is read from the hook before it goes. *)
RemoveFiles == Removed /\ domain' = Domain(hook)

(* A failure is ignored. *)
DeleteCert(ok) ==
  /\ pc = "delete" /\ Ends
  /\ IF domain = Missing
       THEN UNCHANGED <<live, named, orphaned>>
       ELSE IF ok
       THEN live' = [live EXCEPT ![domain] = 0] /\ named' = Missing
              /\ UNCHANGED orphaned
       ELSE orphaned' = TRUE /\ UNCHANGED <<live, named>>
  /\ UNCHANGED <<files, service, deploy>>

-----------------------------------------------------------------------------
(* The script fails or is killed at pc, in between two changes. *)
Untouched == {"idle", "fetch", "build", "stop"}

CutShort ==
  /\ given' = IF pc = "write env" THEN Missing ELSE given
  /\ orphaned' = (orphaned \/ pc \in {"write hook", "delete"})
  /\ Idle
  /\ UNCHANGED named

Dies ==
  /\ pc # "idle"
  /\ CutShort
  /\ cut' = (cut \/ pc \notin Untouched)
  /\ UNCHANGED <<files, live, service, deploy>>

(* The machine goes down and comes up again.  What runs from then on was
   started from what is there. *)
Reboot ==
  /\ CutShort /\ cut' = FALSE
  /\ deploy' = "idle"
  /\ proc' = NoProcess
  /\ active' = (enabled /\ unit)
  /\ UNCHANGED <<files, live, enabled>>

-----------------------------------------------------------------------------
Next ==
  \/ SystemdStarts \/ Crash
  \/ \E d \in Domains : Renew(d)
  \/ DeployNothing \/ DeployCopies \/ DeployFails \/ DeployRestarts
  \/ \E p \in Panels, d \in Domains \cup {Missing} : Install(p, d)
  \/ Upgrade
  \/ NoRelease \/ \E b \in Builds : InstallRelease(b) \/ Build(b)
  \/ InstallReleaseFails \/ InstallBinaryFails
  \/ TruncateHook \/ WriteHook \/ Certbot \/ Deployed
  \/ TruncateEnv \/ WriteEnv \/ WriteUnit \/ Enable \/ Restart
  \/ \E what \in {"uninstall", "purge"} : Remove(what)
  \/ Stop \/ RemoveUnit \/ RemoveBinary \/ RemoveFiles
  \/ \E ok \in BOOLEAN : DeleteCert(ok)
  \/ Dies \/ Reboot

Spec == Init /\ [][Next]_vars

(* RestartSec=3, without a limit that three seconds would reach. *)
FairSpec == Spec /\ WF_vars(SystemdStarts)

-----------------------------------------------------------------------------
(* Properties. *)

(* What runs is what is installed: binary, panel and certificate, whatever the
   installer or certbot replaced under a running process, and however often a
   run failed before it replaced anything; and nothing runs of what was
   removed (install-node.sh:441-442, 536-537). *)
RunsWhatIsInstalled ==
  proc # NoProcess /\ pc = "idle" /\ deploy = "idle" /\ ~cut => proc = Disk

(* The panel and the token given to an installation are there for every later
   --upgrade to read back, after upgrades, removals and reboots, until they
   are purged or a run is cut short while writing them
   (install-node.sh:46-50). *)
CredentialsStay ==
  given # Missing /\ pc # "write env" => env = given

(* A certificate issued for the domain the node was last given is one a purge
   finds and deletes, unless its hook was being written, or the certificate
   being deleted, when a run was cut short (install-node.sh:51-53, 126-141). *)
CertificatesAreKnown ==
  named # Missing /\ live[named] > 0 /\ ~orphaned =>
    \/ hook = named
    \/ pc = "write hook"
    \/ pc = "delete" /\ domain = named

(* When a run reached its end and left something that starts, the node is up
   again and again: after a crash, a reboot, or a certificate. *)
ComesUp ==
  pc = "idle" /\ ~cut /\ unit /\ enabled /\ Starts
    ~> proc # NoProcess \/ pc # "idle"
=============================================================================
