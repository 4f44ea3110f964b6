# skysbx-node: a verification development

TLA+ modules that model the node program of this repository, TLC
configurations that check them on small instances, and TLAPS proofs of the
results that matter most for every instance. File references are to `src/`.

## 1. Inventory

The node dials a panel over one WebSocket, applies the configuration and the
user lists the panel sends to an embedded sing-box, and reports traffic, online
users and its state back. There is no persistence: everything the node knows it
got from the panel since the process started.

| component | code | state | operations |
|---|---|---|---|
| configuration swap | `internal/engine/engine.go` | `box`, `cancel`, `ctx`, `current`, `running`, `activeTags`, `applyErr`, under `e.mu` | `ApplyConfig`, `swapLocked`, `stopLocked`, `State`, `Close` |
| user synchronisation | `engine.go`, `placeholder.go`, `apis.go` | the inbounds' users, the statistics allowlist, the limits | `UpdateUsers`, `applyUsers`, `syncStatsUsersLocked`, `ensureShadowsocksUsers` |
| metering | `stats.go`, `totals.go` | `counters.reported`, `counters.pending`, sing-box's cumulative counters | `Stats`, `readTotals`, `delta`, `commit`, `StatsReported`, `reset` |
| address limiter | `iplimit.go` | `limits`, `seen` (first and last sight of each address) | `setLimits`, `enforce`, `forget`, `EnforceIPLimits`, `Online` |
| local API addresses | `apis.go` | two reserved loopback ports | `newLocalAPIs`, `override` |
| control channel | `internal/link/link.go` | `ws`, `ipCounts`, `activity` under `c.mu`; the backoff; one context per session | `Run`, `session`, `handle`, `report`, `send` |
| panel URL rules | `link.go` | none | `New`, `isLoopback` |
| wire protocol | `internal/proto/proto.go` | none | `Encode`, the payload types |
| program entry | `cmd/node/main.go` | none | flags, signals, order of shutdown |
| installer | `install.sh`, `deploy/install-node.sh` | binary, unit, environment file on disk | install, upgrade, remove |

Outside the repository, and modelled only as the environment: the panel,
sing-box (a fork: its constructor, `Start`, statistics service, inbounds and
clash API), `coder/websocket`, systemd.

**How they interact.** Two goroutines matter. The *read loop* of a session
handles one frame at a time and calls `ApplyConfig` and `UpdateUsers`. The
*report goroutine* of the session runs three tickers: it reads the totals and
sends them (`Stats`, then `StatsReported` once the write succeeded), it sends
who is online, and it enforces the address limits. They meet in the engine,
whose lock `e.mu` is held throughout an apply and an update but only for the
moment `Stats` and `EnforceIPLimits` copy what they need, in the counters' and
the limiter's own locks, and in `c.mu`, which serialises writers of the socket.
sing-box accepts, counts and closes connections concurrently with all of it.

**What is hard.** An apply landing inside a report; a failure after the old
instance was stopped; a failure half way through a list of inbounds; users that
connect between two halves of an update; samples and readings that are stale
when they are used; reports that fail, or are lost after they were written;
counters that start over; a process that restarts with nothing remembered. The
full list, with lines, is under `hazards` in `PROJECT.json`.

**What makes each part correct.**

- *Metering*: nobody is charged twice, nothing relayed goes unreported, and the
  baseline is the last reading that was reported.
- *Configuration swap*: a configuration takes effect wholly or the previous one
  goes on; no instance, and with it no port, leaks; what is reported as served
  is what is served, and an apply that was rolled back is told from one that
  was not.
- *User synchronisation*: an update carried out leaves the node as its message
  says whatever came before it, one that fails leaves allowlist and limits of one
  message; nobody starts to relay uncounted after it; no inbound becomes unable
  to take users.
- *Address limiter*: no more addresses than allowed keep their connections; an
  address that has its place keeps it; nobody is cut off while a place is free.
- *Control channel*: every command is answered once; a session's goroutines do
  not act on another session; the node keeps coming back; hello comes first.
- *Installer*: what runs is what is installed, or the run that replaced it did
  not reach its end; what was given once is there for every later upgrade; what
  was created is found by a purge; the node comes up again.

## 2. Modules

| module | models | notes |
|---|---|---|
| `Metering` | `counters`, `Stats`, the stats branch of `report` | both goroutines interleaved, the panel and sing-box around them |
| `MeteringProofs` | | TLAPS: every safety property of `Metering` |
| `DataPlane` | | what `ApplyConfig` promises, without instances, locks or steps |
| `ConfigSwap` | `ApplyConfig`, `swapLocked`, `stopLocked`, `State`, `Close` | refines `DataPlane` |
| `ConfigSwapProofs` | | TLAPS: the invariants and the refinement |
| `UserSync`, `MCUserSync` | `UpdateUsers` inbound by inbound, and what a swap does to users | connections open meanwhile |
| `UserSyncProofs` | | TLAPS: every property of `UserSync` |
| `Limiter`, `MCLimiter` | `enforce`, `EnforceIPLimits`, `setLimits`, `forget`, `activity`, `Online` | stale samples, failing closes, what online reports say |
| `LimiterProofs` | | TLAPS: every property of `Limiter` |
| `Link` | `Run`, `session`, `handle`, `report`, `send`, `lastSample` | one session after another, with the goroutines they leave behind; refines `Reporters` |
| `LinkProofs` | | TLAPS: the invariants of `Link`, and the refinement |
| `Reporters` | the life of the report goroutines, seen from billing | what `Link` promises and `Reports` starts from |
| `Reports` | `Metering` with a goroutine per session | composes `Reporters` and `Metering` |
| `ReportsProofs` | | TLAPS: that it is `Metering`, with what is proved of it, until two goroutines meet |
| `Host`, `MCHost` | `install-node.sh`, the unit it writes, the certificate hook, when `main` and `New` give up | systemd, certbot and reboots around them |
| `HostProofs` | | TLAPS: the invariants of `Host` |

The engine is cut along its own seams. `ConfigSwap` has the inside of an apply;
`Metering` and `UserSync` see an apply as one step, which is what it is to
anything that needs `e.mu`: the outcomes they allow (a new instance, the
previous one again, nothing) are those `ConfigSwap` ends in. Parts that touch
the same lock sections (`SetLimits`, `Forget` at the end of an update) appear
in `UserSync` and in `Limiter` with the abstraction each needs.

### 2.1 Metering

`box` is the instance `e.ctx` leads to, `total[i][u]` the counter in the
statistics service of instance `i`, `reported` and `pending` the fields of
`counters`. `pc`, `ctx`, `reading` and `out` are the locals of the report
goroutine: `StatsTick` copies the context under the lock, `ReadTotals` reads
without it, `Delta` runs under the counters' lock, `SendOk` and `SendFails` are
the write, `StatsReported` commits. Between any two of them `ApplyFresh` may
start another instance and reset the counters, `ApplyLost` may leave nothing
running, `Restart` may lose everything, a user may relay (`Relay`), or a counter
may start over because its name left the allowlist and came back
(`DropCounter`).

`relayed`, `written` and `billed` are the three ledgers the properties compare:
what a user moved, what the node counts as reported, what the panel received. The
last two differ both ways. A frame that was written may never be received
(`SendOk`); a frame whose write failed may have been (`SendFails`: the deadline or
the end of the connection came after it had left), and is then repeated by the next
report, since the baseline stays. `doubts` counts those, up to `MaxDoubts`.
`NeverOvercharged` compares `written` with `relayed`, `RepeatedOnlyInDoubt` compares
`billed`: the panel charges twice for nothing but what such a frame held.
`ReportsAreExact` is about the frames that do get through: each brings the account
of the instance it was read from to exactly the reading, also when that instance was
replaced meanwhile, which `BaselineIsWhatWasReported` cannot say of it any more.

Abstractions: a `Usage` is one number, since both directions go through the
same code; a name missing from a reading is a name at zero, as `delta` treats
it; `systemStats` is left out.

One assumption is stated here because the code does not enforce it: one report
goroutine at a time. `Reports` (2.6) is about what that assumption covers.

### 2.2 ConfigSwap and DataPlane

One action per exit and per call in `ApplyConfig` and `swapLocked`: `Begin` or
`RejectUndecoded`; `Build` or `BuildFails`; `Stop`; `StartOk` or `StartFails`;
`Applied`; then for a failure `FailNoRestore`, `CannotDecodePrevious`, or
`BeginRestore` and the same steps again with the previous configuration, ending
in `Restored` or `RestoreFails`. Every external step may fail, in the apply and
in the restoration, any number of times in a row. `built` and `started` are the
instances sing-box holds resources for, whoever still refers to them, so that a
leak is visible. The process may end at any moment (`Restart`).

`verdict` is what the panel was answered to the last configuration that could be
decoded. `ErrorTellsOutcome` compares it with `applyErr`, which travels with the
state: there is an error exactly when that configuration was refused, however many
applies and restorations failed in whatever way before. A configuration that cannot
be decoded is refused too and leaves `applyErr` as it was (section 4).

`DataPlane` is the promise: what is `served`, the `last` configuration that
took effect, and the phases of a call. A configuration may be adopted; or
refused with what was served untouched; or, once service was interrupted, the
node retreats and either serves the last one again or nothing, and answers with
an error in each of those cases. `Implements` maps `ConfigSwap` to it.

### 2.3 UserSync

`Begin` takes a message; `ApplyUsers`, `SkipTag` and `ApplyUsersFails` handle
one tag, in any order since Go iterates a map; then `SyncStatsUsers` (or its
failure), `SetLimits`, `Forget`. Between any two, users connect, disconnect and
are polled by the limiter. A connection is counted if its user was on the
allowlist when it opened. `Swap` gives a fresh instance: placeholder users on
its Shadowsocks inbounds, nobody on the others, an empty allowlist.

`carried` is the allowlist and the limits of the last message that was carried out.
`Converged` says what a completed update leaves. `NoDrift` is about the others: an
update refused part of the way, any number of them in a row, with swaps in between,
leaves the limits of the last completed message, and its allowlist or, after a swap,
none; never one of the two from a newer message. `NobodyRelaysUncounted` is
about what opens once an update is complete. A connection that opens inside one,
after its inbound let the user in and before the allowlist has them, is counted for
nobody and stays so for as long as it lasts.

### 2.4 Limiter

A poll is three stages: `Sample` (an HTTP read, no lock), `Enforce` (the limiter's
lock), one `Close` or `CloseFails` per connection over the cap. Between them clients
open and close connections, a swap drops all of them, and an update replaces the
limits and forgets users. `Refreshed`, `Stale`, `Before` and `Over` are the
parts of `enforce`, in its order: refresh, drop what is stale, rank, cut.

`now` is the time of the last poll. A poll may come any time after the one before,
since none does while there is no session; nothing is forgotten then, and what is
remembered may be older than the grace period until the next poll. No bound on
memory is claimed.

A connection may show no source address (`NoAddress`). `enforce` skips it
(`iplimit.go:90`), so it is in no address count and is never cut; `activity` and
`Online` do count and name it, and so do `Activity` and `Online` here. One without a
user is skipped by all three and left out.

`shown` is what `report` stores of a poll and an online report sends later: the
number of addresses (`Counts`) and of connections (`Activity`) per user, both of
the sample, so of before anything was closed. The names of the report (`Online`)
are read when it is due. `ReportsAgree` says how far the two can be apart: a user
named with no connection in the numbers opened one since the poll's sample (`came`),
and a user in the numbers who is not named had one end since (`went`), by a swap, on
their own, or because that very poll closed it. This is less than the code's
comments have it. `link.go:110-112` says the two cannot disagree, and
`iplimit.go:290-291` that the counts are of the addresses left once the
limit was enforced, but they include those just cut off.

### 2.5 Link

`pc` is where `Run` and the session it is in are; `report[s]` where the report
goroutine of session `s` is, `"none"` once it returned. `ws` is `c.ws`. A write
is two steps, `Lock` (or `LockReport`) and its return, because `c.mu` is held
while it lasts; whoever needs `c.mu` meanwhile, the deferred clearing of `c.ws`
included, waits (`Free`). The end of a session is three steps in the order of
its deferred calls: `Withdraw`, `CloseConn`, `Cancel`. `Handle` reads a frame;
`Apply` and `Update` are the engine's calls, `AnswerReturns` and `StateReturns`
what is sent afterwards, with its errors ignored as the code ignores them.

The connection (`conn`) is open, broken (the kernel still takes frames, nobody
gets them, and sooner or later a read or write fails), or none. `panel` is the
other side of it: the frame it sent that was not read yet, the commands it has no
answer to, and what it was told is served. A frame may also be one over
`maxFrame`, which ends the session, as often as the panel sends it. A write under
a cancelled context, which only a goroutine left behind or a node being stopped
makes, may do anything: the library races it against the cancellation and closes
the connection if the cancellation wins.

Abstractions: the backoff is a wait of any length; of `ipCounts` and `activity`
only the locking is kept, their values are in `Limiter`; a session's identity is
used again once its goroutine has returned, so that the node runs for ever in a
finite model.

### 2.6 Reporters and Reports

`Reporters` forgets everything about the channel but who reports traffic: which
session is `current`, and where each goroutine is in its stats branch. `Link`
implements it (`ImplementsReporters`): a goroutine is started once, after hello,
for a session that is up; it never goes back from a failed send to its select.

`Reports` puts `Metering` on top: the goroutine's locals (`ctx`, `reading`,
`out`) once per session, `counters` and the engine shared by all. Its property
`SoloIsMetering` says that every step is one of `Metering`'s, the locals being
those of the one busy goroutine, as long as no two are in the stats branch
(`Crowded`): sessions that end while their goroutine is measuring, sending or
committing, and goroutines left behind that go on to do so, are all covered. Its
`meetings` counts the times one came there and found another. Until the first `SessionsNeverOvercharge` and
`SessionsKeepBaseline` hold: nobody is charged for more than they relayed by all the
sessions together, and each session goes on from what the earlier ones reported, though
neither its goroutine nor theirs knows of the other. From then on `MeetingsCost` says
what it costs: each meeting may repeat, once, everything a user has relayed, and no
more, wherever in the branch the goroutines were and whichever of their writes fail.
All three are silent once an apply landed inside a `Stats` call. Of the panel's side `Reports`
keeps only what counts as reported (`Single` is `Metering` with `billed <- written`,
`doubts <- 0`): what is received of it is `Metering`'s subject.

What keeps it from being crowded is time alone: a session's first stats tick comes
thirty seconds after it began (`statsEvery`), and whatever its predecessor was
doing has usually ended by then. It has not if that one is waiting for `e.mu`
(`Stats` takes it, `ApplyConfig` holds it throughout, and starting sing-box has no
deadline) or for `c.mu` for that long. Then two readings share one `pending`, and a
commit moves the baseline to the other's; `stats.go:86-88` says of this that there
must be one caller.

### 2.7 Host

One action per change the installer makes to the machine: the binary (a
published release, or what was compiled), the certificate hook, `node.env`, the
unit, `enable`, `restart`; `disable --now`, and the removals in their order.
`Dies` ends the script between any two of them, a write that was cut short leaves
a `Torn` file, and `Reboot` takes the whole machine down; the next run may be any
other. `proc` is the process, recorded by the files it was started from, so that
"the old process beside the new files" can be said. systemd starts it whenever
it is not there (`SystemdStarts`), which works if the binary is whole and `main`
and `New` accept what `node.env` says. certbot issues and renews, for the domain of
an earlier installation as well, and runs the hook, which copies the certificate
of the domain it names and restarts the service, at any point of a run.

`cut` remembers that something was replaced by a run that did not reach its end;
a later run that does, or a reboot, makes up for it. `given` and `named` are what
the operator last gave, which the properties compare the files with.

Abstractions: the certificate and its key are one file; a process that exits at
once was never there; the unit is there or not; `install.sh` only fetches the
repository and calls the script; a `systemctl` call whose failure the script
swallows (`|| true`, `install-node.sh:112` and `448`) is taken to succeed.

Two things no property covers. A release that could not be installed leaves nothing
that can run: `RunsWhatIsInstalled` has no process to compare then, and `ComesUp`
promises one only where there is a whole binary to start. And `node.env` is written in place, so a write that
is cut short loses what was given: `CredentialsStay` says that nothing else does.

## 3. Runs

| run | bounds | shows |
|---|---|---|
| `metering` | 1 user, 2 instances, 2 units per instance, 1 frame in doubt | `NeverOvercharged`, `RepeatedOnlyInDoubt`, `BaselineIsWhatWasReported`, `ReportsAreExact` over every interleaving; `EverythingIsReported` under fairness |
| `metering_twice` | same | finding: an apply inside `Stats` reports an instance's total again |
| `metering_discarded` | same | finding: an apply discards a reading that was to be carried |
| `metering_received` | same | finding: the baseline moves on a write, not on receipt |
| `config_swap` | 3 configurations, 3 instances | all of `ConfigSwap`'s properties and `Implements` |
| `user_sync` | 1 user, 2 inbounds, one of them Shadowsocks | `Converged`, `NoDrift`, `AlwaysReplaceable`, `NobodyRelaysUncounted` |
| `limiter` | 1 user, 3 addresses and none, 2 connections at a time, limits to 2, grace 1, time to 4 | `CapIsEnforced`, `PlacesAreKept`, `CutOnlyWhenFull`, `ReportsAgree` |
| `link` | 2 sessions at once, 2 configurations, every kind of frame | `EverythingIsAnswered`, `PanelKnows`, `SessionReports`, `ImplementsReporters` |
| `link_liveness` | 2 sessions at once, pings and frames too large | `KeepsComingBack`, `Stops`, `ReportersEnd` under fairness |
| `reports` | 2 sessions, 1 user, 2 instances, 1 unit per instance | `SoloIsMetering`; `SessionsNeverOvercharge`, `SessionsKeepBaseline` until two goroutines meet; `MeetingsCost` for 2 meetings |
| `host` | 2 builds, 3 panels (one refused), 2 domains, 2 certificates | `RunsWhatIsInstalled`, `CredentialsStay`, `CertificatesAreKnown`; `ComesUp` under fairness |
| `link_overlap` | as `link` | finding: a report goroutine writes on another session's connection |

**Why the bounds are enough.** *Metering*: users do not interact (`delta`,
`commit` and `reset` treat every name alike), which the proof confirms for any
number of them; two instances are the least with a predecessor and a successor,
two units the least with which a delta can be partly reported, and one frame in doubt
the least with which one is repeated; with two of them the run passes as well. *ConfigSwap*:
two instances are the least with which one can be built while another runs, and the
third is one that leaked beside both; two configurations are the least with which a
fallback differs from what was asked, and the third is one refused before it; the
run has no bound on the number of calls, and the proofs have none at all.
*UserSync*: two tags are the least with which one can fail after the other was
done, and both kinds of inbound are there; the one user may be on either, both
or neither, and counted, limited and remembered independently. The same
configuration with two users passes too, in some more minutes. *Limiter*: three
addresses against limits of one and two give ties, an address over and one in
reserve, since an address keeps its place for a while after its connection ended; two
connections are then enough to be cut or not, and an identity is used again. With three
connections and the time to 3 the run passes too, in some more minutes. Polls up to time
4 with a grace of one give an address time to be seen, kept, forgotten and seen
again, next to polls that are late; users are independent of one another in `enforce`. *Link*: two
sessions are a current one and one left behind; the number of sessions in a row
is not bounded. Three at once, with one configuration, pass too, in some minutes. The
liveness run has pings, and frames that end the session, since what a command does inside the engine makes
no difference to who waits for whom: `Handle`, the two steps of a send and their
failures are all there. *Reports*: two sessions are a current one and one left
behind, and the state of either goroutine is anything the other can meet; one
unit of traffic per instance is enough for a delta to be there or not, the
arithmetic being `Metering`'s, and a second meeting is the least that shows whether
meetings add up. *Host*: two of everything are an old and a new
one, the panels are one for each way `New` decides, the certificates may be two
of one domain or one of each; the number of runs and reboots is not bounded.

`CHECK_DEADLOCK FALSE` is set where a bound stops the system (traffic spent,
last poll done) or the system really ends (`Link`, when `Run` returned).

**Fairness.** `metering`, `link_liveness` and `host` need it. In `Metering`: `WF` of `StatsTick`, `Delta` and
`StatsReported`: a ticker keeps firing and a goroutine that is runnable runs.
`SF` of `ReadTotals` and `SendOk`: reading the totals works again and again, and
a panel that comes back again and again accepts a report now and then. The code
reconnects without end (`Run`), so both are assumptions about the outside, not
about the node. `WF` of `StatsTick` assumes one thing more: the goroutine comes back to
its tickers, so `EnforceIPLimits`, which it runs in between, returns. That is about the
clash API, whose answer nothing in the code bounds (`link.go:385`), and a node on which
it hangs reports nothing until the session ends. No fairness is assumed of applies, restarts or traffic. In `Link`: `SF`
of `Session` and of each `Report`, which says that a goroutine that can run again
and again does: engine calls return, a write ends after 15 seconds and a read after 100, and Go hands a
contended mutex to a waiter in the end. Of `EnforceIPLimits` that is assumed only
once the session is over: its requests have the session's context and no deadline
(`link.go:385`), so a clash API that does not answer holds the goroutine until then. `SF` of `Ends`: `select` picks among
ready channels at random, so it does not overlook `ctx.Done()` for ever. `SF` of
`DialOk` and `HelloOk`: the panel is there, and takes hello, now and then; this
is about the outside, and nothing is assumed of how long a session then lasts.
`Stops` and `ReportersEnd` do not depend on it. In `Host`: `WF` of `SystemdStarts`,
which is `Restart=always` with three seconds between attempts, too slow for
systemd's own limit on starts.

## 4. Findings

Each is the subject of one run that ends in a counterexample.

1. `stats.go:90`: `Stats` lets go of `e.mu` between copying the context and
   measuring against the baseline. A configuration applied in between resets
   the baseline, and everything the old instance ever counted is reported
   again. `NeverOvercharged` and `BaselineIsWhatWasReported` therefore hold
   "unless an apply landed inside a `Stats` call" (`crossed`).
2. `engine.go:172`: an apply resets the counters also when the last reading was
   not yet reported. Since a failed report is followed by a reconnect, on which
   the panel re-sends the configuration, "carried into the next report"
   (`link.go:362-364`) does not come about.
3. `link.go:367`: the baseline moves when the frame was written; the comments in
   `stats.go` speak of its having reached the panel.
4. `link.go:406`: `session` does not wait for the report goroutine it started.
   One that is still inside the engine (`Online` has a context of its own and
   five seconds, the backoff starts at one) finds the next session's connection
   in `c.ws`, writes its report there under a cancelled context, and may close
   it; `c.ws` is set before hello, so the report may even come first. For that
   while, two goroutines are in the stats branch, of which `stats.go:86-88` says
   there may be one.

Noted while modelling, without a run of their own: a configuration that cannot be
decoded sets no `applyErr`, though `engine.go:178-179` calls it the reason the
node differs from what the panel last sent (`ErrorTellsOutcome` is what does
hold); users are let in before the allowlist is refreshed, so a connection may
open that is counted for nobody, and stays so for as long as it lasts; after an
error, more of them may open until the next update (`engine.go:256`;
`NobodyRelaysUncounted` is what holds once an update is complete); the check
that the panel is reachable before anything is built never fails, because curl
prints `000` by itself and the script then adds its own (`install-node.sh:243-245`);
`try_release` runs where `set -e` is off, so a release that cannot be
installed does not fall through to building, as `install-node.sh:290-292` has it,
but goes on without a working binary (`install-node.sh:326`, `InstallReleaseFails`);
a node whose domain was changed keeps the certificate of the earlier one through a
purge, since the hook names one domain; the loopback ports are chosen once per
process, so a port that is lost stays lost until a restart (`apis.go:44`); an
inbound the users message
omits keeps its users while the allowlist drops them (`engine.go:248`; whether
the panel ever omits one is not in this repository); the names and the address
counts of an online report come from different moments, though
`link.go:110-112` says they cannot disagree (`ReportsAgree` is what does hold); a configuration sent again
that fails and falls back to itself leaves `applyErr` set although what is
served is what was asked (`engine.go:104`); an update that fails on its second
inbound has changed the users of the first but not their limits
(`engine.go:257`); the counts `EnforceIPLimits` returns include addresses it
just cut off, though `iplimit.go:290-291` speaks of those left.

## 5. Proofs

The proof modules follow the same pattern: `Init => IInv`,
`IInv /\ [Next]_vars => IInv'` with one step per action, `IInv => Inv`.

**MeteringProofs**, from `MeteringAssumption` alone, for any users (also
infinitely many), instances and traffic.

- `TypeCorrect`: counters, deltas and ledgers stay natural numbers. What needs
  an argument is that a delta is never negative (`SinceBounds`).
- `ChargedAtMostOnce` is `NeverOvercharged`, `BaselineCorrect` is
  `BaselineIsWhatWasReported`, `ChargedAgainOnlyInDoubt` is `RepeatedOnlyInDoubt`.
  None is inductive. `IInv` adds, for every user
  and the instance in question: where the report stands (what has been written
  and what is about to be sums to no more than what was relayed), that the
  baseline and a pending reading are bounded by what the instance counted or its
  counter started over, that instances not started yet have no traffic, and how
  the goroutine's locals relate to the counters at each `pc`. `UserStep` does
  the arithmetic for one user; `TableUpdate`, `RelayEffect`, `DropEffect` and
  `CreditEffect` carry it through the tables.
- `ReportedIsRead` is the action property `ReportsAreExact`. `Exact` is silent about
  an instance that was replaced; `InFlight` is what survives that: once `Delta` has
  run, what is about to be sent settles the account of the instance it was read from.
- `Doubted` is for `RepeatedOnlyInDoubt`: what the panel got is what counts as
  reported and, for each frame in doubt, no more than was relayed by then. The
  product of two variables is beyond the solver in a large step, so the facts about
  it that are needed are a lemma (`Times`).

**ConfigSwapProofs**, from `ConfigSwapAssumption` alone, for any configurations
and instances.

- `IInv` adds to the properties what a call has established at each step
  (`CallState`: the instance it built is not started and holds its target,
  nothing runs while it starts one, a restoration has left an error and its
  target is the current configuration) and that what runs was built from what
  the engine believes (`EngineState`).
- `NothingLeaks`, `StateIsTruthful`, `ErrorIsTrue` and `StaysUp` follow;
  `StaysUp` needs one more inductive conjunct (`Recovers`).
- `Refinement`: `Spec => Implements`. Every action maps to one `DataPlane`
  action or to a stutter (`StepRefines`).

**UserSyncProofs**, from `UserSyncAssumption` alone, for any users and tags.

- `MessageShape`: whoever a message gives to an inbound is on its allowlist,
  which is what the panel sends (external).
- `IInv` says how much of the message is in place at each step of `UpdateUsers`
  (`Progress`), whatever failed or was half done before it began.
- `NothingDrifts` is `NoDrift`: at every step of an update but the one
  between `SyncStatsUsers` and `SetLimits` the allowlist and the limits are those of
  the last message carried out. It is a conjunct of `IInv`.
- `NoneRefuses` is `AlwaysReplaceable`, which is inductive by itself: only a
  swap builds inbounds.
- `UpdateConverges` is `Converged`. `EveryoneIsCounted` is the action property
  `NobodyRelaysUncounted`: only `Connect` opens a connection, its user was let in
  by an inbound the message named, and so is on the allowlist.

**LimiterProofs**, from `LimiterAssumption` alone: addresses and connections are
finite, everything else is arbitrary (the properties it proves are checked by TLC
for at most three addresses and limits to two).

- `BeforeIsStrict`, `LastExists` and `PlacedAreFew` are about the order in which
  places are given: it is strict and total, so the last of those who got a place
  has all the others before it, and there are no more of them than the limit.
  Existence of a last one, and of a first, is by well-foundedness of the subsets of
  a finite set (`SmallestExists`).
- `CutsAreDue` is `CutOnlyWhenFull`. It needs the converse: while an address is over
  the limit, as many as the limit allows have their place (`PlacedAreMany`, from the
  first of those that have none, `FirstExists`); `FullAfter` says it of a poll.
- `Remembered` says what enforce leaves in memory, slot by slot. From it and the
  invariant that whoever holds a place has fewer before it than the limit
  (`Places`), `PlacesAfter` shows that places are kept: those before an address
  after a poll were before it already, since newcomers are first seen now.
- `CapIsEnforced` speaks of the end of a poll. `Capped` is what holds at each
  step before: there are few addresses that cover every connection not still to
  be closed. Whatever opens, leaves or is swapped away meanwhile does not matter.
- `NamesAndNumbers` (`ReportsAgree`) needs `Tracked`: while a poll is under way, every
  open connection is in its sample or of somebody who came since, and every one in the
  sample is open or of somebody who went. `OneSample` takes that to the numbers the poll
  leaves.

**LinkProofs**, from `LinkAssumption` alone, for any sessions (as many left behind
as one likes), configurations and frames.

- `ReportStep` bounds what a step of a report goroutine may do to the rest: it
  writes only while nobody else does, and breaks the connection only while it is
  writing. Everything about the session in `pc` is proved from it once.
- `Wired` relates the connection, hello and `c.mu` to where `Run` is. `Counted` is
  the strengthening of `EverythingIsAnswered`: the commands the panel is owed an
  answer to are those that wait to be read and the one being dealt with. `Told`
  is that of `PanelKnows`: the panel knows what is served, or a state frame is due.
  `Attended` is that of `SessionReports`.
- `Refinement` is `ImplementsReporters`; `StageStep` maps each move.

**ReportsProofs**, from `ReportsAssumption` alone, for any sessions, users and
instances. `OneCaller` is `SoloIsMetering`: whichever goroutine is the busy one, its
locals are Metering's (`SoleIsSeen`, `QuietIsSeen`), and each of its steps is
Metering's step of the same name (`ReportSeen`).

- `Proved` is `MeteringProofs` itself, instanced with those locals, so that its
  lemmas are cited and not proved again: `Apart` is its invariant until two
  goroutines meet, and no step breaks that, since only a tick brings a goroutine into
  the branch and `meetings` counts whom it finds there (`Noticed`). `SessionsChargeAtMostOnce` and
  `SessionsGoOnFromBaseline` are the invariants of the run.
- `NeverMeetingIsMetering`: a behaviour in which no two ever meet is one of
  `Metering`, with all its sessions. `LivesAsPromised`: whether or not they meet,
  they come and go as `Reporters` says.

With `LinkProofs`' `Refinement` this is what connects the sessions of the channel to
billing: `Link` starts and ends goroutines as `Reporters` says, `Reports` is
`Reporters` with their effects, and is `Metering` until two of them meet.

**HostProofs**, from `HostAssumption` alone, for any builds, panels, domains and certificates.

- `Agreement`: what runs is what is on disk unless the script is past the first
  replacement, or was cut short there; and nothing runs while it removes.
- `Carried`: an upgrade carries what it read back, so writing `node.env` again
  writes what was given. `Hooked`: certbot is run once the hook names the domain,
  and a purge leaves the hook until it has read it.

**Only model-checked**: `MeetingsCost`, of which the plan has a sketch of a proof;
`EverythingIsReported`, `KeepsComingBack`, `Stops`, `ReportersEnd` and `ComesUp`, being
liveness under fairness, which is out of the prover's reach; and the findings, each of
which a counterexample shows. Every other invariant, action property and refinement of
the passing runs is also proved.

## 6. Plan

What could be added, in order of importance:

1. A proof of `MeetingsCost`, which is about what happens while two goroutines are busy.
   For one user and one instance, what is written and what every goroutine in
   the branch may still add stays below `1 + meetings` times what was relayed: a
   goroutine that measures alone adds what is above the baseline; each one more that
   is there has been a meeting, which pays for one reading measured from a baseline
   that another's commit moved back. The invariant has to count the goroutines at each
   place of the branch, so it needs sums over finite sets.
2. Metering and `UserSync` together: the counter that starts over (`DropCounter`) is
   an input of `Metering` and a consequence of `SyncStatsUsers` in `UserSync`.
3. The panel's side as a component: it re-sends configuration and users on every
   hello, which `Link`, `ConfigSwap` and `UserSync` allow but do not require.

## 7. Not modelled, and why

- Host statistics, the activity summary's peers and ports, versions and logging:
  values that are shown and nothing depends on.
- JSON encoding and framing: no state; what a payload says is modelled where it
  is used. What cannot be decoded, or is too large, is an input of its own.
- The parsing of sing-box's configuration, its TLS, its protocols: external.
- Reserving the loopback ports (`apis.go:23-47`): done once, before there is anything
  to interact with, and which ports are free is the kernel's business. What follows
  from it, an apply that fails, is `StartFails` of `ConfigSwap`.
- The length of the backoff: a wait of any length in `Link`. How it grows, and that
  it is never reset (`link.go:194-219`), makes no difference to any property there.
- The toolchain, the build cache, downloads and the `skysbx` shortcut of the
  installer: they leave nothing that the node or a later run depends on.
- The release workflow and the build files: not part of the running system.
