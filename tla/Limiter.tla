------------------------------ MODULE Limiter -------------------------------
(***************************************************************************)
(* The cap on distinct source addresses per user: limiter.enforce on a     *)
(* timer, between a sample of the connection table taken before it and     *)
(* the connections it asks sing-box to close after it, while the read loop *)
(* replaces the limits and forgets users, and clients come and go.         *)
(*                                                                         *)
(* The sample is read over HTTP without a lock, so it may be stale by the  *)
(* time enforce looks at it.  What a poll found out is kept, and sent later *)
(* with the names of who is online by then.                                *)
(*                                                                         *)
(* A read of the connection table that fails leaves everything as it was.  *)
(* A connection without a source address counts as activity and makes its  *)
(* user online, but is neither limited nor in the address counts.  One     *)
(* without a user is skipped by all of the code and left out here.  Of a   *)
(* user's activity the number of connections is kept.                      *)
(***************************************************************************)
EXTENDS Integers, FiniteSets

CONSTANTS
  Users,
  Addresses,   \* source addresses: numbers, for the order that breaks ties
  NoAddress,   \* the source of a connection that shows none
  ConnIds,     \* identities of connections, reused when nobody refers to them
  Grace,       \* ipGrace
  MaxLimit,    \* bound: the highest limit
  MaxTime      \* bound: the time of the last poll

ASSUME LimiterAssumption ==
  /\ Addresses \subseteq Nat /\ IsFiniteSet(Addresses) /\ IsFiniteSet(ConnIds)
  /\ NoAddress \notin Addresses
  /\ Grace \in Nat /\ MaxLimit \in Nat /\ MaxTime \in Nat

VARIABLES
  now,       \* the time of the last poll
  conns,     \* conns[id]: user and address of each open connection
  limits,    \* limiter.limits; 0 for no entry
  seen,      \* limiter.seen: seen[u][address], first and last seen when
  pc,        \* where EnforceIPLimits is
  sample,    \* the connections it read
  toClose,   \* those it still has to close
  shown,     \* shown[u]: addresses and connections of u as last stored
  upc,       \* where UpdateUsers is
  known,     \* the names on the message it is carrying out
  (* History that only properties read. *)
  holders,   \* holders[u]: addresses within the limit at the last poll, with
             \* no lower limit set and u not forgotten since
  missed,    \* connections it could not close
  capped,    \* the limits this poll enforced
  came,      \* users who opened a connection since the last sample
  went       \* users of whom one ended since then, however it did

poll == <<now, pc, sample, toClose, shown, missed, capped>>
update == <<upc, known>>
moves == <<came, went>>
vars == <<now, conns, limits, seen, pc, sample, toClose, shown, upc, known,
          holders, missed, capped, came, went>>

Conn == [user : Users, ip : Addresses \cup {NoAddress}]
Slot == [first : 0..MaxTime, last : 0..MaxTime]
PartialFns(D, R) == UNION {[S -> R] : S \in SUBSET D}
None == [x \in {} |-> {}]
NoLimits == [u \in Users |-> 0]

TypeOK ==
  /\ now \in 0..MaxTime
  /\ DOMAIN conns \subseteq ConnIds /\ \A i \in DOMAIN conns : conns[i] \in Conn
  /\ limits \in [Users -> 0..MaxLimit]
  /\ \A u \in Users :
       /\ DOMAIN seen[u] \subseteq Addresses
       /\ \A a \in DOMAIN seen[u] :
            seen[u][a] \in Slot /\ seen[u][a].first <= seen[u][a].last
  /\ pc \in {"wait", "sampled", "closing"}
  /\ DOMAIN sample \subseteq ConnIds /\ \A i \in DOMAIN sample : sample[i] \in Conn
  /\ toClose \subseteq DOMAIN sample
  /\ shown \in [Users -> [ips : 0..Cardinality(Addresses),
                          conns : 0..Cardinality(ConnIds)]]
  /\ upc \in {"idle", "forget"}
  /\ known \subseteq Users
  /\ \A u \in Users : holders[u] \subseteq Addresses
  /\ missed \subseteq DOMAIN sample
  /\ capped \in [Users -> 0..MaxLimit]
  /\ came \subseteq Users /\ went \subseteq Users

Init ==
  /\ now = 0 /\ conns = None
  /\ limits = NoLimits /\ seen = [u \in Users |-> None]
  /\ pc = "wait" /\ sample = None /\ toClose = {}
  /\ shown = [u \in Users |-> [ips |-> 0, conns |-> 0]]
  /\ upc = "idle" /\ known = Users
  /\ holders = [u \in Users |-> {}] /\ missed = {} /\ capped = NoLimits
  /\ came = {} /\ went = {}

-----------------------------------------------------------------------------
(* Clients, and sing-box on their behalf. *)

Without(f, S) == [x \in DOMAIN f \ S |-> f[x]]

(* The connections S, those of them that are open, come to an end. *)
End(S) ==
  /\ conns' = Without(conns, S)
  /\ went' = went \cup {conns[i].user : i \in S \cap DOMAIN conns}
  /\ UNCHANGED came

Open(i, u, a) ==
  /\ i \notin DOMAIN conns \cup DOMAIN sample
  /\ conns' = [x \in DOMAIN conns \cup {i} |->
                 IF x = i THEN [user |-> u, ip |-> a] ELSE conns[x]]
  /\ came' = came \cup {u}
  /\ UNCHANGED <<went, limits, seen, poll, update, holders>>

Leave(i) ==
  /\ i \in DOMAIN conns
  /\ End({i})
  /\ UNCHANGED <<limits, seen, poll, update, holders>>

(* A configuration is applied: every connection drops. *)
Swap ==
  /\ conns # None
  /\ End(DOMAIN conns)
  /\ UNCHANGED <<limits, seen, poll, update, holders>>

-----------------------------------------------------------------------------
(* EnforceIPLimits. *)

(* The connection table, read from the clash API.  With nothing running it is
   empty, and enforce goes on from there. *)
Sample ==
  /\ pc = "wait" /\ now < MaxTime
  /\ pc' = "sampled"
  /\ sample' = conns /\ came' = {} /\ went' = {}
  /\ UNCHANGED <<now, toClose, shown, missed, capped, conns, limits, seen,
                 update, holders>>

Of(u, table) == {i \in DOMAIN table : table[i].user = u}

Live(u) == {sample[i].ip : i \in Of(u, sample)} \ {NoAddress}

RefreshedAnew(u, t) ==
  [a \in DOMAIN seen[u] \cup Live(u) |->
     IF a \in Live(u) THEN [first |-> t, last |-> t] ELSE seen[u][a]]

RefreshedHalf(u, t) ==
  [a \in DOMAIN seen[u] \cup Live(u) |->
     IF a \in DOMAIN seen[u]
       THEN [seen[u][a] EXCEPT !.last = IF a \in Live(u) THEN t ELSE @]
       ELSE [first |-> t, last |-> 0]]

(* What is live is refreshed before anything is decided. *)
Refreshed(u, t) ==
  [a \in DOMAIN seen[u] \cup Live(u) |->
     IF a \in Live(u)
       THEN [first |-> IF a \in DOMAIN seen[u] THEN seen[u][a].first ELSE t,
             last  |-> t]
       ELSE seen[u][a]]

Stale(slots, t) == {a \in DOMAIN slots : t - slots[a].last > Grace}

Before(slots, a, b) ==
  \/ slots[a].first < slots[b].first
  \/ slots[a].first = slots[b].first /\ a < b

OverByOne(slots, limit) ==
  {a \in DOMAIN slots :
     limit > 0 /\ Cardinality({b \in DOMAIN slots : Before(slots, b, a)}) > limit}

OverTooSoon(slots, limit) ==
  {a \in DOMAIN slots :
     limit > 0 /\ Cardinality({b \in DOMAIN slots : Before(slots, b, a)}) + 1 >= limit}

(* The addresses left after the first limit in order of appearance. *)
Over(slots, limit) ==
  {a \in DOMAIN slots :
     limit > 0 /\ Cardinality({b \in DOMAIN slots : Before(slots, b, a)}) >= limit}

(* Polls do not come at a fixed interval: none does while there is no session. *)
Enforce ==
  /\ pc = "sampled"
  /\ pc' = "closing"
  /\ now' \in (now + 1)..MaxTime
  /\ seen' = [u \in Users |->
                Without(Refreshed(u, now'), Stale(Refreshed(u, now'), now'))]
  /\ LET over == [u \in Users |-> Over(seen'[u], limits[u])]
     IN  /\ toClose' = {i \in DOMAIN sample :
                          sample[i].ip \in over[sample[i].user]}
         /\ holders' = [u \in Users |-> DOMAIN seen'[u] \ over[u]]
  /\ missed' = {} /\ capped' = limits
  /\ UNCHANGED <<sample, shown, moves, conns, limits, update>>

Close(i) ==
  /\ pc = "closing" /\ i \in toClose
  /\ toClose' = toClose \ {i}
  /\ End({i})
  /\ UNCHANGED <<now, pc, sample, shown, missed, capped, limits, seen, update,
                 holders>>

(* Logged, and left for the next poll. *)
CloseFails(i) ==
  /\ pc = "closing" /\ i \in toClose
  /\ toClose' = toClose \ {i}
  /\ missed' = missed \cup {i}
  /\ UNCHANGED <<now, pc, sample, shown, capped, moves, conns, limits, seen,
                 update, holders>>

(* Distinct addresses, those over the limit included. *)
Counts(u) == Cardinality(Live(u))

ActivityOfAddresses(u) ==
  Cardinality({i \in Of(u, sample) : sample[i].ip # NoAddress})

(* From the same sample, so from before anything was closed. *)
Activity(u) == Cardinality(Of(u, sample))

(* Back in report, which stores what it was given. *)
EnforceReturns ==
  /\ pc = "closing" /\ toClose = {}
  /\ pc' = "wait"
  /\ shown' = [u \in Users |-> [ips |-> Counts(u), conns |-> Activity(u)]]
  /\ sample' = None /\ missed' = {} /\ capped' = NoLimits
  /\ UNCHANGED <<now, toClose, moves, conns, limits, seen, update,
                 holders>>

(* The names of an online report, read again when it is due. *)
Online == {conns[i].user : i \in DOMAIN conns}

-----------------------------------------------------------------------------
(* The end of UpdateUsers, one lock section after the other. *)

SetLimits(l, names) ==
  /\ upc = "idle"
  /\ upc' = "forget"
  /\ limits' = l /\ known' = names
  /\ holders' = [u \in Users |->
                   IF l[u] = 0 \/ (limits[u] > 0 /\ l[u] >= limits[u])
                     THEN holders[u] ELSE {}]
  /\ UNCHANGED <<conns, seen, moves, poll>>

Forget ==
  /\ upc = "forget"
  /\ upc' = "idle" /\ known' = Users
  /\ seen' = [u \in Users |-> IF u \in known THEN seen[u] ELSE None]
  /\ holders' = [u \in Users |-> IF u \in known THEN holders[u] ELSE {}]
  /\ UNCHANGED <<conns, limits, moves, poll>>

-----------------------------------------------------------------------------
Next ==
  \/ \E i \in ConnIds, u \in Users, a \in Addresses \cup {NoAddress} : Open(i, u, a)
  \/ \E i \in ConnIds : Leave(i) \/ Close(i) \/ CloseFails(i)
  \/ Swap
  \/ Sample \/ Enforce \/ EnforceReturns
  \/ \E l \in [Users -> 0..MaxLimit], names \in SUBSET Users : SetLimits(l, names)
  \/ Forget

Spec == Init /\ [][Next]_vars

-----------------------------------------------------------------------------
(* Properties. *)

(* An address that had its place at one poll has it at the next, whoever else
   turned up meanwhile: as long as it was connected at some poll within the
   grace period, and the limit was not lowered nor the user deleted. *)
PlacesAreKept ==
  [][pc = "sampled" /\ pc' = "closing" =>
       \A u \in Users : \A a \in holders[u] :
         now' - seen[u][a].last <= Grace => a \in holders'[u]]_vars

(* Nobody is cut off while a place is free: an address that loses its connections
   has none, and as many others hold one as the limit allows, whoever of them came
   with the same poll, and whatever was forgotten since the sample.  And each of
   those was connected within the grace period, even when the user was deleted
   and remembered again from an older sample (iplimit.go:169). *)
CutOnlyWhenFull ==
  [][pc = "sampled" /\ pc' = "closing" =>
       \A i \in toClose' :
         /\ sample[i].ip \notin holders'[sample[i].user]
         /\ Cardinality(holders'[sample[i].user]) = limits[sample[i].user]
         /\ \A a \in holders'[sample[i].user] :
              now' - seen'[sample[i].user][a].last <= Grace]_vars

(* Once a poll is over, the connections it saw and did not fail to close come
   from no more addresses than each limit allows, even when that address was
   closed and others left meanwhile. *)
CapIsEnforced ==
  pc = "closing" /\ toClose = {} =>
    \A u \in Users :
      capped[u] > 0 =>
        Cardinality({sample[i].ip : i \in {j \in DOMAIN sample \ missed :
                       j \in DOMAIN conns /\ sample[j].user = u}} \ {NoAddress})
          <= capped[u]

(* The names in an online report are read afresh, the numbers are those of the
   last poll, and the two can disagree about who is connected, whatever
   link.go:110-112 says.  They do so only about users who opened a connection
   since that poll read the table, or of whom one ended since: by a swap, on
   their own, or because that poll closed it. *)
ReportsAgree ==
  pc = "wait" =>
    /\ \A u \in Online : shown[u].conns = 0 => u \in came
    /\ \A u \in Users \ Online :
         shown[u].conns > 0 \/ shown[u].ips > 0 => u \in went
=============================================================================
