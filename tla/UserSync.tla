------------------------------ MODULE UserSync ------------------------------
(***************************************************************************)
(* Users on a running instance: Engine.UpdateUsers, which replaces the     *)
(* user set of each inbound the message names, in the order Go happens to  *)
(* iterate the map, then the statistics allowlist, then the address        *)
(* limits; and what a swap to a new instance does to all three.            *)
(*                                                                         *)
(* UpdateUsers holds e.mu, but sing-box goes on accepting connections and  *)
(* the limiter goes on polling between its steps.  sing-box decides once,  *)
(* when a connection opens, whether its traffic is counted (external).     *)
(* Configurations arrive with empty user lists (proto.go:75-77).           *)
(***************************************************************************)
EXTENDS FiniteSets, Functions

CONSTANTS
  Users,
  Tags,              \* inbound tags the panel knows
  Shadowsocks,       \* those of Shadowsocks inbounds
  Placeholder        \* placeholderUser

ASSUME UserSyncAssumption ==
  /\ Shadowsocks \subseteq Tags
  /\ Placeholder \notin Users

VARIABLES
  running,   \* e.running
  inbounds,  \* the inbounds of the running instance
  users,     \* users[t]: who inbound t admits
  multi,     \* multi[t]: t was built as a type whose users can be replaced
  allow,     \* the allowlist of the statistics service
  limits,    \* limiter.limits: the users under a limit
  seen,      \* the users limiter.seen remembers addresses of
  conns,     \* open connections: whose, and whether counted
  pc,        \* where UpdateUsers is
  msg,       \* the users message last received
  todo,      \* tags it has not got to yet
  synced,    \* it was carried out and no swap came since (history)
  carried    \* what the last update carried out said of the two (history)

instance == <<running, inbounds, multi>>
limiter == <<limits, seen>>
history == <<synced, carried>>
update == <<pc, msg, todo, history>>
vars == <<instance, users, allow, limiter, conns, update>>

UserSets == SUBSET Users
Connections == [user : Users, counted : BOOLEAN]

(* What the panel may send.  Everyone it names is put on the allowlist. *)
Everyone(byTag) == UNION Range(byTag)

Messages ==
  UNION {{[byTag |-> f, stats |-> Everyone(f), limits |-> l] :
            l \in SUBSET Everyone(f)} :
         f \in UNION {[D -> UserSets] : D \in SUBSET Tags}}

NoMessage == [byTag |-> [t \in {} |-> {}], stats |-> {}, limits |-> {}]

TypeOK ==
  /\ running \in BOOLEAN
  /\ inbounds \in SUBSET Tags
  /\ users \in [Tags -> SUBSET (Users \cup {Placeholder})]
  /\ multi \in [Tags -> BOOLEAN]
  /\ allow \in UserSets /\ limits \in UserSets /\ seen \in UserSets
  /\ conns \in SUBSET Connections
  /\ pc \in {"idle", "tags", "limits", "forget"}
  /\ msg \in Messages \cup {NoMessage}
  /\ todo \subseteq IF pc = "tags" THEN DOMAIN msg.byTag ELSE {}
  /\ synced \in BOOLEAN
  /\ carried \in [stats : UserSets, limits : UserSets]

Nobody == [t \in Tags |-> {}]

Init ==
  /\ running = FALSE /\ inbounds = {}
  /\ users = Nobody /\ multi = [t \in Tags |-> FALSE]
  /\ allow = {} /\ limits = {} /\ seen = {} /\ conns = {}
  /\ pc = "idle" /\ msg = NoMessage /\ todo = {} /\ synced = FALSE
  /\ carried = [stats |-> {}, limits |-> {}]

-----------------------------------------------------------------------------
(* ApplyConfig as seen from here.  The statistics service starts with an
   empty allowlist whatever the configuration said; the limiter belongs to the
   engine and survives. *)

NoPlaceholders(tags) == Nobody

(* Every Shadowsocks inbound is given a user, so that sing-box builds it as
   the multi-user type. *)
EnsureShadowsocksUsers(tags) ==
  [t \in Tags |-> IF t \in tags \cap Shadowsocks THEN {Placeholder} ELSE {}]

Swap(tags) ==
  /\ pc = "idle"
  /\ running' = TRUE
  /\ inbounds' = tags
  /\ users' = EnsureShadowsocksUsers(tags)
  /\ multi' = [t \in Tags |-> t \in tags /\ (t \in Shadowsocks => users'[t] # {})]
  /\ allow' = {}
  /\ conns' = {}
  /\ synced' = FALSE
  /\ UNCHANGED <<limiter, pc, msg, todo, carried>>

(* The new configuration would not start and neither would the old one. *)
GoDown ==
  /\ pc = "idle" /\ running
  /\ running' = FALSE /\ inbounds' = {}
  /\ users' = Nobody /\ multi' = [t \in Tags |-> FALSE]
  /\ allow' = {} /\ conns' = {}
  /\ synced' = FALSE
  /\ UNCHANGED <<limiter, pc, msg, todo, carried>>

-----------------------------------------------------------------------------
(* UpdateUsers. *)

NotRunning(m) ==
  /\ pc = "idle" /\ ~running
  /\ msg' = m
  /\ UNCHANGED <<instance, users, allow, limiter, conns, pc, todo, history>>

BeginEveryInbound(m) ==
  /\ pc = "idle" /\ running
  /\ pc' = "tags"
  /\ msg' = m /\ todo' = inbounds
  /\ synced' = FALSE
  /\ UNCHANGED <<instance, users, allow, limiter, conns, carried>>

Begin(m) ==
  /\ pc = "idle" /\ running
  /\ pc' = "tags"
  /\ msg' = m /\ todo' = DOMAIN m.byTag
  /\ synced' = FALSE
  /\ UNCHANGED <<instance, users, allow, limiter, conns, carried>>

(* An inbound this instance does not have. *)
SkipTag(t) ==
  /\ pc = "tags" /\ t \in todo \ inbounds
  /\ todo' = todo \ {t}
  /\ UNCHANGED <<instance, users, allow, limiter, conns, pc, msg, history>>

AmendUsers(t) ==
  /\ pc = "tags" /\ t \in todo \cap inbounds /\ multi[t]
  /\ todo' = todo \ {t}
  /\ users' = [users EXCEPT ![t] = @ \cup msg.byTag[t]]
  /\ UNCHANGED <<instance, allow, limiter, conns, pc, msg, history>>

ApplyUsers(t) ==
  /\ pc = "tags" /\ t \in todo \cap inbounds /\ multi[t]
  /\ todo' = todo \ {t}
  /\ users' = [users EXCEPT ![t] = msg.byTag[t]]
  /\ UNCHANGED <<instance, allow, limiter, conns, pc, msg, history>>

(* A user the inbound refuses, or an inbound that cannot replace its users:
   UpdateUsers returns, with the tags so far replaced. *)
ApplyUsersFails(t) ==
  /\ pc = "tags" /\ t \in todo \cap inbounds
  /\ pc' = "idle" /\ todo' = {}
  /\ UNCHANGED <<instance, users, allow, limiter, conns, msg, history>>

SyncNothing ==
  /\ pc = "tags" /\ todo = {}
  /\ pc' = "limits"
  /\ UNCHANGED <<instance, users, allow, limiter, conns, msg, todo, history>>

SyncStatsUsers ==
  /\ pc = "tags" /\ todo = {}
  /\ pc' = "limits"
  /\ allow' = msg.stats
  /\ UNCHANGED <<instance, users, limiter, conns, msg, todo, history>>

SyncStatsUsersGoesOn ==
  /\ pc = "tags" /\ todo = {}
  /\ pc' = "limits"
  /\ UNCHANGED <<instance, users, allow, limiter, conns, msg, todo, history>>

SyncStatsUsersFails ==
  /\ pc = "tags" /\ todo = {}
  /\ pc' = "idle"
  /\ UNCHANGED <<instance, users, allow, limiter, conns, msg, todo, history>>

SetLimits ==
  /\ pc = "limits"
  /\ pc' = "forget"
  /\ limits' = msg.limits
  /\ carried' = [stats |-> msg.stats, limits |-> msg.limits]
  /\ UNCHANGED <<instance, users, allow, seen, conns, msg, todo, synced>>

Forget ==
  /\ pc = "forget"
  /\ pc' = "idle"
  /\ seen' = seen \cap msg.stats
  /\ synced' = TRUE
  /\ UNCHANGED <<instance, users, allow, limits, conns, msg, todo, carried>>

-----------------------------------------------------------------------------
(* Meanwhile, in sing-box and in the limiter. *)

Connect(u) ==
  /\ \E t \in inbounds : u \in users[t]
  /\ conns' = conns \cup {[user |-> u, counted |-> u \in allow]}
  /\ UNCHANGED <<instance, users, allow, limiter, update>>

Disconnect(c) ==
  /\ c \in conns
  /\ conns' = conns \ {c}
  /\ UNCHANGED <<instance, users, allow, limiter, update>>

(* Everyone connected is remembered; someone who is not may be dropped, once
   the grace period is over (module Limiter). *)
Enforce ==
  /\ LET connected == {c.user : c \in conns}
     IN  \E gone \in SUBSET (seen \ connected) :
           seen' = (seen \cup connected) \ gone
  /\ UNCHANGED <<instance, users, allow, limits, conns, update>>

-----------------------------------------------------------------------------
Next ==
  \/ \E tags \in SUBSET Tags : Swap(tags)
  \/ GoDown
  \/ \E m \in Messages : NotRunning(m) \/ Begin(m)
  \/ \E t \in Tags : SkipTag(t) \/ ApplyUsers(t) \/ ApplyUsersFails(t)
  \/ SyncStatsUsers \/ SyncStatsUsersFails \/ SetLimits \/ Forget
  \/ \E u \in Users : Connect(u)
  \/ \E c \in Connections : Disconnect(c)
  \/ Enforce

Spec == Init /\ [][Next]_vars

-----------------------------------------------------------------------------
(* Properties. *)

(* Whatever was missed, refused or half done before, after one users message
   that is carried out the node holds what that message says: on every inbound
   it names, on the allowlist and in the limits (proto.go:81-83). *)
Converged ==
  synced =>
    /\ \A t \in inbounds \cap DOMAIN msg.byTag : users[t] = msg.byTag[t]
    /\ allow = msg.stats
    /\ limits = msg.limits

(* The limits never drift from the users they came with (engine.go:264-266).
   An update that is refused part of the way leaves the allowlist and the
   limits both as the last one carried out left them.  A swap empties the
   allowlist, and the limits go on holding until users come again. *)
NoDrift ==
  pc # "limits" => limits = carried.limits /\ allow \in {carried.stats, {}}

(* No connection opens that is counted for nobody, once an update that named
   every inbound has been carried out (engine.go:229-235). *)
NobodyRelaysUncounted ==
  [][synced /\ synced' /\ inbounds \subseteq DOMAIN msg.byTag =>
       \A c \in conns' \ conns : c.counted]_vars

(* A Shadowsocks inbound never has to refuse an update because it was built
   with no users (placeholder.go:15-28). *)
AlwaysReplaceable == \A t \in inbounds : multi[t]
=============================================================================
