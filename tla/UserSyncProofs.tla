--------------------------- MODULE UserSyncProofs ---------------------------
(***************************************************************************)
(* Proofs about UserSync, for any users and tags: an update that is        *)
(* carried out converges, and nobody relays uncounted after it.            *)
(***************************************************************************)
EXTENDS UserSync, TLAPS

(* How much of the message is in place at each step of UpdateUsers. *)
Progress ==
  /\ pc # "idle" => running
  /\ pc # "idle" =>
       \A t \in (inbounds \cap DOMAIN msg.byTag) \ todo :
         users[t] = msg.byTag[t]
  /\ pc \in {"limits", "forget"} => todo = {} /\ allow = msg.stats
  /\ pc = "forget" => limits = msg.limits

IInv ==
  /\ TypeOK
  /\ Progress
  /\ synced => pc = "idle" /\ running
  /\ Converged
  /\ NoDrift

-----------------------------------------------------------------------------
(* What a message, or none, is made of: everyone it gives to an inbound is on
   its allowlist. *)
LEMMA MessageShape ==
  ASSUME NEW m \in Messages \cup {NoMessage}
  PROVE  /\ DOMAIN m.byTag \subseteq Tags
         /\ \A t \in DOMAIN m.byTag : m.byTag[t] \subseteq m.stats
         /\ m.stats \subseteq Users
         /\ m.limits \subseteq Users
<1>1. CASE m = NoMessage
  BY <1>1 DEF NoMessage
<1>2. CASE m \in Messages
  <2>0. PICK D \in SUBSET Tags : \E f \in [D -> UserSets] :
          \E l \in SUBSET Everyone(f) :
            m = [byTag |-> f, stats |-> Everyone(f), limits |-> l]
    BY <1>2 DEF Messages
  <2>00. PICK f \in [D -> UserSets] : \E l \in SUBSET Everyone(f) :
           m = [byTag |-> f, stats |-> Everyone(f), limits |-> l]
    BY <2>0
  <2>1. PICK l \in SUBSET Everyone(f) :
          m = [byTag |-> f, stats |-> Everyone(f), limits |-> l]
    BY <2>00
  <2>2. \A t \in D : f[t] \subseteq Everyone(f)
    BY DEF Everyone, Range
  <2>3. Everyone(f) \subseteq Users
    BY DEF Everyone, Range, UserSets
  <2> QED BY <2>1, <2>2, <2>3
<1> QED BY <1>1, <1>2

(* The invariant holds when the process starts. *)
LEMMA InvInit == Init => IInv
<1>1. Init => TypeOK
  <2> SUFFICES ASSUME Init PROVE TypeOK
    OBVIOUS
  <2> USE DEF Init, Nobody, UserSets
  <2>1. /\ users \in [Tags -> SUBSET (Users \cup {Placeholder})]
        /\ multi \in [Tags -> BOOLEAN]
        /\ msg \in Messages \cup {NoMessage}
    OBVIOUS
  <2>2. carried \in [stats : UserSets, limits : UserSets]
    OBVIOUS
  <2> QED BY <2>1, <2>2 DEF TypeOK
<1>2. Init => Progress /\ Converged /\ NoDrift /\ ~synced
  BY DEF Init, Progress, Converged, NoDrift
<1> QED BY <1>1, <1>2 DEF IInv

(* Every step keeps every value of its type. *)
LEMMA TypeCorrectStep == TypeOK /\ [Next]_vars => TypeOK'
<1> SUFFICES ASSUME TypeOK, [Next]_vars PROVE TypeOK'
  OBVIOUS
<1> USE UserSyncAssumption
    DEF TypeOK, UserSets, instance, limiter, update, history
<1>0. /\ msg.stats \subseteq Users /\ msg.limits \subseteq Users
      /\ \A t \in DOMAIN msg.byTag : msg.byTag[t] \subseteq Users
  BY MessageShape
<1>1. ASSUME NEW tags \in SUBSET Tags, Swap(tags) PROVE TypeOK'
  BY <1>1 DEF Swap, EnsureShadowsocksUsers
<1>2. CASE GoDown
  BY <1>2 DEF GoDown, Nobody
<1>3. ASSUME NEW m \in Messages, NotRunning(m) \/ Begin(m) PROVE TypeOK'
  <2>1. CASE NotRunning(m)
    BY <2>1 DEF NotRunning
  <2>2. CASE Begin(m)
    BY <2>2 DEF Begin
  <2> QED BY <1>3, <2>1, <2>2
<1>4. ASSUME NEW t \in Tags, SkipTag(t) \/ ApplyUsers(t) \/ ApplyUsersFails(t)
      PROVE  TypeOK'
  BY <1>0, <1>4 DEF SkipTag, ApplyUsers, ApplyUsersFails
<1>5. CASE SyncStatsUsers \/ SyncStatsUsersFails \/ Forget
  BY <1>0, <1>5 DEF SyncStatsUsers, SyncStatsUsersFails, Forget
<1>6. CASE SetLimits
  BY <1>0, <1>6 DEF SetLimits
<1>7. ASSUME NEW u \in Users, Connect(u) PROVE TypeOK'
  <2> DEFINE c == [user |-> u, counted |-> u \in allow]
  <2>1. c \in Connections
    <3>1. CASE u \in allow
      <4>1. c = [user |-> u, counted |-> TRUE]
        BY <3>1, Zenon
      <4> QED BY <4>1 DEF Connections
    <3>2. CASE u \notin allow
      <4>0. (u \in allow) = FALSE
        BY <3>2
      <4>1. c = [user |-> u, counted |-> FALSE]
        BY <4>0, Zenon
      <4> QED BY <4>1 DEF Connections
    <3> QED BY <3>1, <3>2
  <2>2. conns' = conns \cup {c}
    BY <1>7 DEF Connect
  <2> HIDE DEF c
  <2> QED BY <1>7, <2>1, <2>2 DEF Connect
<1>8. ASSUME NEW c \in Connections, Disconnect(c) PROVE TypeOK'
  BY <1>8 DEF Disconnect
<1>9. CASE Enforce
  BY <1>9 DEF Enforce, Connections
<1>10. CASE UNCHANGED vars
  BY <1>10 DEF vars
<1> QED BY <1>1, <1>2, <1>3, <1>4, <1>5, <1>6, <1>7, <1>8, <1>9,
           <1>10 DEF Next

(* Every step keeps the rest of the invariant. *)
LEMMA InvStep == IInv /\ [Next]_vars => IInv'
<1> SUFFICES ASSUME IInv, [Next]_vars PROVE IInv'
  OBVIOUS
<1> DEFINE Quiet == synced => pc = "idle" /\ running
           Rest == Progress /\ Quiet /\ Converged /\ NoDrift
<1>1. TypeOK /\ TypeOK' /\ Rest
  BY TypeCorrectStep DEF IInv
<1> SUFFICES Rest'
  BY <1>1 DEF IInv
<1> USE <1>1 DEF TypeOK, Progress, Converged, NoDrift, instance, limiter, update,
                 history
<1>2. ASSUME NEW tags \in SUBSET Tags, Swap(tags) PROVE Rest'
  BY <1>2 DEF Swap
<1>3. CASE GoDown
  BY <1>3 DEF GoDown
<1>4. ASSUME NEW m \in Messages, NotRunning(m) PROVE Rest'
  BY <1>4 DEF NotRunning
<1>5. ASSUME NEW m \in Messages, Begin(m) PROVE Rest'
  BY <1>5 DEF Begin
<1>6. ASSUME NEW t \in Tags, SkipTag(t) \/ ApplyUsersFails(t) PROVE Rest'
  BY <1>6 DEF SkipTag, ApplyUsersFails
<1>7. ASSUME NEW t \in Tags, ApplyUsers(t) PROVE Rest'
  BY <1>7 DEF ApplyUsers
<1>8. CASE SyncStatsUsers \/ SyncStatsUsersFails
  BY <1>8 DEF SyncStatsUsers, SyncStatsUsersFails
<1>9. CASE SetLimits \/ Forget
  BY <1>9 DEF SetLimits, Forget
<1>10. ASSUME NEW u \in Users, Connect(u) PROVE Rest'
  BY <1>10 DEF Connect
<1>11. ASSUME NEW c \in Connections, Disconnect(c) PROVE Rest'
  BY <1>11 DEF Disconnect
<1>12. CASE Enforce
  BY <1>12 DEF Enforce
<1>13. CASE UNCHANGED vars
  BY <1>13 DEF vars
<1> QED BY <1>2, <1>3, <1>4, <1>5, <1>6, <1>7, <1>8, <1>9, <1>10, <1>11,
           <1>12, <1>13 DEF Next

(* The invariant holds in every reachable state. *)
THEOREM Invariance == Spec => []IInv
BY InvInit, InvStep, PTL DEF Spec

(* Everything the node holds about users stays of its type. *)
THEOREM TypeCorrect == Spec => []TypeOK
<1>1. IInv => TypeOK
  BY DEF IInv
<1> QED BY <1>1, Invariance, PTL

(* An update that was carried out leaves the node as its message says,
   whatever was missed, refused or half done before it. *)
THEOREM UpdateConverges == Spec => []Converged
<1>1. IInv => Converged
  BY DEF IInv
<1> QED BY <1>1, Invariance, PTL

(* The allowlist and the limits never come from two different updates: one that
   fails changes neither, and a swap only empties the allowlist. *)
THEOREM NothingDrifts == Spec => []NoDrift
<1>1. IInv => NoDrift
  BY DEF IInv
<1> QED BY <1>1, Invariance, PTL

-----------------------------------------------------------------------------
(* Once an update that named every inbound was carried out, a connection that
   opens is counted. *)
THEOREM EveryoneIsCounted == Spec => NobodyRelaysUncounted
<1> DEFINE Counted ==
      synced /\ synced' /\ inbounds \subseteq DOMAIN msg.byTag =>
        \A c \in conns' \ conns : c.counted
<1>1. IInv /\ [Next]_vars => [Counted]_vars
  <2> SUFFICES ASSUME IInv, [Next]_vars, synced, synced',
                      inbounds \subseteq DOMAIN msg.byTag,
                      NEW c \in conns' \ conns
               PROVE  c.counted
    OBVIOUS
  <2>1. PICK u \in Users : Connect(u)
    <3> USE DEF Next, vars, instance, limiter, update, history
    <3> QED BY DEF Swap, GoDown, NotRunning, Begin, SkipTag, ApplyUsers,
                   ApplyUsersFails, SyncStatsUsers, SyncStatsUsersFails,
                   SetLimits, Forget, Disconnect, Enforce
  <2>2. PICK t \in inbounds : u \in users[t]
    BY <2>1 DEF Connect
  <2>3. users[t] = msg.byTag[t] /\ allow = msg.stats
    BY <2>2 DEF IInv, Converged
  <2>4. msg.byTag[t] \subseteq msg.stats
    BY <2>2, MessageShape DEF IInv, TypeOK
  <2>5. u \in allow
    BY <2>2, <2>3, <2>4
  <2>6. c = [user |-> u, counted |-> u \in allow]
    BY <2>1 DEF Connect
  <2>7. c.counted = (u \in allow)
    BY <2>6, Zenon
  <2> QED BY <2>5, <2>7
<1> QED BY <1>1, Invariance, PTL DEF Spec, NobodyRelaysUncounted

-----------------------------------------------------------------------------
(* No inbound was ever built without users it needs, so none ever refuses an
   update for it: only a swap builds inbounds, and what it gives a Shadowsocks
   inbound is never empty. *)
THEOREM NoneRefuses == Spec => []AlwaysReplaceable
<1>1. Init => AlwaysReplaceable
  BY DEF Init, AlwaysReplaceable
<1>2. AlwaysReplaceable /\ [Next]_vars => AlwaysReplaceable'
  <2> SUFFICES ASSUME AlwaysReplaceable, [Next]_vars PROVE AlwaysReplaceable'
    OBVIOUS
  <2>1. ASSUME NEW tags \in SUBSET Tags, Swap(tags), NEW t \in inbounds'
        PROVE  multi'[t]
    <3>1. t \in Tags /\ t \in tags
      BY <2>1 DEF Swap
    <3>2. t \in Shadowsocks => users'[t] # {}
      BY <2>1, <3>1 DEF Swap, EnsureShadowsocksUsers
    <3>3. multi'[t] = (t \in tags /\ (t \in Shadowsocks => users'[t] # {}))
      BY <2>1, <3>1, Zenon DEF Swap
    <3> QED BY <3>1, <3>2, <3>3, Zenon
  <2>2. CASE GoDown
    BY <2>2 DEF GoDown, AlwaysReplaceable
  <2>3. CASE UNCHANGED instance
    BY <2>3 DEF instance, AlwaysReplaceable
  <2>4. CASE ~ \E tags \in SUBSET Tags : Swap(tags)
    <3> USE <2>4 DEF Next, vars
    <3>1. GoDown \/ UNCHANGED instance
      BY DEF NotRunning, Begin, SkipTag, ApplyUsers, ApplyUsersFails,
             SyncStatsUsers, SyncStatsUsersFails, SetLimits, Forget, Connect,
             Disconnect, Enforce
    <3> QED BY <2>2, <2>3, <3>1
  <2> QED BY <2>1, <2>4 DEF AlwaysReplaceable
<1> QED BY <1>1, <1>2, PTL DEF Spec
=============================================================================
