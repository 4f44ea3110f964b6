---------------------------- MODULE LimiterProofs ----------------------------
(***************************************************************************)
(* Proofs about Limiter, for any users, addresses, limits, grace period    *)
(* and times of polls: the cap holds for what was sampled, a place that is *)
(* held is kept, nobody is cut while one is free, and what a report says   *)
(* of who is connected is wrong only about users who came or went.         *)
(***************************************************************************)
EXTENDS Limiter, FiniteSetTheorems, WellFoundedInduction, TLAPS

(* Who comes before an address in the order in which places are given. *)
Predecessors(slots, a) == {b \in DOMAIN slots : Before(slots, b, a)}

(* The addresses that get a place. *)
Placed(slots, limit) == DOMAIN slots \ Over(slots, limit)

-----------------------------------------------------------------------------
(* The order is strict and total. *)
LEMMA BeforeIsStrict ==
  ASSUME NEW slots, DOMAIN slots \subseteq Nat,
         \A a \in DOMAIN slots : slots[a].first \in Nat
  PROVE  /\ \A a \in DOMAIN slots : ~ Before(slots, a, a)
         /\ \A a, b \in DOMAIN slots :
              a # b => Before(slots, a, b) \/ Before(slots, b, a)
         /\ \A a, b, c \in DOMAIN slots :
              Before(slots, a, b) /\ Before(slots, b, c) => Before(slots, a, c)
BY DEF Before

(* Of a collection of sets of addresses, one contains no other. *)
LEMMA SmallestExists ==
  ASSUME NEW D, IsFiniteSet(D), NEW T \in SUBSET (SUBSET D), T # {}
  PROVE  \E S \in T : \A U \in T : U \subseteq S => U = S
<1>1. IsWellFoundedOn(StrictSubsetOrdering(D), SUBSET D)
  <2>1. FiniteSubsetsOf(D) = SUBSET D
    BY FS_FiniteSubsetsOfFinite
  <2> QED BY <2>1, FS_StrictSubsetOrderingWellFounded
<1>2. PICK S \in T : \A U \in T : ~ (<<U, S>> \in StrictSubsetOrdering(D))
  BY <1>1, WFMin
<1>3. ASSUME NEW U \in T, U \subseteq S, U # S PROVE FALSE
  <2>1. <<U, S>> \in StrictSubsetOrdering(D)
    BY <1>3 DEF StrictSubsetOrdering
  <2> QED BY <1>2, <2>1
<1> QED BY <1>3

(* Among finitely many addresses one is the last: nobody comes after it. *)
LEMMA LastExists ==
  ASSUME NEW slots, DOMAIN slots \subseteq Nat, IsFiniteSet(DOMAIN slots),
         \A a \in DOMAIN slots : slots[a].first \in Nat,
         NEW W \in SUBSET DOMAIN slots, W # {}
  PROVE  \E m \in W : \A a \in W \ {m} : Before(slots, a, m)
<1> DEFINE After(a) == {b \in W : Before(slots, a, b)}
           T == {After(a) : a \in W}
<1>1. T \in SUBSET (SUBSET DOMAIN slots) /\ T # {}
  OBVIOUS
<1>2. PICK S \in T : \A U \in T : U \subseteq S => U = S
  <2> HIDE DEF T
  <2> QED BY <1>1, SmallestExists
<1>3. PICK m \in W : S = After(m)
  BY <1>2
<1>4. After(m) = {}
  <2> SUFFICES ASSUME NEW b \in After(m) PROVE FALSE
    OBVIOUS
  <2>1. After(b) \in T /\ After(b) \subseteq After(m) /\ b \notin After(b)
    BY BeforeIsStrict
  <2> QED BY <1>2, <1>3, <2>1
<1> QED
  <2> SUFFICES ASSUME NEW a \in W \ {m} PROVE Before(slots, a, m)
    OBVIOUS
  <2>1. ~ Before(slots, m, a)
    BY <1>4
  <2> QED BY <2>1, BeforeIsStrict

(* And one is the first: nobody comes before it. *)
LEMMA FirstExists ==
  ASSUME NEW slots, DOMAIN slots \subseteq Nat, IsFiniteSet(DOMAIN slots),
         \A a \in DOMAIN slots : slots[a].first \in Nat,
         NEW W \in SUBSET DOMAIN slots, W # {}
  PROVE  \E m \in W : \A a \in W : ~ Before(slots, a, m)
<1> DEFINE Earlier(a) == {b \in W : Before(slots, b, a)}
           T == {Earlier(a) : a \in W}
<1>1. T \in SUBSET (SUBSET DOMAIN slots) /\ T # {}
  OBVIOUS
<1>2. PICK S \in T : \A U \in T : U \subseteq S => U = S
  <2> HIDE DEF T
  <2> QED BY <1>1, SmallestExists
<1>3. PICK m \in W : S = Earlier(m)
  BY <1>2
<1>4. ASSUME NEW b \in Earlier(m) PROVE FALSE
  <2>1. Earlier(b) \in T /\ Earlier(b) \subseteq Earlier(m) /\ b \notin Earlier(b)
    BY BeforeIsStrict
  <2> QED BY <1>2, <1>3, <1>4, <2>1
<1> QED BY <1>4

(* No more addresses get a place than the limit allows: the last of them has
   fewer than that before it, and all the others among those. *)
LEMMA PlacedAreFew ==
  ASSUME NEW slots, DOMAIN slots \subseteq Nat, IsFiniteSet(DOMAIN slots),
         \A a \in DOMAIN slots : slots[a].first \in Nat,
         NEW limit \in Nat, limit > 0
  PROVE  /\ IsFiniteSet(Placed(slots, limit))
         /\ Cardinality(Placed(slots, limit)) <= limit
<1> DEFINE W == Placed(slots, limit)
<1>1. W \subseteq DOMAIN slots /\ IsFiniteSet(W)
  BY FS_Subset DEF Placed
<1>2. CASE W = {}
  <2>1. Cardinality(W) = 0
    BY <1>2, FS_EmptySet
  <2> QED BY <1>1, <2>1
<1>3. CASE W # {}
  <2>1. PICK m \in W : \A a \in W \ {m} : Before(slots, a, m)
    <3> HIDE DEF W
    <3> QED BY <1>1, <1>3, LastExists
  <2> DEFINE P == Predecessors(slots, m)
  <2>2. IsFiniteSet(P) /\ Cardinality(P) \in Nat
    BY FS_Subset, FS_CardinalityType DEF Predecessors
  <2>3. Cardinality(P) < limit
    <3>1. m \in DOMAIN slots /\ m \notin Over(slots, limit)
      BY DEF Placed
    <3>2. ~ (Cardinality(P) >= limit)
      BY <3>1 DEF Over, Predecessors
    <3> HIDE DEF P
    <3> QED BY <2>2, <3>2
  <2>4. Cardinality(W \ {m}) <= Cardinality(P)
    <3>1. W \ {m} \subseteq P
      BY <1>1, <2>1 DEF Predecessors
    <3> QED BY <2>2, <3>1, FS_Subset
  <2>5. Cardinality(W \ {m}) = Cardinality(W) - 1 /\ Cardinality(W) \in Nat
    BY <1>1, FS_RemoveElement, FS_CardinalityType
  <2> HIDE DEF P, W
  <2> QED BY <1>1, <2>2, <2>3, <2>4, <2>5 DEF W
<1> QED BY <1>2, <1>3

(* And if anybody is left out, no fewer: the first of those left out has that
   many before it, and none of them is left out itself. *)
LEMMA PlacedAreMany ==
  ASSUME NEW slots, DOMAIN slots \subseteq Nat, IsFiniteSet(DOMAIN slots),
         \A a \in DOMAIN slots : slots[a].first \in Nat,
         NEW limit \in Nat, Over(slots, limit) # {}
  PROVE  limit > 0 /\ Cardinality(Placed(slots, limit)) = limit
<1> DEFINE W == Placed(slots, limit)
<1>1. limit > 0 /\ Over(slots, limit) \in SUBSET DOMAIN slots
  BY DEF Over
<1>2. PICK m \in Over(slots, limit) :
        \A a \in Over(slots, limit) : ~ Before(slots, a, m)
  BY <1>1, FirstExists
<1> DEFINE P == Predecessors(slots, m)
<1>3. Cardinality(P) >= limit
  BY <1>2 DEF Over, Predecessors
<1>4. P \subseteq W
  BY <1>2 DEF Predecessors, Placed
<1>5. IsFiniteSet(W) /\ Cardinality(W) <= limit
  BY <1>1, PlacedAreFew
<1> HIDE DEF P, W
<1>6. Cardinality(P) <= Cardinality(W) /\ IsFiniteSet(P)
  BY <1>4, <1>5, FS_Subset
<1>7. Cardinality(P) \in Nat /\ Cardinality(W) \in Nat
  BY <1>5, <1>6, FS_CardinalityType
<1> QED BY <1>1, <1>3, <1>5, <1>6, <1>7 DEF W

-----------------------------------------------------------------------------
(* Nothing was seen after the last poll, and what one had to close is done
   before the next. *)
Clock ==
  /\ pc # "closing" => toClose = {} /\ missed = {}
  /\ \A u \in Users : \A a \in DOMAIN seen[u] : seen[u][a].last <= now

(* Whoever holds a place is remembered, and has fewer before it than the limit
   allows. *)
Places ==
  \A u \in Users : \A a \in holders[u] :
    /\ a \in DOMAIN seen[u]
    /\ limits[u] > 0 => Cardinality(Predecessors(seen[u], a)) < limits[u]

(* Of the connections a poll saw, did not fail to close and has not to close any
   more, those still open come from a few addresses. *)
Few(u, W) ==
  /\ Cardinality(W) <= capped[u]
  /\ \A i \in DOMAIN sample \ (toClose \cup missed) :
       i \in DOMAIN conns /\ sample[i].user = u /\ sample[i].ip # NoAddress =>
         sample[i].ip \in W

Capped ==
  pc = "closing" =>
    \A u \in Users : capped[u] > 0 => \E W \in SUBSET Addresses : Few(u, W)

IInv == TypeOK /\ Clock /\ Places /\ Capped

-----------------------------------------------------------------------------
(* The sets that are counted are finite, and no larger than what they are
   taken from. *)
LEMMA CountsBounded ==
  ASSUME TypeOK, NEW u \in Users
  PROVE  /\ Live(u) \subseteq Addresses /\ Of(u, sample) \subseteq ConnIds
         /\ Counts(u) \in 0..Cardinality(Addresses)
         /\ Activity(u) \in 0..Cardinality(ConnIds)
<1>1. Live(u) \subseteq Addresses /\ Of(u, sample) \subseteq ConnIds
  BY DEF TypeOK, Live, Of, Conn
<1>2. /\ IsFiniteSet(Live(u)) /\ Cardinality(Live(u)) <= Cardinality(Addresses)
      /\ IsFiniteSet(Of(u, sample))
      /\ Cardinality(Of(u, sample)) <= Cardinality(ConnIds)
  BY <1>1, FS_Subset, LimiterAssumption
<1>3. /\ Cardinality(Live(u)) \in Nat /\ Cardinality(Of(u, sample)) \in Nat
      /\ Cardinality(Addresses) \in Nat /\ Cardinality(ConnIds) \in Nat
  BY <1>2, FS_CardinalityType, LimiterAssumption
<1> QED BY <1>1, <1>2, <1>3 DEF Counts, Activity

(* What is remembered of a user after enforce, when it is of its type. *)
LEMMA Remembered ==
  ASSUME TypeOK, Clock, NEW t \in (now + 1)..MaxTime, NEW u \in Users
  PROVE  LET slots == Without(Refreshed(u, t), Stale(Refreshed(u, t), t))
         IN  /\ DOMAIN slots \subseteq Addresses
             /\ Live(u) \subseteq DOMAIN slots
             /\ \A a \in DOMAIN slots :
                  /\ slots[a] \in Slot
                  /\ slots[a].first <= slots[a].last
                  /\ slots[a].last <= t /\ t - slots[a].last <= Grace
                  /\ a \in DOMAIN seen[u] => slots[a].first = seen[u][a].first
                  /\ a \notin DOMAIN seen[u] => slots[a].first = t
             /\ \A a \in DOMAIN seen[u] :
                  t - seen[u][a].last <= Grace => a \in DOMAIN slots
<1> DEFINE all == Refreshed(u, t)
           slots == Without(all, Stale(all, t))
<1>0. /\ t \in 0..MaxTime /\ now < t /\ now \in Nat /\ MaxTime \in Nat /\ Grace \in Nat
      /\ Live(u) \subseteq Addresses /\ DOMAIN seen[u] \subseteq Addresses
  BY CountsBounded, LimiterAssumption DEF TypeOK, Clock
<1>1. DOMAIN all = DOMAIN seen[u] \cup Live(u)
  BY DEF Refreshed
<1>2. ASSUME NEW a \in DOMAIN all
      PROVE  /\ all[a] \in Slot
             /\ all[a].first <= all[a].last /\ all[a].last <= t
             /\ a \in Live(u) => all[a].last = t
             /\ a \in DOMAIN seen[u] => all[a].first = seen[u][a].first
             /\ a \in DOMAIN seen[u] => seen[u][a].last <= all[a].last
             /\ a \notin DOMAIN seen[u] => all[a].first = t
  <2>1. a \in DOMAIN seen[u] =>
          /\ seen[u][a] \in Slot /\ seen[u][a].first <= seen[u][a].last
          /\ seen[u][a].last <= now
    BY DEF TypeOK, Clock
  <2>2. CASE a \in Live(u) /\ a \in DOMAIN seen[u]
    <3>1. all[a] = [first |-> seen[u][a].first, last |-> t]
      BY <1>1, <2>2 DEF Refreshed
    <3> HIDE DEF all
    <3> QED BY <1>0, <2>1, <2>2, <3>1 DEF Slot
  <2>3. CASE a \in Live(u) /\ a \notin DOMAIN seen[u]
    <3>1. all[a] = [first |-> t, last |-> t]
      BY <1>1, <2>3 DEF Refreshed
    <3> HIDE DEF all
    <3> QED BY <1>0, <2>3, <3>1 DEF Slot
  <2>4. CASE a \notin Live(u)
    <3>1. all[a] = seen[u][a] /\ a \in DOMAIN seen[u]
      BY <1>1, <2>4 DEF Refreshed
    <3> HIDE DEF all
    <3> QED BY <1>0, <2>1, <2>4, <3>1 DEF Slot
  <2> QED BY <2>2, <2>3, <2>4
<1>3. \A a \in DOMAIN slots : a \in DOMAIN all /\ slots[a] = all[a]
  BY DEF Without
<1>4. \A a \in DOMAIN all : a \in DOMAIN slots <=> ~ (t - all[a].last > Grace)
  BY DEF Without, Stale
<1>5. \A a \in DOMAIN all : all[a].last \in Nat
  BY <1>0, <1>2 DEF Slot
<1> HIDE DEF all, slots
<1>6. \A a \in DOMAIN slots : t - slots[a].last <= Grace
  BY <1>0, <1>3, <1>4, <1>5
<1>7. Live(u) \subseteq DOMAIN slots
  BY <1>0, <1>1, <1>2, <1>4, <1>5
<1>8. \A a \in DOMAIN seen[u] :
        t - seen[u][a].last <= Grace => a \in DOMAIN slots
  <2>1. \A a \in DOMAIN seen[u] : seen[u][a].last \in Nat
    BY DEF TypeOK, Slot
  <2> QED BY <1>0, <1>1, <1>2, <1>4, <1>5, <2>1
<1>9. \A a \in DOMAIN slots :
        /\ slots[a] \in Slot
        /\ slots[a].first <= slots[a].last /\ slots[a].last <= t
        /\ a \in DOMAIN seen[u] => slots[a].first = seen[u][a].first
        /\ a \notin DOMAIN seen[u] => slots[a].first = t
  BY <1>2, <1>3
<1>10. DOMAIN slots \subseteq Addresses
  BY <1>0, <1>1, <1>3
<1> QED BY <1>6, <1>7, <1>8, <1>9, <1>10 DEF slots, all

-----------------------------------------------------------------------------
(* The invariant holds when the process starts. *)
LEMMA InvInit == Init => IInv
<1> SUFFICES ASSUME Init PROVE IInv
  OBVIOUS
<1>1. Cardinality(Addresses) \in Nat /\ Cardinality(ConnIds) \in Nat
  BY FS_CardinalityType, LimiterAssumption
<1>2. TypeOK
  <2>1. shown \in [Users -> [ips : 0..Cardinality(Addresses),
                             conns : 0..Cardinality(ConnIds)]]
    BY <1>1 DEF Init
  <2> QED BY <2>1, LimiterAssumption DEF Init, TypeOK, None, NoLimits
<1>3. Clock /\ Places /\ Capped
  BY DEF Init, Clock, Places, Capped, None
<1> QED BY <1>2, <1>3 DEF IInv

(* What ends is gone, and its users are noted. *)
LEMMA Ended ==
  ASSUME NEW S, End(S)
  PROVE  /\ DOMAIN conns' = DOMAIN conns \ S
         /\ \A i \in DOMAIN conns' : conns'[i] = conns[i]
         /\ \A i \in DOMAIN conns \ DOMAIN conns' : conns[i].user \in went'
         /\ went \subseteq went' /\ came' = came
         /\ TypeOK => went' \subseteq Users
<1>1. conns' = Without(conns, S)
  BY DEF End
<1>2. /\ DOMAIN conns' = DOMAIN conns \ S
      /\ \A i \in DOMAIN conns' : conns'[i] = conns[i]
  BY <1>1 DEF Without
<1>3. /\ went' = went \cup {conns[i].user : i \in S \cap DOMAIN conns}
      /\ came' = came
  BY DEF End
<1>4. TypeOK => went' \subseteq Users
  BY <1>3 DEF TypeOK, Conn
<1> QED BY <1>2, <1>3, <1>4

(* Every step keeps every value of its type, and the clock. *)
LEMMA TypeCorrectStep == TypeOK /\ Clock /\ [Next]_vars => TypeOK' /\ Clock'
<1> SUFFICES ASSUME TypeOK, Clock, [Next]_vars PROVE TypeOK' /\ Clock'
  OBVIOUS
<1> USE LimiterAssumption DEF poll, update, moves
<1>1. ASSUME NEW i \in ConnIds, NEW u \in Users,
             NEW a \in Addresses \cup {NoAddress},
             Open(i, u, a)
      PROVE  TypeOK' /\ Clock'
  BY <1>1 DEF Open, TypeOK, Clock, Conn
<1>2. ASSUME NEW S, End(S), toClose' \subseteq toClose,
             UNCHANGED <<now, pc, sample, shown, missed, capped, limits, seen,
                         update, holders>>
      PROVE  TypeOK' /\ Clock'
  BY <1>2, Ended DEF TypeOK, Clock
<1>3. ASSUME NEW i \in ConnIds, Leave(i) \/ Close(i) PROVE TypeOK' /\ Clock'
  BY <1>2, <1>3 DEF Leave, Close
<1>4. ASSUME NEW i \in ConnIds, CloseFails(i) PROVE TypeOK' /\ Clock'
  BY <1>4 DEF CloseFails, TypeOK, Clock
<1>5. CASE Swap
  BY <1>2, <1>5 DEF Swap
<1>6. CASE Sample
  BY <1>6 DEF Sample, TypeOK, Clock
<1>7. CASE Enforce
  <2> DEFINE t == now'
  <2>1. now' = t /\ t \in (now + 1)..MaxTime /\ t \in 0..MaxTime
    BY <1>7 DEF Enforce, TypeOK
  <2>2. \A u \in Users :
          /\ DOMAIN seen'[u] \subseteq Addresses
          /\ \A a \in DOMAIN seen'[u] :
               /\ seen'[u][a] \in Slot /\ seen'[u][a].first <= seen'[u][a].last
               /\ seen'[u][a].last <= t
    <3> TAKE u \in Users
    <3>1. seen'[u] = Without(Refreshed(u, t), Stale(Refreshed(u, t), t))
      BY <1>7 DEF Enforce
    <3> QED BY <2>1, <3>1, Remembered
  <2>3. toClose' \subseteq DOMAIN sample
    BY <1>7 DEF Enforce
  <2>4. \A u \in Users : holders'[u] \subseteq Addresses
    BY <1>7, <2>2 DEF Enforce
  <2>5. /\ pc' = "closing" /\ missed' = {} /\ capped' = limits
        /\ UNCHANGED <<sample, shown, moves, conns, limits, update>>
    BY <1>7 DEF Enforce
  <2> HIDE DEF t
  <2>6. TypeOK'
    BY <2>1, <2>2, <2>3, <2>4, <2>5 DEF TypeOK
  <2>7. Clock'
    BY <2>1, <2>2, <2>5 DEF Clock
  <2> QED BY <2>6, <2>7
<1>8. CASE EnforceReturns
  <2>1. shown' \in [Users -> [ips : 0..Cardinality(Addresses),
                              conns : 0..Cardinality(ConnIds)]]
    <3>1. \A u \in Users : [ips |-> Counts(u), conns |-> Activity(u)] \in
            [ips : 0..Cardinality(Addresses), conns : 0..Cardinality(ConnIds)]
      BY CountsBounded
    <3> QED BY <1>8, <3>1 DEF EnforceReturns
  <2>2. NoLimits \in [Users -> 0..MaxLimit]
    BY DEF NoLimits
  <2> QED BY <1>8, <2>1, <2>2 DEF EnforceReturns, TypeOK, Clock, None
<1>9. ASSUME NEW l \in [Users -> 0..MaxLimit], NEW names \in SUBSET Users,
             SetLimits(l, names)
      PROVE  TypeOK' /\ Clock'
  BY <1>9 DEF SetLimits, TypeOK, Clock
<1>10. CASE Forget
  <2>1. \A u \in Users :
          /\ DOMAIN seen'[u] \subseteq DOMAIN seen[u]
          /\ \A a \in DOMAIN seen'[u] : seen'[u][a] = seen[u][a]
    BY <1>10 DEF Forget, None
  <2>2. \A u \in Users : holders'[u] \subseteq Addresses
    BY <1>10 DEF Forget, TypeOK
  <2>3. /\ upc' = "idle" /\ known' = Users
        /\ UNCHANGED <<conns, limits, moves, poll>>
    BY <1>10 DEF Forget
  <2> QED BY <2>1, <2>2, <2>3 DEF TypeOK, Clock
<1>11. CASE UNCHANGED vars
  BY <1>11 DEF vars, TypeOK, Clock
<1> QED BY <1>1, <1>2, <1>3, <1>4, <1>5, <1>6, <1>7, <1>8, <1>9, <1>10, <1>11
        DEF Next

-----------------------------------------------------------------------------
(* What a poll does to the places of one user: whoever held one and was there
   within the grace period has it again, and whoever has one has few before. *)
LEMMA PlacesAfter ==
  ASSUME TypeOK, Clock, Places, Enforce, NEW u \in Users
  PROVE  /\ \A a \in holders[u] :
              now' - seen[u][a].last <= Grace => a \in holders'[u]
         /\ \A a \in holders'[u] :
              /\ a \in DOMAIN seen'[u]
              /\ limits[u] > 0 =>
                   Cardinality(Predecessors(seen'[u], a)) < limits[u]
<1> DEFINE t == now'
           old == seen[u]
           new == Without(Refreshed(u, t), Stale(Refreshed(u, t), t))
<1>0. t \in (now + 1)..MaxTime
  BY DEF Enforce
<1>1. /\ seen'[u] = new
      /\ holders'[u] = DOMAIN new \ Over(new, limits[u])
  BY DEF Enforce
<1>2. /\ DOMAIN new \subseteq Addresses
      /\ \A a \in DOMAIN new :
           /\ new[a] \in Slot
           /\ a \in DOMAIN old => new[a].first = old[a].first
           /\ a \notin DOMAIN old => new[a].first = t
      /\ \A a \in DOMAIN old : t - old[a].last <= Grace => a \in DOMAIN new
  BY <1>0, Remembered
<1>3. /\ DOMAIN old \subseteq Addresses /\ limits[u] \in Nat /\ now \in Nat
      /\ t \in Nat /\ now < t
      /\ \A a \in DOMAIN old : old[a] \in Slot /\ old[a].first <= old[a].last
                               /\ old[a].last <= now
  BY <1>0, LimiterAssumption DEF TypeOK, Clock
<1> HIDE DEF new, old
<1>4. ASSUME NEW slots, DOMAIN slots \subseteq Addresses, NEW a
      PROVE  /\ IsFiniteSet(Predecessors(slots, a))
             /\ Cardinality(Predecessors(slots, a)) \in Nat
  BY <1>4, FS_Subset, FS_CardinalityType, LimiterAssumption DEF Predecessors
<1>5. ASSUME NEW a \in DOMAIN new \ Over(new, limits[u]), limits[u] > 0
      PROVE  Cardinality(Predecessors(new, a)) < limits[u]
  <2>1. ~ (Cardinality(Predecessors(new, a)) >= limits[u])
    BY <1>5 DEF Over, Predecessors
  <2>2. Cardinality(Predecessors(new, a)) \in Nat
    BY <1>2, <1>4
  <2> QED BY <1>3, <2>1, <2>2
<1>6. ASSUME NEW a \in holders[u], t - old[a].last <= Grace
      PROVE  a \in DOMAIN new \ Over(new, limits[u])
  <2>1. /\ a \in DOMAIN old
        /\ limits[u] > 0 => Cardinality(Predecessors(old, a)) < limits[u]
    BY DEF Places, old
  <2>2. a \in DOMAIN new /\ new[a].first = old[a].first
    BY <1>2, <1>6, <2>1
  <2>3. Predecessors(new, a) \subseteq Predecessors(old, a)
    <3> SUFFICES ASSUME NEW b \in DOMAIN new, Before(new, b, a)
                 PROVE  b \in DOMAIN old /\ Before(old, b, a)
      BY DEF Predecessors
    <3>1. old[a].first < t /\ old[a].first \in Nat /\ t \in Nat
      BY <1>3, <2>1 DEF Slot
    <3>2. new[b].first <= old[a].first
      BY <2>2, <1>2, <3>1 DEF Before, Slot
    <3>3. b \in DOMAIN old
      BY <1>2, <3>1, <3>2
    <3>4. new[b].first = old[b].first
      BY <1>2, <3>3
    <3> QED BY <2>2, <3>3, <3>4 DEF Before
  <2>4. Cardinality(Predecessors(new, a)) <= Cardinality(Predecessors(old, a))
    BY <1>3, <1>4, <2>3, FS_Subset
  <2>5. Cardinality(Predecessors(new, a)) \in Nat
        /\ Cardinality(Predecessors(old, a)) \in Nat
    BY <1>2, <1>3, <1>4
  <2>6. limits[u] > 0 => ~ (Cardinality(Predecessors(new, a)) >= limits[u])
    BY <1>3, <2>1, <2>4, <2>5
  <2>7. a \notin Over(new, limits[u])
    BY <2>6 DEF Over, Predecessors
  <2> QED BY <2>2, <2>7
<1> QED BY <1>1, <1>5, <1>6 DEF old

(* When a poll is done deciding, what it will not close comes from the addresses
   that got a place. *)
LEMMA CapAfter ==
  ASSUME TypeOK, Clock, Enforce, NEW u \in Users, limits[u] > 0
  PROVE  \E W \in SUBSET Addresses :
           /\ Cardinality(W) <= limits[u]
           /\ \A i \in DOMAIN sample \ toClose' :
                sample[i].user = u /\ sample[i].ip # NoAddress =>
                  sample[i].ip \in W
<1> DEFINE t == now'
           new == Without(Refreshed(u, t), Stale(Refreshed(u, t), t))
           W == Placed(new, limits[u])
<1>0. t \in (now + 1)..MaxTime
  BY DEF Enforce
<1>1. seen'[u] = new
  BY DEF Enforce
<1>2. /\ DOMAIN new \subseteq Addresses /\ Live(u) \subseteq DOMAIN new
      /\ \A a \in DOMAIN new : new[a] \in Slot
  BY <1>0, Remembered
<1>3. /\ DOMAIN new \subseteq Nat /\ IsFiniteSet(DOMAIN new)
      /\ \A a \in DOMAIN new : new[a].first \in Nat
  <2> HIDE DEF new
  <2>1. DOMAIN new \subseteq Nat /\ IsFiniteSet(DOMAIN new)
    BY <1>2, FS_Subset, LimiterAssumption
  <2>2. \A a \in DOMAIN new : new[a].first \in Nat
    BY <1>2 DEF Slot
  <2> QED BY <2>1, <2>2
<1>4. limits[u] \in Nat
  BY LimiterAssumption DEF TypeOK
<1>5. ASSUME NEW i \in DOMAIN sample \ toClose', sample[i].user = u,
             sample[i].ip # NoAddress
      PROVE  sample[i].ip \in W
  <2>1. sample[i].ip \in Live(u)
    BY <1>5 DEF Live, Of
  <2>2. sample[i].ip \notin Over(new, limits[u])
    <3>1. sample[i].ip \notin Over(seen'[u], limits[u])
      BY <1>5 DEF Enforce
    <3> QED BY <1>1, <3>1
  <2> QED BY <1>2, <2>1, <2>2 DEF Placed
<1> HIDE DEF new
<1>6. W \in SUBSET Addresses
  BY <1>2 DEF Placed
<1>7. Cardinality(W) <= limits[u]
  BY <1>3, <1>4, PlacedAreFew
<1> QED BY <1>5, <1>6, <1>7

(* A user one of whose connections is to be closed has as many places taken as
   the limit allows, none of them by that address, and all of them by addresses
   seen within the grace period. *)
LEMMA FullAfter ==
  ASSUME TypeOK, Clock, Enforce, NEW i \in toClose'
  PROVE  /\ sample[i].ip \notin holders'[sample[i].user]
         /\ Cardinality(holders'[sample[i].user]) = limits[sample[i].user]
         /\ \A a \in holders'[sample[i].user] :
              now' - seen'[sample[i].user][a].last <= Grace
<1> DEFINE u == sample[i].user
           t == now'
           new == Without(Refreshed(u, t), Stale(Refreshed(u, t), t))
<1>1. i \in DOMAIN sample /\ u \in Users
  BY DEF Enforce, TypeOK, Conn
<1>0. t \in (now + 1)..MaxTime
  BY DEF Enforce
<1>2. seen'[u] = new
  BY <1>1 DEF Enforce
<1>3. /\ DOMAIN new \subseteq Addresses
      /\ \A a \in DOMAIN new : new[a] \in Slot /\ t - new[a].last <= Grace
  BY <1>0, <1>1, Remembered
<1>4. /\ sample[i].ip \in Over(seen'[u], limits[u])
      /\ holders'[u] = DOMAIN seen'[u] \ Over(seen'[u], limits[u])
  BY <1>1 DEF Enforce
<1> HIDE DEF new
<1>5. DOMAIN new \subseteq Nat /\ IsFiniteSet(DOMAIN new)
  BY <1>3, FS_Subset, LimiterAssumption
<1>6. \A a \in DOMAIN new : new[a].first \in Nat
  BY <1>3 DEF Slot
<1>7. limits[u] \in Nat
  BY <1>1, LimiterAssumption DEF TypeOK
<1>8. /\ sample[i].ip \in Over(new, limits[u])
      /\ holders'[u] = Placed(new, limits[u])
  BY <1>2, <1>4 DEF Placed
<1> HIDE DEF u
<1>9. Cardinality(Placed(new, limits[u])) = limits[u]
  BY <1>5, <1>6, <1>7, <1>8, PlacedAreMany
<1>10. sample[i].ip \notin holders'[u] /\ Cardinality(holders'[u]) = limits[u]
  BY <1>8, <1>9 DEF Placed
<1>11. \A a \in holders'[u] : t - seen'[u][a].last <= Grace
  BY <1>2, <1>3, <1>8 DEF Placed
<1> QED BY <1>10, <1>11 DEF u

(* Every step keeps the rest of the invariant. *)
LEMMA InvStep == IInv /\ [Next]_vars => IInv'
<1> SUFFICES ASSUME IInv, [Next]_vars
             PROVE  Places' /\ Capped'
  BY TypeCorrectStep DEF IInv
<1> DEFINE Rest == Places /\ Capped
<1>0. TypeOK /\ Clock /\ Places /\ Capped
  BY DEF IInv
<1> USE <1>0 DEF poll, update
<1>1. ASSUME NEW i \in ConnIds, NEW u \in Users,
             NEW a \in Addresses \cup {NoAddress},
             Open(i, u, a)
      PROVE  Rest'
  <2>1. /\ i \notin DOMAIN sample /\ DOMAIN conns' = DOMAIN conns \cup {i}
        /\ UNCHANGED <<limits, seen, now, pc, sample, toClose, missed, capped,
                       holders>>
    BY <1>1 DEF Open
  <2>2. Capped'
    BY <2>1 DEF Capped, Few
  <2>3. Places'
    BY <2>1 DEF Places, Predecessors, Before
  <2> QED BY <2>2, <2>3
<1>2. ASSUME NEW S, End(S), toClose \subseteq toClose' \cup S,
             UNCHANGED <<limits, seen, now, pc, sample, missed, capped, holders>>
      PROVE  Rest'
  <2>1. DOMAIN conns' = DOMAIN conns \ S
    BY <1>2, Ended
  <2>2. Capped'
    BY <1>2, <2>1 DEF Capped, Few
  <2>3. Places'
    BY <1>2 DEF Places, Predecessors, Before
  <2> QED BY <2>2, <2>3
<1>3. ASSUME NEW i \in ConnIds, Leave(i) \/ Close(i) PROVE Rest'
  <2>1. /\ End({i}) /\ toClose \subseteq toClose' \cup {i}
        /\ UNCHANGED <<limits, seen, now, pc, sample, missed, capped, holders>>
    BY <1>3 DEF Leave, Close
  <2> QED BY <1>2, <2>1
<1>4. CASE Swap
  <2>1. /\ End(DOMAIN conns) /\ toClose \subseteq toClose' \cup DOMAIN conns
        /\ UNCHANGED <<limits, seen, now, pc, sample, missed, capped, holders>>
    BY <1>4 DEF Swap
  <2> QED BY <1>2, <2>1
<1>5. ASSUME NEW i \in ConnIds, CloseFails(i) PROVE Rest'
  <2>1. /\ toClose' = toClose \ {i} /\ missed' = missed \cup {i}
        /\ UNCHANGED <<now, pc, sample, capped, conns, limits, seen, holders>>
    BY <1>5 DEF CloseFails
  <2>2. Capped'
    BY <2>1 DEF Capped, Few
  <2>3. Places'
    BY <2>1 DEF Places, Predecessors, Before
  <2> QED BY <2>2, <2>3
<1>6. CASE Sample
  <2>1. /\ pc' = "sampled"
        /\ UNCHANGED <<now, limits, seen, holders>>
    BY <1>6 DEF Sample
  <2> QED BY <2>1 DEF Places, Predecessors, Before, Capped
<1>7. CASE Enforce
  <2>1. /\ pc = "sampled" /\ pc' = "closing" /\ missed' = {}
        /\ capped' = limits
        /\ UNCHANGED <<sample, conns, limits>>
    BY <1>7 DEF Enforce
  <2>2. Places'
    <3>1. \A u \in Users : \A a \in holders'[u] :
            /\ a \in DOMAIN seen'[u]
            /\ limits[u] > 0 =>
                 Cardinality(Predecessors(seen'[u], a)) < limits[u]
      BY <1>7, PlacesAfter
    <3> QED BY <2>1, <3>1 DEF Places, Predecessors, Before
  <2>3. Capped'
    <3> SUFFICES ASSUME NEW u \in Users, capped'[u] > 0
                 PROVE  \E W \in SUBSET Addresses : Few(u, W)'
      BY DEF Capped
    <3>1. PICK W \in SUBSET Addresses :
            /\ Cardinality(W) <= limits[u]
            /\ \A i \in DOMAIN sample \ toClose' :
                 sample[i].user = u /\ sample[i].ip # NoAddress =>
                   sample[i].ip \in W
      BY <1>7, <2>1, CapAfter
    <3>2. Few(u, W)'
      BY <2>1, <3>1 DEF Few
    <3> QED BY <3>2
  <2> QED BY <2>2, <2>3
<1>8. CASE EnforceReturns
  <2>1. pc' = "wait" /\ UNCHANGED <<now, limits, seen, holders>>
    BY <1>8 DEF EnforceReturns
  <2> QED BY <2>1 DEF Places, Predecessors, Before, Capped
<1>9. ASSUME NEW l \in [Users -> 0..MaxLimit], NEW names \in SUBSET Users,
              SetLimits(l, names)
       PROVE  Rest'
  <2>1. /\ limits' = l
        /\ UNCHANGED <<conns, seen, now, pc, sample, toClose, missed, capped>>
    BY <1>9 DEF SetLimits
  <2>2. Places'
    <3> SUFFICES ASSUME NEW u \in Users, NEW a \in holders'[u]
                 PROVE  /\ a \in DOMAIN seen[u]
                        /\ l[u] > 0 =>
                             Cardinality(Predecessors(seen[u], a)) < l[u]
      BY <2>1 DEF Places, Predecessors, Before
    <3>1. holders'[u] = IF l[u] = 0 \/ (limits[u] > 0 /\ l[u] >= limits[u])
                          THEN holders[u] ELSE {}
      BY <1>9 DEF SetLimits
    <3>2. /\ a \in holders[u]
          /\ l[u] = 0 \/ (limits[u] > 0 /\ l[u] >= limits[u])
      BY <3>1
    <3>3. /\ a \in DOMAIN seen[u]
          /\ limits[u] > 0 => Cardinality(Predecessors(seen[u], a)) < limits[u]
      BY <3>2 DEF Places
    <3>4. Cardinality(Predecessors(seen[u], a)) \in Nat
      BY FS_Subset, FS_CardinalityType, LimiterAssumption
         DEF Predecessors, TypeOK
    <3>5. l[u] \in Nat /\ limits[u] \in Nat
      BY LimiterAssumption DEF TypeOK
    <3> QED BY <3>2, <3>3, <3>4, <3>5
  <2>3. Capped'
    BY <2>1 DEF Capped, Few
  <2> QED BY <2>2, <2>3
<1>10. CASE Forget
  <2>1. /\ UNCHANGED <<conns, limits, now, pc, sample, toClose, missed, capped>>
        /\ \A u \in Users :
             \/ seen'[u] = seen[u] /\ holders'[u] = holders[u]
             \/ DOMAIN seen'[u] = {} /\ holders'[u] = {}
    BY <1>10 DEF Forget, None
  <2>2. Places'
    <3> SUFFICES ASSUME NEW u \in Users, NEW a \in holders'[u]
                 PROVE  /\ a \in DOMAIN seen'[u]
                        /\ limits[u] > 0 =>
                             Cardinality(Predecessors(seen'[u], a)) < limits[u]
      BY <2>1 DEF Places, Predecessors, Before
    <3>1. seen'[u] = seen[u] /\ a \in holders[u]
      BY <2>1
    <3> QED BY <3>1 DEF Places
  <2>3. Capped'
    BY <2>1 DEF Capped, Few
  <2> QED BY <2>2, <2>3
<1>11. CASE UNCHANGED vars
  BY <1>11 DEF vars, Places, Predecessors, Before, Capped, Few
<1> QED BY <1>1, <1>3, <1>4, <1>5, <1>6, <1>7, <1>8, <1>9, <1>10, <1>11
        DEF Next

(* The invariant holds in every reachable state. *)
THEOREM Invariance == Spec => []IInv
BY InvInit, InvStep, PTL DEF Spec

(* Everything the limiter keeps stays of its type: no slot ends before it began,
   and no count exceeds what there is to count. *)
THEOREM TypeCorrect == Spec => []TypeOK
<1>1. IInv => TypeOK
  BY DEF IInv
<1> QED BY <1>1, Invariance, PTL

(* Once a poll is over, what it saw and closed or left comes from no more
   addresses than each limit allows. *)
THEOREM CapHolds == Spec => []CapIsEnforced
<1>1. IInv => CapIsEnforced
  <2> SUFFICES ASSUME IInv, pc = "closing", toClose = {},
                      NEW u \in Users, capped[u] > 0
               PROVE  Cardinality({sample[i].ip : i \in
                        {j \in DOMAIN sample \ missed :
                           j \in DOMAIN conns /\ sample[j].user = u}} \ {NoAddress})
                          <= capped[u]
    BY DEF CapIsEnforced
  <2> DEFINE Left == {sample[i].ip : i \in
                        {j \in DOMAIN sample \ missed :
                           j \in DOMAIN conns /\ sample[j].user = u}} \ {NoAddress}
  <2>1. PICK W \in SUBSET Addresses : Few(u, W)
    BY DEF IInv, Capped
  <2>2. Left \subseteq W
    BY <2>1 DEF Few
  <2>3. IsFiniteSet(W)
    BY <2>1, FS_Subset, LimiterAssumption
  <2>4. Cardinality(Left) <= Cardinality(W) /\ IsFiniteSet(Left)
    <3> HIDE DEF Left
    <3> QED BY <2>2, <2>3, FS_Subset
  <2>5. Cardinality(Left) \in Nat /\ Cardinality(W) \in Nat
    BY <2>3, <2>4, FS_CardinalityType
  <2>6. Cardinality(W) <= capped[u] /\ capped[u] \in Nat
    BY <2>1, LimiterAssumption DEF Few, IInv, TypeOK
  <2> HIDE DEF Left
  <2>7. Cardinality(Left) <= capped[u]
    BY <2>4, <2>5, <2>6
  <2> QED BY <2>7 DEF Left
<1> QED BY <1>1, Invariance, PTL

(* An address that has its place keeps it from poll to poll. *)
THEOREM PlacesKept == Spec => PlacesAreKept
<1> DEFINE Kept ==
      pc = "sampled" /\ pc' = "closing" =>
        \A u \in Users : \A a \in holders[u] :
          now' - seen[u][a].last <= Grace => a \in holders'[u]
<1>1. IInv /\ [Next]_vars => [Kept]_vars
  <2> SUFFICES ASSUME IInv, [Next]_vars, pc = "sampled", pc' = "closing"
               PROVE  Kept
    OBVIOUS
  <2>1. Enforce
    BY DEF Next, vars, poll, update, Open, Leave, Close, CloseFails, Swap,
           Sample, EnforceReturns, SetLimits, Forget
  <2> QED BY <2>1, PlacesAfter DEF IInv
<1> QED BY <1>1, Invariance, PTL DEF Spec, PlacesAreKept

(* Nobody is cut off while a place is free, for any addresses and limits. *)
THEOREM CutsAreDue == Spec => CutOnlyWhenFull
<1> DEFINE Due ==
      pc = "sampled" /\ pc' = "closing" =>
        \A i \in toClose' :
          /\ sample[i].ip \notin holders'[sample[i].user]
          /\ Cardinality(holders'[sample[i].user]) = limits[sample[i].user]
          /\ \A a \in holders'[sample[i].user] :
               now' - seen'[sample[i].user][a].last <= Grace
<1>1. IInv /\ [Next]_vars => [Due]_vars
  <2> SUFFICES ASSUME IInv, [Next]_vars, pc = "sampled", pc' = "closing"
               PROVE  Due
    OBVIOUS
  <2>1. Enforce
    BY DEF Next, vars, poll, update, Open, Leave, Close, CloseFails, Swap,
           Sample, EnforceReturns, SetLimits, Forget
  <2> QED BY <2>1, FullAfter DEF IInv
<1> QED BY <1>1, Invariance, PTL DEF Spec, CutOnlyWhenFull

-----------------------------------------------------------------------------
(* Every connection was read by the poll in progress or is that of somebody who
   came since, and every one it read is there or of somebody who went. *)
Tracked ==
  pc # "wait" =>
    /\ \A i \in DOMAIN conns :
         (i \in DOMAIN sample /\ sample[i] = conns[i]) \/ conns[i].user \in came
    /\ \A i \in DOMAIN sample :
         (i \in DOMAIN conns /\ sample[i] = conns[i]) \/ sample[i].user \in went

(* Who a sample has connections of, and addresses of. *)
LEMMA OneSample ==
  ASSUME TypeOK, NEW u \in Users
  PROVE  /\ Activity(u) > 0 <=> Of(u, sample) # {}
         /\ Counts(u) > 0 => Of(u, sample) # {}
<1> DEFINE O == Of(u, sample)
<1>1. IsFiniteSet(O) /\ IsFiniteSet(Live(u))
  BY CountsBounded, FS_Subset, LimiterAssumption
<1>2. Cardinality(Live(u)) \in Nat /\ Cardinality(O) \in Nat
  <2> HIDE DEF O
  <2> QED BY <1>1, FS_CardinalityType
<1>3. /\ Cardinality(Live(u)) = 0 <=> Live(u) = {}
      /\ Cardinality(O) = 0 <=> O = {}
  <2> HIDE DEF O
  <2> QED BY <1>1, FS_EmptySet
<1>4. O = {} => Live(u) = {}
  BY DEF Live
<1>5. Counts(u) = Cardinality(Live(u)) /\ Activity(u) = Cardinality(O)
  BY DEF Counts, Activity
<1> HIDE DEF O
<1>6. (Activity(u) > 0 <=> O # {}) /\ (Counts(u) > 0 => O # {})
  BY <1>2, <1>3, <1>4, <1>5
<1> QED BY <1>6 DEF O

(* Whoever opens a connection or loses one since the sample is noted, however it
   came about. *)
LEMMA TrackedStep ==
  TypeOK /\ Tracked /\ ReportsAgree /\ [Next]_vars => Tracked' /\ ReportsAgree'
<1> SUFFICES ASSUME TypeOK, Tracked, ReportsAgree, [Next]_vars
             PROVE  Tracked' /\ ReportsAgree'
  OBVIOUS
<1> USE DEF poll, update, moves
<1>1. ASSUME NEW i \in ConnIds, NEW u \in Users,
             NEW a \in Addresses \cup {NoAddress}, Open(i, u, a)
      PROVE  Tracked' /\ ReportsAgree'
  <2>1. /\ i \notin DOMAIN conns /\ i \notin DOMAIN sample
        /\ DOMAIN conns' = DOMAIN conns \cup {i}
        /\ \A j \in DOMAIN conns : conns'[j] = conns[j]
        /\ conns'[i].user = u
        /\ came' = came \cup {u}
        /\ UNCHANGED <<pc, sample, shown, went>>
    BY <1>1 DEF Open
  <2>2. Tracked'
    BY <2>1 DEF Tracked
  <2>3. Online \subseteq Online' /\ Online' \subseteq Online \cup {u}
    <3>1. \A j \in DOMAIN conns : conns'[j].user = conns[j].user
      BY <2>1
    <3>2. \A j \in DOMAIN conns' :
            \/ j \in DOMAIN conns /\ conns'[j].user = conns[j].user
            \/ conns'[j].user = u
      BY <2>1, <3>1
    <3>3. DOMAIN conns \subseteq DOMAIN conns'
      BY <2>1
    <3> QED BY <3>1, <3>2, <3>3 DEF Online
  <2> QED BY <2>1, <2>2, <2>3 DEF ReportsAgree
<1>2. ASSUME NEW S, End(S), UNCHANGED <<pc, sample, shown>>
      PROVE  Tracked' /\ ReportsAgree'
  <2>1. /\ DOMAIN conns' \subseteq DOMAIN conns
        /\ \A i \in DOMAIN conns' : conns'[i] = conns[i]
        /\ \A i \in DOMAIN conns \ DOMAIN conns' : conns[i].user \in went'
        /\ went \subseteq went' /\ came' = came
    BY <1>2, Ended
  <2>2. ASSUME pc' # "wait", NEW i \in DOMAIN conns'
        PROVE  \/ i \in DOMAIN sample' /\ sample'[i] = conns'[i]
               \/ conns'[i].user \in came'
    BY <1>2, <2>1, <2>2 DEF Tracked
  <2>3. ASSUME pc' # "wait", NEW i \in DOMAIN sample'
        PROVE  \/ i \in DOMAIN conns' /\ sample'[i] = conns'[i]
               \/ sample'[i].user \in went'
    <3>1. \/ i \in DOMAIN conns /\ sample[i] = conns[i]
          \/ sample[i].user \in went
      BY <1>2, <2>3 DEF Tracked
    <3> QED BY <1>2, <2>1, <3>1
  <2>4. Tracked'
    BY <2>2, <2>3 DEF Tracked
  <2>5. Online' \subseteq Online /\ \A u \in Online \ Online' : u \in went'
    BY <2>1 DEF Online
  <2> QED BY <1>2, <2>1, <2>4, <2>5 DEF ReportsAgree
<1>3. ASSUME NEW i \in ConnIds, Leave(i) \/ Close(i)
      PROVE  Tracked' /\ ReportsAgree'
  <2>1. End({i}) /\ UNCHANGED <<pc, sample, shown>>
    BY <1>3 DEF Leave, Close
  <2> QED BY <1>2, <2>1
<1>4. CASE Swap
  <2>1. End(DOMAIN conns) /\ UNCHANGED <<pc, sample, shown>>
    BY <1>4 DEF Swap
  <2> QED BY <1>2, <2>1
<1>5. CASE Sample
  BY <1>5 DEF Sample, Tracked, ReportsAgree
<1>6. CASE EnforceReturns
  <2>1. /\ pc = "closing" /\ pc' = "wait"
        /\ UNCHANGED <<conns, came, went>>
        /\ \A u \in Users :
             shown'[u].ips = Counts(u) /\ shown'[u].conns = Activity(u)
    BY <1>6 DEF EnforceReturns
  <2>2. Online' = Online /\ Online \subseteq Users
    BY <2>1 DEF Online, TypeOK, Conn
  <2>3. ASSUME NEW u \in Online, shown'[u].conns = 0 PROVE u \in came
    <3>1. PICK i \in DOMAIN conns : conns[i].user = u
      BY DEF Online
    <3>2. ~ (i \in DOMAIN sample /\ sample[i] = conns[i])
      <4>1. Of(u, sample) = {}
        BY <2>1, <2>2, <2>3, OneSample
      <4> QED BY <3>1, <4>1 DEF Of
    <3> QED BY <2>1, <3>1, <3>2 DEF Tracked
  <2>4. ASSUME NEW u \in Users \ Online, shown'[u].conns > 0 \/ shown'[u].ips > 0
        PROVE  u \in went
    <3>1. PICK i \in DOMAIN sample : sample[i].user = u
      BY <2>1, <2>4, OneSample DEF Of
    <3>2. ~ (i \in DOMAIN conns /\ sample[i] = conns[i])
      BY <2>4, <3>1 DEF Online
    <3> QED BY <2>1, <3>1, <3>2 DEF Tracked
  <2> QED BY <2>1, <2>2, <2>3, <2>4 DEF Tracked, ReportsAgree
<1>7. CASE Enforce
  <2>1. /\ pc # "wait" /\ pc' # "wait"
        /\ UNCHANGED <<conns, sample, came, went>>
    BY <1>7 DEF Enforce
  <2> QED BY <2>1 DEF Tracked, ReportsAgree
<1>8. CASE UNCHANGED <<conns, pc, sample, shown, came, went>>
  BY <1>8 DEF Tracked, ReportsAgree, Online
<1>9. ASSUME NEW i \in ConnIds, CloseFails(i)
      PROVE  UNCHANGED <<conns, pc, sample, shown, came, went>>
  BY <1>9 DEF CloseFails
<1>10. ASSUME NEW l \in [Users -> 0..MaxLimit], NEW names \in SUBSET Users,
              SetLimits(l, names)
       PROVE  UNCHANGED <<conns, pc, sample, shown, came, went>>
  BY <1>10 DEF SetLimits
<1>11. CASE Forget \/ UNCHANGED vars
  BY <1>8, <1>11 DEF Forget, vars
<1> QED BY <1>1, <1>3, <1>4, <1>5, <1>6, <1>7, <1>8, <1>9, <1>10, <1>11
        DEF Next

(* A report that names somebody without numbers, or has numbers for somebody it
   does not name, is about a user who came or went since the poll. *)
THEOREM NamesAndNumbers == Spec => []ReportsAgree
<1>1. Init => Tracked /\ ReportsAgree
  BY DEF Init, Tracked, ReportsAgree, Online, None
<1>2. IInv => TypeOK
  BY DEF IInv
<1> QED BY <1>1, <1>2, TrackedStep, Invariance, PTL DEF Spec
=============================================================================
