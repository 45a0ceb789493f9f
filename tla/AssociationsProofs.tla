------------------------- MODULE AssociationsProofs -------------------------
(***************************************************************************)
(* Proofs about Associations, for any hosts, pools and configurations.     *)
(* The hard limit is looked at when a pool asks for more, not when the     *)
(* answer comes.  So each pool has as many slots as it may have lookups    *)
(* under way, a lookup or a request in progress takes one, and the         *)
(* invariant is that the free ones are what separates the count from the   *)
(* bound.                                                                  *)
(***************************************************************************)
EXTENDS Associations, FiniteSetTheorems, TLAPS

\* What a pool can still add without asking transmit() again: its lookups, and
\* the host that was asked.
Pending(p) == lookups[p] + (IF solicited[p] = None THEN 0 ELSE 1)

Slots == Pools \X (1 .. MaxLookups)
Unused == {s \in Slots : s[2] > Pending(s[1])}

\* A pool that has addresses left has given up a lookup for them.
PendingFits ==
    \A p \in Pools : Pending(p) <= MaxLookups /\ (ai[p] # {} => lookups[p] < MaxLookups)

\* Whatever was or can still be added was wanted when there was room for all of it.
RoomForPending ==
    DOMAIN peer # config.hosts \/ (\E p \in Pools : Pending(p) > 0)
    => count <= 2 * MaxClock + Cardinality(Unused)

AssociationsInv == TypeOK /\ PendingFits /\ RoomForPending

LEMMA Bounds ==
  /\ IsFiniteSet(Hosts) /\ IsFiniteSet(Pools) /\ None \notin Hosts
  /\ MaxClock \in Nat \ {0} /\ MinClock \in Nat \ {0} /\ Shift \in Nat \ {0}
  /\ Unreach \in Nat \ {0} /\ MaxLookups \in Nat \ {0} /\ MaxEvents \in Nat
BY AssociationsAssumption

LEMMA HostCount ==
  /\ Cardinality(Hosts) \in Nat /\ Cardinality(Pools) \in Nat
  /\ \A S \in SUBSET Hosts :
        IsFiniteSet(S) /\ Cardinality(S) \in Nat /\ Cardinality(S) <= Cardinality(Hosts)
BY Bounds, FS_Subset, FS_CardinalityType

LEMMA SlotCount == IsFiniteSet(Slots) /\ Cardinality(Slots) = MaxLookups * Cardinality(Pools)
<1>1. IsFiniteSet(1 .. MaxLookups) /\ Cardinality(1 .. MaxLookups) = MaxLookups
  <2>1. 1 \in Int /\ MaxLookups \in Int /\ MaxLookups > 0
    BY Bounds
  <2>2. IsFiniteSet(1 .. MaxLookups)
        /\ Cardinality(1 .. MaxLookups) = IF 1 > MaxLookups THEN 0 ELSE MaxLookups - 1 + 1
    BY <2>1, FS_Interval
  <2> QED BY <2>1, <2>2
<1>2. IsFiniteSet(Slots) /\ Cardinality(Slots) = Cardinality(Pools) * MaxLookups
  BY <1>1, Bounds, FS_Product DEF Slots
<1> QED BY <1>2, Bounds, HostCount

LEMMA UnusedCount ==
  IsFiniteSet(Unused) /\ Cardinality(Unused) \in Nat /\ Cardinality(Unused) <= Cardinality(Slots)
BY SlotCount, FS_Subset, FS_CardinalityType DEF Unused

-----------------------------------------------------------------------------
\* What the selection makes of associations are associations of the same hosts.
Peers(ps) == ps = [h \in DOMAIN ps |-> ps[h]] /\ \A h \in DOMAIN ps : ps[h] \in Association

GoodOutcome(o, ps) ==
  /\ DOMAIN o.peer = DOMAIN ps /\ Peers(o.peer)
  /\ o.survivors \in 0 .. Cardinality(Hosts) /\ o.events \in 0 .. MaxEvents

Statuses == {"reject", "candidate", "excess"}

LEMMA AssociationFields ==
  ASSUME NEW a \in Association
  PROVE  /\ a.reach \in 0 .. Shift /\ a.unreach \in 0 .. Unreach
         /\ a.synced \in BOOLEAN /\ a.asked \in BOOLEAN /\ a.status \in Statuses
         /\ a = [reach |-> a.reach, unreach |-> a.unreach, synced |-> a.synced,
                 asked |-> a.asked, status |-> a.status]
BY DEF Association, Statuses

LEMMA ChangedAssociation ==
  ASSUME NEW r \in 0 .. Shift, NEW u \in 0 .. Unreach, NEW s \in BOOLEAN, NEW k \in BOOLEAN,
         NEW st \in Statuses
  PROVE  [reach |-> r, unreach |-> u, synced |-> s, asked |-> k, status |-> st] \in Association
BY DEF Association, Statuses

LEMMA FreshIsAssociation == Fresh \in Association
<1>1. 0 \in 0 .. Shift /\ 0 \in 0 .. Unreach /\ FALSE \in BOOLEAN /\ "reject" \in Statuses
  BY Bounds DEF Statuses
<1> QED BY <1>1, ChangedAssociation DEF Fresh

LEMMA MarkedPeers ==
  ASSUME NEW ps, Peers(ps), NEW trues, NEW vote
  PROVE  Peers(Marked(ps, trues, vote)) /\ DOMAIN Marked(ps, trues, vote) = DOMAIN ps
<1>1. ASSUME NEW h \in DOMAIN ps PROVE Marked(ps, trues, vote)[h] \in Association
  <2>1. ps[h] \in Association
    BY DEF Peers
  <2>2. PICK st \in Statuses :
          st = IF h \in vote.backup THEN "excess" ELSE IF h \in trues THEN "candidate" ELSE "reject"
    BY DEF Statuses
  <2>3. PICK u \in 0 .. Unreach : u = IF h \in vote.left THEN 0 ELSE ps[h].unreach
    BY <2>1, Bounds, AssociationFields
  <2>4. Marked(ps, trues, vote)[h] = [ps[h] EXCEPT !.status = st, !.unreach = u]
    BY <2>2, <2>3 DEF Marked
  <2>5. Marked(ps, trues, vote)[h] = [reach |-> ps[h].reach, unreach |-> u, synced |-> ps[h].synced,
                                      asked |-> ps[h].asked, status |-> st]
    BY <2>1, <2>4, AssociationFields
  <2> QED BY <2>1, <2>3, <2>2, <2>5, AssociationFields, ChangedAssociation
<1> QED BY <1>1 DEF Marked, Peers

LEMMA UnwoundPeers ==
  ASSUME NEW ps, Peers(ps), NEW vote
  PROVE  Peers(Unwound(ps, vote)) /\ DOMAIN Unwound(ps, vote) = DOMAIN ps
<1>1. ASSUME NEW h \in DOMAIN ps PROVE Unwound(ps, vote)[h] \in Association
  <2>1. ps[h] \in Association
    BY DEF Peers
  <2>2. PICK u \in 0 .. Unreach : u = IF h \in vote.left THEN 0 ELSE ps[h].unreach
    BY <2>1, Bounds, AssociationFields
  <2>3. Unwound(ps, vote)[h] = [ps[h] EXCEPT !.unreach = u]
    BY <2>2 DEF Unwound
  <2>4. Unwound(ps, vote)[h] = [reach |-> ps[h].reach, unreach |-> u, synced |-> ps[h].synced,
                                asked |-> ps[h].asked, status |-> ps[h].status]
    BY <2>1, <2>3, AssociationFields
  <2> QED BY <2>1, <2>2, <2>4, AssociationFields, ChangedAssociation
<1> QED BY <1>1 DEF Unwound, Peers

LEMMA ClearedPeers ==
  ASSUME NEW ps, Peers(ps)
  PROVE  Peers(Cleared(ps)) /\ DOMAIN Cleared(ps) = DOMAIN ps
<1>1. ASSUME NEW h \in DOMAIN ps PROVE Cleared(ps)[h] \in Association
  <2>1. ps[h].unreach \in 0 .. Unreach
    BY AssociationFields DEF Peers
  <2>2. Cleared(ps)[h] = [reach |-> 0, unreach |-> ps[h].unreach, synced |-> FALSE, asked |-> FALSE,
                          status |-> "reject"]
    BY DEF Cleared, Fresh
  <2>3. 0 \in 0 .. Shift /\ FALSE \in BOOLEAN /\ "reject" \in Statuses
    BY Bounds DEF Statuses
  <2> QED BY <2>1, <2>2, <2>3, ChangedAssociation
<1> QED BY <1>1 DEF Cleared, Peers

LEMMA OtherwisePeers ==
  ASSUME NEW ps, Peers(ps), NEW h, NEW trues, NEW vote,
         NEW q \in Otherwise(ps, h, trues, vote)
  PROVE  Peers(q) /\ DOMAIN q = DOMAIN ps /\ events # MaxEvents
<1>1. events # MaxEvents
  BY DEF Otherwise
<1>2. q = Cleared(Marked(ps, trues, vote)) \/ q = Unwound(ps, vote)
  BY DEF Otherwise
<1>3. CASE q = Cleared(Marked(ps, trues, vote))
  <2>1. Peers(Marked(ps, trues, vote)) /\ DOMAIN Marked(ps, trues, vote) = DOMAIN ps
    BY MarkedPeers
  <2>2. Peers(Cleared(Marked(ps, trues, vote)))
        /\ DOMAIN Cleared(Marked(ps, trues, vote)) = DOMAIN Marked(ps, trues, vote)
    BY <2>1, ClearedPeers
  <2> QED BY <1>1, <1>3, <2>1, <2>2
<1>4. CASE q = Unwound(ps, vote)
  BY <1>1, <1>4, UnwoundPeers
<1> QED BY <1>2, <1>3, <1>4

LEMMA FilteredIsGood ==
  ASSUME NEW ps, Peers(ps), DOMAIN ps \subseteq Hosts,
         survivors \in 0 .. Cardinality(Hosts), events \in 0 .. MaxEvents,
         NEW h, NEW o \in Filtered(ps, h)
  PROVE  GoodOutcome(o, ps)
<1> DEFINE trues == Truechimers(Fit(ps))
<1>1. trues \in SUBSET Hosts
  BY DEF Truechimers, Fit
<1>2. \/ \E v \in Votes(trues) : o = Outcome(Marked(ps, trues, v), Cardinality(v.left))
      \/ \E v \in Votes(trues) : \E q \in Otherwise(ps, h, trues, v) :
            o = [Outcome(q, Cardinality(v.left)) EXCEPT !.events = @ + 1]
      \/ events < MaxEvents /\ o = [Outcome(ps, survivors) EXCEPT !.events = @ + 1]
  BY DEF Filtered, Selections
<1> HIDE DEF trues
<1>3. ASSUME NEW v \in Votes(trues) PROVE Cardinality(v.left) \in 0 .. Cardinality(Hosts)
  <2>1. \E l \in SUBSET trues : \E b : v = [left |-> l, backup |-> b]
    BY DEF Votes
  <2>2. v.left \in SUBSET trues
    BY <2>1
  <2> QED BY <1>1, <2>2, HostCount
<1>4. ASSUME NEW v \in Votes(trues), o = Outcome(Marked(ps, trues, v), Cardinality(v.left))
      PROVE  GoodOutcome(o, ps)
  <2>1. o.peer = Marked(ps, trues, v) /\ o.survivors = Cardinality(v.left) /\ o.events = events
    BY <1>4 DEF Outcome
  <2> QED BY <1>3, <2>1, MarkedPeers DEF GoodOutcome
<1>5. ASSUME NEW v \in Votes(trues), NEW q \in Otherwise(ps, h, trues, v),
             o = [Outcome(q, Cardinality(v.left)) EXCEPT !.events = @ + 1]
      PROVE  GoodOutcome(o, ps)
  <2>1. o.peer = q /\ o.survivors = Cardinality(v.left) /\ o.events = events + 1
    BY <1>5 DEF Outcome
  <2>2. Peers(q) /\ DOMAIN q = DOMAIN ps /\ events # MaxEvents
    BY OtherwisePeers
  <2>3. events + 1 \in 0 .. MaxEvents
    BY <2>2, Bounds
  <2> QED BY <1>3, <2>1, <2>2, <2>3 DEF GoodOutcome
<1>6. ASSUME events < MaxEvents, o = [Outcome(ps, survivors) EXCEPT !.events = @ + 1]
      PROVE  GoodOutcome(o, ps)
  <2>1. o.peer = ps /\ o.survivors = survivors /\ o.events = events + 1
    BY <1>6 DEF Outcome
  <2> QED BY <1>6, <2>1, Bounds DEF GoodOutcome
<1> QED BY <1>2, <1>4, <1>5, <1>6

-----------------------------------------------------------------------------
LEMMA InitAssociationsInv == Init => AssociationsInv
<1> SUFFICES ASSUME Init PROVE AssociationsInv
  OBVIOUS
<1>1. /\ config.hosts \in SUBSET Hosts /\ config.lines \in Nat /\ config \in Configurations
  BY AssociationsAssumption DEF Init
<1>2. Fresh \in Association
  BY FreshIsAssociation
<1>3. DOMAIN peer = config.hosts /\ peer \in [DOMAIN peer -> Association]
  BY <1>2 DEF Init
<1>4. TypeOK
  BY <1>1, <1>3, HostCount, Bounds DEF Init, TypeOK
<1>5. \A p \in Pools : Pending(p) = 0 /\ ai[p] = {} /\ lookups[p] = 0
  BY DEF Init, Pending
<1> QED BY <1>3, <1>4, <1>5, Bounds DEF AssociationsInv, PendingFits, RoomForPending

LEMMA CountIsNat ==
  (TypeOK => count \in Nat) /\ (TypeOK' => count' \in Nat)
<1>1. ASSUME TypeOK PROVE count \in Nat
  <2>1. DOMAIN peer \in SUBSET Hosts /\ config.lines \in Nat
    BY <1>1, AssociationsAssumption DEF TypeOK
  <2> QED BY <1>1, <2>1, HostCount DEF TypeOK
<1>2. ASSUME TypeOK' PROVE count' \in Nat
  <2>1. DOMAIN peer' \in SUBSET Hosts /\ config'.lines \in Nat
    BY <1>2, AssociationsAssumption DEF TypeOK
  <2> QED BY <1>2, <2>1, HostCount DEF TypeOK
<1> QED BY <1>1, <1>2

\* Steps that leave the pools alone and make no association
LEMMA PoolsUntouched ==
  ASSUME AssociationsInv, TypeOK', UNCHANGED <<pools, config>>,
         DOMAIN peer' # config.hosts => DOMAIN peer # config.hosts, count' <= count
  PROVE  AssociationsInv'
<1>1. \A p \in Pools : Pending(p)' = Pending(p)
  BY DEF Pending, pools
<1>2. Unused' = Unused
  BY <1>1 DEF Unused, Slots
<1>3. count \in Int /\ count' \in Int
  BY HostCount, CountIsNat DEF AssociationsInv
<1> QED BY <1>1, <1>2, <1>3, UnusedCount, Bounds DEF AssociationsInv, PendingFits, RoomForPending, pools

LEMMA PeersType ==
  ASSUME TypeOK
  PROVE  /\ Peers(peer) /\ DOMAIN peer \in SUBSET Hosts
         /\ survivors \in 0 .. Cardinality(Hosts) /\ events \in 0 .. MaxEvents
         /\ config.hosts \in SUBSET DOMAIN peer
BY DEF TypeOK, Peers

\* Steps that change associations only
LEMMA TypeFollows ==
  ASSUME TypeOK, UNCHANGED <<pools, config>>, up' \subseteq Hosts,
         Peers(peer'), DOMAIN peer' \in SUBSET Hosts, config.hosts \subseteq DOMAIN peer',
         survivors' \in 0 .. Cardinality(Hosts), events' \in 0 .. MaxEvents,
         count' = Cardinality(DOMAIN peer') + Cardinality(Pools) + config.lines
  PROVE  TypeOK'
<1>1. peer' \in [DOMAIN peer' -> Association]
  BY DEF Peers
<1> QED BY <1>1 DEF TypeOK, pools

LEMMA PolledPeers ==
  ASSUME Peers(peer), NEW h \in DOMAIN peer
  PROVE  Peers(Polled(h)) /\ DOMAIN Polled(h) = DOMAIN peer
<1>1. peer[h] \in Association
  BY DEF Peers
<1>2. PICK r \in 0 .. Shift : r = Larger(0, peer[h].reach - 1)
  BY <1>1, Bounds, AssociationFields DEF Larger
<1>3. PICK u \in 0 .. Unreach :
        u = IF r > 0 /\ h \in config.hosts THEN 0 ELSE Lesser(Unreach, peer[h].unreach + 1)
  BY <1>1, Bounds, AssociationFields DEF Lesser
<1>4. Polled(h) = [peer EXCEPT ![h].reach = r, ![h].unreach = u]
  BY <1>2, <1>3 DEF Polled
<1>5. /\ Polled(h) = [x \in DOMAIN peer |-> Polled(h)[x]]
      /\ \A x \in DOMAIN peer : x # h => Polled(h)[x] = peer[x]
      /\ Polled(h)[h] = [[peer[h] EXCEPT !.reach = r] EXCEPT !.unreach = u]
  BY <1>4 DEF Peers
<1>6. Polled(h)[h] = [reach |-> r, unreach |-> u, synced |-> peer[h].synced,
                      asked |-> peer[h].asked, status |-> peer[h].status]
  BY <1>1, <1>5, AssociationFields
<1>7. Polled(h)[h] \in Association
  BY <1>1, <1>2, <1>3, <1>6, AssociationFields, ChangedAssociation
<1> QED BY <1>5, <1>7 DEF Peers

\* An answer on its way, or no longer
LEMMA AskedPeers ==
  ASSUME NEW ps, Peers(ps), NEW h \in DOMAIN ps, NEW b \in BOOLEAN
  PROVE  Peers([ps EXCEPT ![h].asked = b]) /\ DOMAIN [ps EXCEPT ![h].asked = b] = DOMAIN ps
<1> DEFINE new == [ps EXCEPT ![h].asked = b]
<1>1. ps[h] \in Association
  BY DEF Peers
<1>2. /\ new = [x \in DOMAIN ps |-> new[x]]
      /\ \A x \in DOMAIN ps : x # h => new[x] = ps[x]
      /\ new[h] = [ps[h] EXCEPT !.asked = b]
  BY DEF Peers
<1> HIDE DEF new
<1>3. new[h] = [reach |-> ps[h].reach, unreach |-> ps[h].unreach, synced |-> ps[h].synced,
                asked |-> b, status |-> ps[h].status]
  BY <1>1, <1>2, AssociationFields
<1>4. new[h] \in Association
  BY <1>1, <1>3, AssociationFields, ChangedAssociation
<1>5. Peers(new) /\ DOMAIN new = DOMAIN ps
  BY <1>2, <1>4 DEF Peers
<1> QED BY <1>5 DEF new

LEMMA PollAssociationsInv ==
  ASSUME AssociationsInv, UNCHANGED config, NEW h \in Hosts, Poll(h)
  PROVE  AssociationsInv'
<1>0. TypeOK
  BY DEF AssociationsInv
<1>1. /\ Peers(peer) /\ DOMAIN peer \in SUBSET Hosts
      /\ survivors \in 0 .. Cardinality(Hosts) /\ events \in 0 .. MaxEvents
      /\ config.hosts \in SUBSET DOMAIN peer
  BY <1>0, PeersType
<1>2. h \in DOMAIN peer /\ UNCHANGED <<pools, up>>
  BY DEF Poll
<1>3. PICK ps : Peers(ps) /\ DOMAIN ps = DOMAIN peer /\
        \E o \in IF ps[h].reach > 0 THEN {Outcome(ps, survivors)} ELSE Filtered(ps, h) :
          /\ Take(o)
          /\ IF Preempted(o.peer, h)
             THEN peer' = Restrict(o.peer, DOMAIN peer \ {h}) /\ count' = count - 1
             ELSE peer' = [o.peer EXCEPT ![h].asked = h \in up] /\ UNCHANGED count
  BY <1>1, <1>2, PolledPeers DEF Poll
<1>4. PICK o : GoodOutcome(o, ps) /\ Take(o) /\
        IF Preempted(o.peer, h)
        THEN peer' = Restrict(o.peer, DOMAIN peer \ {h}) /\ count' = count - 1
        ELSE peer' = [o.peer EXCEPT ![h].asked = h \in up] /\ UNCHANGED count
  <2>1. GoodOutcome(Outcome(ps, survivors), ps)
    <3>1. /\ Outcome(ps, survivors).peer = ps /\ Outcome(ps, survivors).survivors = survivors
          /\ Outcome(ps, survivors).events = events
      BY DEF Outcome
    <3> QED BY <1>1, <1>3, <3>1 DEF GoodOutcome
  <2>2. \A o \in Filtered(ps, h) : GoodOutcome(o, ps)
    BY <1>1, <1>3, FilteredIsGood
  <2> QED BY <1>3, <2>1, <2>2
<1>5. survivors' \in 0 .. Cardinality(Hosts) /\ events' \in 0 .. MaxEvents
  BY <1>4 DEF Take, GoodOutcome
<1>6. Peers(o.peer) /\ DOMAIN o.peer = DOMAIN peer
  BY <1>3, <1>4 DEF GoodOutcome
<1>7. count \in Nat /\ count = Cardinality(DOMAIN peer) + Cardinality(Pools) + config.lines
      /\ up \subseteq Hosts /\ config.lines \in Nat
  BY <1>0, CountIsNat, AssociationsAssumption DEF TypeOK
<1>8. CASE Preempted(o.peer, h)
  <2>1. peer' = Restrict(o.peer, DOMAIN peer \ {h}) /\ count' = count - 1 /\ h \notin config.hosts
    BY <1>4, <1>8 DEF Preempted
  <2>2. DOMAIN peer' = DOMAIN peer \ {h} /\ Peers(peer')
    BY <1>6, <2>1 DEF Restrict, Peers
  <2>3. IsFiniteSet(DOMAIN peer) /\ Cardinality(DOMAIN peer) \in Nat
        /\ Cardinality(DOMAIN peer') = Cardinality(DOMAIN peer) - 1
    BY <1>1, <1>2, <2>2, HostCount, FS_RemoveElement
  <2>4. TypeOK'
    <3>1. count' = Cardinality(DOMAIN peer') + Cardinality(Pools) + config.lines
      BY <1>7, <2>1, <2>3, HostCount
    <3>2. config.hosts \subseteq DOMAIN peer' /\ DOMAIN peer' \in SUBSET Hosts
      BY <1>1, <2>1, <2>2
    <3> QED BY <1>0, <1>2, <1>5, <1>7, <2>2, <3>1, <3>2, TypeFollows
  <2>5. DOMAIN peer # config.hosts
    BY <1>2, <2>1
  <2> QED BY <1>2, <1>7, <2>1, <2>4, <2>5, PoolsUntouched
<1>9. CASE ~Preempted(o.peer, h)
  <2>1. peer' = [o.peer EXCEPT ![h].asked = h \in up] /\ count' = count
    BY <1>4, <1>9
  <2>2. PICK b \in BOOLEAN : peer' = [o.peer EXCEPT ![h].asked = b] /\ count' = count
    <3>1. CASE h \in up
      <4>1. (h \in up) = TRUE
        BY <3>1
      <4> QED BY <2>1, <4>1
    <3>2. CASE h \notin up
      <4>1. (h \in up) = FALSE
        BY <3>2
      <4> QED BY <2>1, <4>1
    <3> QED BY <3>1, <3>2
  <2>3. Peers(peer') /\ DOMAIN peer' = DOMAIN peer
    BY <1>2, <1>6, <2>2, AskedPeers
  <2>4. TypeOK'
    BY <1>0, <1>1, <1>2, <1>5, <1>7, <2>2, <2>3, TypeFollows
  <2> QED BY <1>2, <1>7, <2>2, <2>3, <2>4, PoolsUntouched
<1> QED BY <1>8, <1>9

LEMMA AnswerAssociationsInv ==
  ASSUME AssociationsInv, UNCHANGED config, NEW h \in Hosts, Answer(h) \/ AnswerLost(h) \/ Flip(h)
  PROVE  AssociationsInv'
<1>0. TypeOK
  BY DEF AssociationsInv
<1>1. /\ Peers(peer) /\ DOMAIN peer \in SUBSET Hosts
      /\ survivors \in 0 .. Cardinality(Hosts) /\ events \in 0 .. MaxEvents
      /\ config.hosts \in SUBSET DOMAIN peer
  BY <1>0, PeersType
<1>2. count \in Nat /\ count = Cardinality(DOMAIN peer) + Cardinality(Pools) + config.lines
      /\ up \subseteq Hosts /\ config.lines \in Nat
  BY <1>0, CountIsNat, AssociationsAssumption DEF TypeOK
<1>3. /\ Peers(peer') /\ DOMAIN peer' = DOMAIN peer /\ up' \subseteq Hosts
      /\ survivors' \in 0 .. Cardinality(Hosts) /\ events' \in 0 .. MaxEvents
      /\ UNCHANGED <<pools, count>>
  <2>1. CASE Answer(h)
    <3>1. h \in DOMAIN peer /\ UNCHANGED <<count, pools, up>>
      BY <2>1 DEF Answer
    <3> DEFINE new == [peer EXCEPT ![h].asked = FALSE, ![h].reach = Shift, ![h].synced = TRUE]
    <3>2. Peers(new) /\ DOMAIN new = DOMAIN peer
      <4>1. peer[h] \in Association /\ Shift \in 0 .. Shift
        BY <1>1, <3>1, Bounds DEF Peers
      <4>2. /\ new = [x \in DOMAIN peer |-> new[x]]
            /\ \A x \in DOMAIN peer : x # h => new[x] = peer[x]
            /\ new[h] = [[[peer[h] EXCEPT !.asked = FALSE] EXCEPT !.reach = Shift] EXCEPT !.synced = TRUE]
        BY <1>1, <3>1 DEF Peers
      <4> HIDE DEF new
      <4>3. new[h] = [reach |-> Shift, unreach |-> peer[h].unreach, synced |-> TRUE,
                      asked |-> FALSE, status |-> peer[h].status]
        <5>1. PICK a \in Association : a = peer[h]
          BY <4>1
        <5>2. new[h] = [[[a EXCEPT !.asked = FALSE] EXCEPT !.reach = Shift] EXCEPT !.synced = TRUE]
          BY <4>2, <5>1
        <5>3. a = [reach |-> a.reach, unreach |-> a.unreach, synced |-> a.synced,
                   asked |-> a.asked, status |-> a.status]
          BY AssociationFields
        <5> QED BY <5>1, <5>2, <5>3
      <4>4. new[h] \in Association
        <5>1. /\ Shift \in 0 .. Shift /\ peer[h].unreach \in 0 .. Unreach
              /\ peer[h].status \in Statuses /\ TRUE \in BOOLEAN /\ FALSE \in BOOLEAN
          BY <4>1, AssociationFields
        <5> QED BY <4>3, <5>1, ChangedAssociation
      <4> QED BY <1>1, <4>2, <4>4 DEF Peers
    <3>3. PICK o \in Filtered(new, h) : Take(o) /\ peer' = o.peer
      BY <2>1 DEF Answer
    <3> HIDE DEF new
    <3>4. GoodOutcome(o, new)
      BY <1>1, <3>2, <3>3, FilteredIsGood
    <3> QED BY <1>2, <3>1, <3>2, <3>3, <3>4 DEF GoodOutcome, Take
  <2>2. CASE AnswerLost(h)
    <3>1. h \in DOMAIN peer /\ peer' = [peer EXCEPT ![h].asked = FALSE]
          /\ events' = events + 1 /\ events < MaxEvents
          /\ UNCHANGED <<survivors, count, pools, up>>
      BY <2>2 DEF AnswerLost, Event
    <3>2. Peers(peer') /\ DOMAIN peer' = DOMAIN peer
      BY <1>1, <3>1, AskedPeers
    <3> QED BY <1>1, <1>2, <3>1, <3>2, Bounds
  <2>3. CASE Flip(h)
    <3>1. /\ up' = IF h \in up THEN up \ {h} ELSE up \cup {h}
          /\ events' = events + 1 /\ events < MaxEvents
          /\ UNCHANGED <<peer, survivors, count, pools>>
      BY <2>3 DEF Flip, Event
    <3> QED BY <1>1, <1>2, <3>1, Bounds
  <2> QED BY <2>1, <2>2, <2>3
<1>4. TypeOK'
  BY <1>0, <1>1, <1>2, <1>3, TypeFollows
<1> QED BY <1>2, <1>3, <1>4, PoolsUntouched

-----------------------------------------------------------------------------
(* The pools                                                               *)

LEMMA PendingType ==
  ASSUME NEW p \in Pools
  PROVE  /\ TypeOK => lookups[p] \in 0 .. MaxLookups /\ Pending(p) \in Nat
         /\ TypeOK' => lookups'[p] \in 0 .. MaxLookups /\ Pending(p)' \in Nat
BY Bounds DEF TypeOK, Pending

\* The more is pending, the fewer slots are left.
LEMMA FewerPending ==
  ASSUME TypeOK, TypeOK', \A p \in Pools : Pending(p)' <= Pending(p)
  PROVE  Cardinality(Unused) <= Cardinality(Unused')
<1>1. ASSUME NEW s \in Unused PROVE s \in Unused'
  <2>1. s \in Slots /\ s[1] \in Pools /\ s[2] \in Nat /\ s[2] > Pending(s[1])
    BY Bounds DEF Unused, Slots
  <2>2. PICK p \in Pools : p = s[1]
    BY <2>1
  <2>3. Pending(p) \in Nat /\ Pending(p)' \in Nat /\ Pending(p)' <= Pending(p)
    BY PendingType
  <2>4. s[2] > Pending(p)'
    BY <2>1, <2>2, <2>3
  <2> QED BY <2>1, <2>2, <2>4 DEF Unused, Slots
<1>2. IsFiniteSet(Unused')
  BY SlotCount, FS_Subset DEF Unused, Slots
<1> QED BY <1>1, <1>2, FS_Subset

\* What pool_xmit() asks for concerns its pool only.
LEMMA SolicitChanges ==
  ASSUME TypeOK, NEW p \in Pools, NEW addresses \in SUBSET Hosts, Solicit(p, addresses)
  PROVE  /\ ai' \in [Pools -> SUBSET Hosts] /\ solicited' \in [Pools -> Hosts \cup {None}]
         /\ \A q \in Pools : q # p => ai'[q] = ai[q] /\ solicited'[q] = solicited[q]
<1>1. /\ ai \in [Pools -> SUBSET Hosts] /\ solicited \in [Pools -> Hosts \cup {None}]
  BY DEF TypeOK
<1>2. CASE addresses \subseteq DOMAIN peer /\ ai' = [ai EXCEPT ![p] = {}] /\ UNCHANGED solicited
  BY <1>1, <1>2
<1>3. ASSUME NEW h \in addresses \ DOMAIN peer, NEW passed \in SUBSET (addresses \cap DOMAIN peer),
             ai' = [ai EXCEPT ![p] = addresses \ (passed \cup {h})],
             solicited' = [solicited EXCEPT ![p] = IF h \in up THEN h ELSE None]
      PROVE  /\ ai' \in [Pools -> SUBSET Hosts] /\ solicited' \in [Pools -> Hosts \cup {None}]
             /\ \A q \in Pools : q # p => ai'[q] = ai[q] /\ solicited'[q] = solicited[q]
  BY <1>1, <1>3
<1> QED BY <1>2, <1>3 DEF Solicit

LEMMA PoolPollAssociationsInv ==
  ASSUME AssociationsInv, UNCHANGED config, NEW p \in Pools, PoolPoll(p)
  PROVE  AssociationsInv'
<1>0. TypeOK
  BY DEF AssociationsInv
<1>1. UNCHANGED <<peer, survivors, count, up, events>> /\ count <= 2 * MaxClock /\ solicited[p] = None
  BY DEF PoolPoll, Wanted
<1>2. /\ ai \in [Pools -> SUBSET Hosts] /\ lookups \in [Pools -> 0 .. MaxLookups]
      /\ solicited \in [Pools -> Hosts \cup {None}]
  BY <1>0 DEF TypeOK
<1>3. /\ ai' \in [Pools -> SUBSET Hosts] /\ lookups' \in [Pools -> 0 .. MaxLookups]
      /\ solicited' \in [Pools -> Hosts \cup {None}]
      /\ \A q \in Pools : q # p =>
            ai'[q] = ai[q] /\ lookups'[q] = lookups[q] /\ solicited'[q] = solicited[q]
      /\ \/ /\ ai'[p] = {} /\ lookups[p] < MaxLookups
            /\ lookups'[p] = lookups[p] + 1 /\ solicited'[p] = None
         \/ ai[p] # {} /\ lookups'[p] = lookups[p]
  <2>1. CASE ai[p] = {}
    <3>1. /\ lookups[p] < MaxLookups /\ lookups' = [lookups EXCEPT ![p] = @ + 1]
          /\ UNCHANGED <<ai, solicited>>
      BY <2>1 DEF PoolPoll
    <3>2. lookups[p] + 1 \in 0 .. MaxLookups
      BY <1>2, <3>1, Bounds
    <3> QED BY <1>1, <1>2, <2>1, <3>1, <3>2
  <2>2. CASE ai[p] # {}
    <3>1. Solicit(p, ai[p]) /\ UNCHANGED lookups /\ ai[p] \in SUBSET Hosts
      BY <1>2, <2>2 DEF PoolPoll
    <3> QED BY <1>0, <1>2, <2>2, <3>1, SolicitChanges
  <2> QED BY <2>1, <2>2
<1>4. TypeOK'
  BY <1>0, <1>1, <1>3 DEF TypeOK
<1>5. ASSUME NEW q \in Pools
      PROVE  Pending(q)' <= MaxLookups /\ (ai'[q] # {} => lookups'[q] < MaxLookups)
  <2>1. Pending(q) <= MaxLookups /\ (ai[q] # {} => lookups[q] < MaxLookups)
    BY DEF AssociationsInv, PendingFits
  <2>2. CASE q # p
    BY <1>3, <2>1, <2>2 DEF Pending
  <2>3. CASE q = p
    BY <1>2, <1>3, <2>1, <2>3, Bounds DEF Pending
  <2> QED BY <2>2, <2>3
<1>6. RoomForPending'
  <2>1. Cardinality(Unused)' \in Nat
    BY SlotCount, FS_Subset, FS_CardinalityType DEF Unused, Slots
  <2>2. count \in Nat /\ count' = count
    BY <1>0, <1>1, CountIsNat
  <2> QED BY <1>1, <2>1, <2>2, Bounds DEF RoomForPending
<1> QED BY <1>4, <1>5, <1>6 DEF AssociationsInv, PendingFits

\* When less is pending and nothing was added, there is room as before.
LEMMA RoomRemains ==
  ASSUME AssociationsInv, TypeOK', UNCHANGED <<config, peer, count>>,
         \A p \in Pools : Pending(p)' <= Pending(p)
  PROVE  RoomForPending'
<1>1. /\ Cardinality(Unused) <= Cardinality(Unused')
      /\ Cardinality(Unused) \in Nat /\ Cardinality(Unused') \in Nat
  BY FewerPending, UnusedCount, SlotCount, FS_Subset, FS_CardinalityType
     DEF AssociationsInv, Unused, Slots
<1>2. \A p \in Pools : Pending(p) \in Nat /\ Pending(p)' \in Nat
  BY PendingType DEF AssociationsInv
<1>3. (\E p \in Pools : Pending(p)' > 0) => \E p \in Pools : Pending(p) > 0
  BY <1>2
<1>4. count \in Nat
  BY CountIsNat DEF AssociationsInv
<1>5. DOMAIN peer' = DOMAIN peer /\ config' = config /\ count' = count
  OBVIOUS
<1>6. CASE DOMAIN peer # config.hosts \/ \E p \in Pools : Pending(p) > 0
  <2>1. count <= 2 * MaxClock + Cardinality(Unused)
    BY <1>6 DEF AssociationsInv, RoomForPending
  <2>2. count' <= 2 * MaxClock + Cardinality(Unused')
    BY <1>1, <1>4, <1>5, <2>1, Bounds
  <2> QED BY <2>2 DEF RoomForPending
<1>7. CASE ~(DOMAIN peer # config.hosts \/ \E p \in Pools : Pending(p) > 0)
  BY <1>3, <1>5, <1>7 DEF RoomForPending
<1> QED BY <1>6, <1>7

LEMMA ResolvedAssociationsInv ==
  ASSUME AssociationsInv, UNCHANGED config, NEW p \in Pools, Resolved(p)
  PROVE  AssociationsInv'
<1>0. TypeOK
  BY DEF AssociationsInv
<1>1. /\ UNCHANGED <<peer, survivors, count, up>> /\ lookups[p] > 0
      /\ lookups' = [lookups EXCEPT ![p] = @ - 1]
      /\ \/ Solicit(p, Hosts) /\ UNCHANGED events
         \/ events < MaxEvents /\ events' = events + 1 /\ UNCHANGED <<ai, solicited>>
  BY DEF Resolved, Event
<1>2. /\ ai \in [Pools -> SUBSET Hosts] /\ lookups \in [Pools -> 0 .. MaxLookups]
      /\ solicited \in [Pools -> Hosts \cup {None}] /\ events \in 0 .. MaxEvents
  BY <1>0 DEF TypeOK
<1>3. /\ ai' \in [Pools -> SUBSET Hosts] /\ solicited' \in [Pools -> Hosts \cup {None}]
      /\ \A q \in Pools : q # p => ai'[q] = ai[q] /\ solicited'[q] = solicited[q]
      /\ events' \in 0 .. MaxEvents
  <2>1. CASE Solicit(p, Hosts) /\ UNCHANGED events
    BY <1>0, <1>2, <2>1, SolicitChanges
  <2>2. CASE events < MaxEvents /\ events' = events + 1 /\ UNCHANGED <<ai, solicited>>
    BY <1>2, <2>2, Bounds
  <2> QED BY <1>1, <2>1, <2>2
<1>4. /\ lookups' \in [Pools -> 0 .. MaxLookups] /\ lookups'[p] = lookups[p] - 1
      /\ \A q \in Pools : q # p => lookups'[q] = lookups[q]
  <2>1. lookups[p] - 1 \in 0 .. MaxLookups
    BY <1>1, <1>2, Bounds
  <2> QED BY <1>1, <1>2, <2>1
<1>5. TypeOK'
  BY <1>0, <1>1, <1>3, <1>4 DEF TypeOK
<1>6. ASSUME NEW q \in Pools
      PROVE  /\ Pending(q)' <= Pending(q)
             /\ Pending(q)' <= MaxLookups /\ (ai'[q] # {} => lookups'[q] < MaxLookups)
  <2>1. Pending(q) <= MaxLookups /\ (ai[q] # {} => lookups[q] < MaxLookups)
        /\ Pending(q) \in Nat
    BY <1>0, PendingType DEF AssociationsInv, PendingFits
  <2>2. CASE q # p
    BY <1>3, <1>4, <2>1, <2>2, Bounds DEF Pending
  <2>3. CASE q = p
    BY <1>1, <1>2, <1>3, <1>4, <2>1, <2>3, Bounds DEF Pending
  <2> QED BY <2>2, <2>3
<1>7. RoomForPending'
  BY <1>1, <1>5, <1>6, RoomRemains
<1> QED BY <1>5, <1>6, <1>7 DEF AssociationsInv, PendingFits

\* An answer to a solicitation, come or lost, is no longer pending.
LEMMA OneFewerPending ==
  ASSUME TypeOK, NEW p \in Pools, solicited[p] # None, UNCHANGED <<lookups, ai>>,
         solicited' = [solicited EXCEPT ![p] = None]
  PROVE  /\ solicited' \in [Pools -> Hosts \cup {None}]
         /\ Pending(p)' = Pending(p) - 1 /\ Pending(p) \in Nat \ {0}
         /\ \A q \in Pools : q # p => Pending(q)' = Pending(q)
         /\ \A q \in Pools : Pending(q)' <= Pending(q)
<1>1. /\ lookups \in [Pools -> 0 .. MaxLookups] /\ solicited \in [Pools -> Hosts \cup {None}]
  BY DEF TypeOK
<1>2. solicited'[p] = None /\ \A q \in Pools : q # p => solicited'[q] = solicited[q]
  BY <1>1
<1>3. Pending(p)' = Pending(p) - 1 /\ Pending(p) \in Nat \ {0}
  BY <1>1, <1>2, Bounds DEF Pending
<1>4. \A q \in Pools : q # p => Pending(q)' = Pending(q)
  BY <1>2 DEF Pending
<1>5. \A q \in Pools : Pending(q) \in Nat
  BY PendingType
<1> QED BY <1>1, <1>3, <1>4, <1>5

LEMMA LostAssociationsInv ==
  ASSUME AssociationsInv, UNCHANGED config, NEW p \in Pools, ResponseLost(p)
  PROVE  AssociationsInv'
<1>0. TypeOK
  BY DEF AssociationsInv
<1>1. /\ UNCHANGED <<peer, survivors, count, ai, lookups, up>> /\ solicited[p] # None
      /\ solicited' = [solicited EXCEPT ![p] = None]
      /\ events < MaxEvents /\ events' = events + 1
  BY DEF ResponseLost, Event
<1>2. /\ solicited' \in [Pools -> Hosts \cup {None}]
      /\ \A q \in Pools : Pending(q)' <= Pending(q)
  BY <1>0, <1>1, OneFewerPending
<1>3. events' \in 0 .. MaxEvents
  BY <1>0, <1>1, Bounds DEF TypeOK
<1>4. TypeOK'
  BY <1>0, <1>1, <1>2, <1>3 DEF TypeOK
<1>5. RoomForPending'
  BY <1>1, <1>2, <1>4, RoomRemains
<1>6. PendingFits'
  <2>1. \A q \in Pools : Pending(q) \in Nat /\ Pending(q)' \in Nat
    BY <1>0, <1>4, PendingType
  <2> QED BY <1>1, <1>2, <2>1, Bounds DEF AssociationsInv, PendingFits
<1> QED BY <1>4, <1>5, <1>6 DEF AssociationsInv

LEMMA ResponseAssociationsInv ==
  ASSUME AssociationsInv, UNCHANGED config, NEW p \in Pools, Response(p)
  PROVE  AssociationsInv'
<1>0. TypeOK
  BY DEF AssociationsInv
<1>1. PICK h : h = solicited[p]
  OBVIOUS
<1>2. /\ h # None /\ solicited' = [solicited EXCEPT ![p] = None]
      /\ UNCHANGED <<survivors, ai, lookups, up, events>>
      /\ \/ h \in DOMAIN peer /\ UNCHANGED <<peer, count>>
         \/ /\ h \notin DOMAIN peer /\ count' = count + 1
            /\ peer' = [x \in DOMAIN peer \cup {h} |-> IF x = h THEN Fresh ELSE peer[x]]
  BY <1>1 DEF Response
<1>3. /\ solicited' \in [Pools -> Hosts \cup {None}]
      /\ Pending(p)' = Pending(p) - 1 /\ Pending(p) \in Nat \ {0}
      /\ \A q \in Pools : q # p => Pending(q)' = Pending(q)
      /\ \A q \in Pools : Pending(q)' <= Pending(q)
  BY <1>0, <1>1, <1>2, OneFewerPending
<1>4. h \in Hosts
  BY <1>0, <1>1, <1>2 DEF TypeOK
<1>5. CASE h \in DOMAIN peer
  <2>1. UNCHANGED <<peer, count>>
    BY <1>2, <1>5
  <2>2. TypeOK'
    BY <1>0, <1>2, <1>3, <2>1 DEF TypeOK
  <2>3. RoomForPending'
    BY <1>3, <2>1, <2>2, RoomRemains
  <2>4. PendingFits'
    <3>1. \A q \in Pools : Pending(q) \in Nat /\ Pending(q)' \in Nat
      BY <1>0, <2>2, PendingType
    <3> QED BY <1>2, <1>3, <3>1, Bounds DEF AssociationsInv, PendingFits
  <2> QED BY <2>2, <2>3, <2>4 DEF AssociationsInv
<1>6. CASE h \notin DOMAIN peer
  <2>1. /\ count' = count + 1
        /\ peer' = [x \in DOMAIN peer \cup {h} |-> IF x = h THEN Fresh ELSE peer[x]]
    BY <1>2, <1>6
  <2>2. /\ DOMAIN peer \in SUBSET Hosts /\ peer \in [DOMAIN peer -> Association]
        /\ config.hosts \subseteq DOMAIN peer
    BY <1>0 DEF TypeOK
  <2>3. DOMAIN peer' = DOMAIN peer \cup {h} /\ peer' \in [DOMAIN peer' -> Association]
    BY <2>1, <2>2, FreshIsAssociation
  <2>4. Cardinality(DOMAIN peer') = Cardinality(DOMAIN peer) + 1 /\ Cardinality(DOMAIN peer) \in Nat
    BY <1>6, <2>2, <2>3, HostCount, FS_AddElement
  <2>5. /\ count \in Nat /\ config.lines \in Nat
        /\ count = Cardinality(DOMAIN peer) + Cardinality(Pools) + config.lines
    BY <1>0, CountIsNat, AssociationsAssumption DEF TypeOK
  <2>6. count' = Cardinality(DOMAIN peer') + Cardinality(Pools) + config.lines
    BY <2>1, <2>4, <2>5, HostCount
  <2>7. TypeOK'
    BY <1>0, <1>2, <1>3, <1>4, <2>2, <2>3, <2>6 DEF TypeOK
  <2>8. \A q \in Pools : Pending(q) \in Nat /\ Pending(q)' \in Nat /\ Pending(q) <= MaxLookups
    BY <1>0, <2>7, PendingType DEF AssociationsInv, PendingFits
  <2>9. PendingFits'
    BY <1>2, <1>3, <2>8, Bounds DEF AssociationsInv, PendingFits
  <2>10. Cardinality(Unused') = Cardinality(Unused) + 1
    <3> DEFINE slot == <<p, Pending(p)>>
    <3>1. slot \in Slots /\ slot \notin Unused
      BY <1>3, <2>8, Bounds DEF Slots, Unused
    <3>2. Unused' = Unused \cup {slot}
      <4>1. ASSUME NEW q \in Pools, NEW i \in 1 .. MaxLookups
            PROVE  <<q, i>> \in Unused' <=> <<q, i>> \in Unused \cup {slot}
        <5>1. <<q, i>> \in Unused' <=> i > Pending(q)'
          BY DEF Unused, Slots
        <5>2. <<q, i>> \in Unused <=> i > Pending(q)
          BY DEF Unused, Slots
        <5>3. CASE q # p
          BY <1>3, <5>1, <5>2, <5>3
        <5>4. CASE q = p
          <6>1. i > Pending(p)' <=> i > Pending(p) \/ i = Pending(p)
            BY <1>3, <2>8
          <6> QED BY <5>1, <5>2, <5>4, <6>1
        <5> QED BY <5>3, <5>4
      <4>2. Unused' \subseteq Slots /\ Unused \cup {slot} \subseteq Slots
        BY <3>1 DEF Unused, Slots
      <4> HIDE DEF slot
      <4> QED BY <4>1, <4>2 DEF Slots
    <3> HIDE DEF slot
    <3> QED BY <3>1, <3>2, UnusedCount, FS_AddElement
  <2>11. count <= 2 * MaxClock + Cardinality(Unused)
    <3>1. Pending(p) > 0
      BY <1>3
    <3> QED BY <3>1 DEF AssociationsInv, RoomForPending
  <2>12. count' <= 2 * MaxClock + Cardinality(Unused')
    BY <2>1, <2>5, <2>10, <2>11, UnusedCount, Bounds
  <2>13. RoomForPending'
    BY <2>12 DEF RoomForPending
  <2> QED BY <2>7, <2>9, <2>13 DEF AssociationsInv
<1> QED BY <1>5, <1>6

-----------------------------------------------------------------------------
LEMMA NextAssociationsInv == AssociationsInv /\ [Next]_vars => AssociationsInv'
<1> SUFFICES ASSUME AssociationsInv, [Next]_vars PROVE AssociationsInv'
  OBVIOUS
<1>1. CASE Next
  BY <1>1, PollAssociationsInv, AnswerAssociationsInv, PoolPollAssociationsInv,
     ResolvedAssociationsInv, ResponseAssociationsInv, LostAssociationsInv
  DEF Next
<1>2. CASE UNCHANGED vars
  <2>1. UNCHANGED <<peer, survivors, count, ai, lookups, solicited, config, up, events>>
    BY <1>2 DEF vars, pools
  <2>2. TypeOK' /\ PendingFits'
    BY <2>1 DEF AssociationsInv, TypeOK, PendingFits, Pending
  <2>3. count \in Nat /\ UNCHANGED <<pools, config>>
    BY <2>1, CountIsNat DEF pools, AssociationsInv
  <2> QED BY <2>1, <2>2, <2>3, PoolsUntouched
<1> QED BY <1>1, <1>2

LEMMA AlwaysAssociationsInv == Spec => []AssociationsInv
BY InitAssociationsInv, NextAssociationsInv, PTL DEF Spec

\* Every variable has its type, and peer_associations counts what there is.
THEOREM TypeCorrect == Spec => []TypeOK
BY AlwaysAssociationsInv, PTL DEF AssociationsInv

\* The pools cannot fill ntpd beyond the hard limit and what was under way when it
\* was reached, however many pools, hosts and lookups there are.
THEOREM GrowthAlwaysBounded == Spec => []GrowthIsBounded
<1>1. AssociationsInv => GrowthIsBounded
  <2> SUFFICES ASSUME AssociationsInv, DOMAIN peer # config.hosts
               PROVE  count <= 2 * MaxClock + MaxLookups * Cardinality(Pools)
    BY DEF GrowthIsBounded
  <2>1. count <= 2 * MaxClock + Cardinality(Unused) /\ count \in Nat
    BY CountIsNat DEF AssociationsInv, RoomForPending
  <2>2. Cardinality(Unused) \in Nat /\ Cardinality(Unused) <= Cardinality(Slots)
    BY UnusedCount
  <2>3. Cardinality(Slots) = MaxLookups * Cardinality(Pools) /\ Cardinality(Slots) \in Nat
    BY SlotCount, FS_CardinalityType
  <2> QED BY <2>1, <2>2, <2>3, Bounds
<1> QED BY <1>1, AlwaysAssociationsInv, PTL
=============================================================================
