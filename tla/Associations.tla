---------------------------- MODULE Associations ----------------------------
(***************************************************************************)
(* The associations of ntpd and the pools that fill them: newpeer() and    *)
(* unpeer() of ntp_peer.c, and of ntp_proto.c transmit(), pool_xmit(),     *)
(* pool_name_resolved(), the mobilization of a pool server, and what       *)
(* clock_select() writes back to the associations it chose between.        *)
(*                                                                         *)
(* A pool is a prototype association with a name.  The name's addresses    *)
(* are asked one after another; one that answers becomes an association    *)
(* that can be preempted.  The reachability register is abstracted to the  *)
(* polls it has left before it is all zero; bursts are part of a poll.     *)
(***************************************************************************)
EXTENDS Integers, FiniteSets, FiniteSetsExt, Functions

CONSTANTS
    Hosts, None,
    Pools,              \* the prototypes
    Configurations,     \* the hosts and how many reference clocks the
                        \* configuration names, and which hosts are honest
    MaxClock, MinClock, \* sys_maxclock, sys_minclock
    Shift, Unreach,     \* NTP_SHIFT, NTP_UNREACH
    MaxLookups,         \* bound: a pool's lookups under way
    MaxEvents           \* bound: packets lost, samples not used or old, hosts that
                        \* go up or down, steps of the clock, together

ASSUME AssociationsAssumption ==
    /\ IsFiniteSet(Hosts) /\ IsFiniteSet(Pools) /\ None \notin Hosts
    /\ Configurations \subseteq [hosts : SUBSET Hosts, lines : Nat, honest : SUBSET Hosts]
    /\ {MaxClock, MinClock, Shift, Unreach, MaxLookups} \subseteq Nat \ {0}
    /\ MaxEvents \in Nat

VARIABLES
    peer,           \* the associations, by host
    survivors,      \* sys_survivors
    count,          \* peer_associations
    ai,             \* per pool, the addresses it has not asked yet
    lookups,        \* ... its lookups under way
    solicited,      \* ... and the host whose response is on its way
    config, up,     \* the configuration; the hosts that answer
    events

pools == <<ai, lookups, solicited>>
vars == <<peer, survivors, count, pools, config, up, events>>

Event == events < MaxEvents /\ events' = events + 1

Lesser(x, y) == IF x < y THEN x ELSE y
Larger(x, y) == IF x > y THEN x ELSE y

\* reach: the polls it lasts; unreach: polls since it survived; synced: it
\* answered since it was cleared (not TEST10); asked: its answer is on its way;
\* "candidate" is CTL_PST_SEL_SELCAND and above, but for "excess".
Association ==
    [reach : 0 .. Shift, unreach : 0 .. Unreach, synced : BOOLEAN, asked : BOOLEAN,
     status : {"reject", "candidate", "excess"}]

\* newpeer()
Fresh == [reach |-> 0, unreach |-> 0, synced |-> FALSE, asked |-> FALSE, status |-> "reject"]

\* The configuration is read.  A line for a reference clock is counted by
\* newpeer(), which then finds that ntpd was built without them, and frees the
\* structure but counts nothing back.
Init ==
    /\ config \in Configurations
    /\ peer = [h \in config.hosts |-> Fresh]
    /\ survivors = 0
    /\ count = Cardinality(config.hosts) + Cardinality(Pools) + config.lines
    /\ ai = [p \in Pools |-> {}] /\ lookups = [p \in Pools |-> 0]
    /\ solicited = [p \in Pools |-> None]
    /\ up \in SUBSET Hosts
    /\ events = 0

-----------------------------------------------------------------------------
(* What clock_filter() and clock_select() make of associations ps            *)

Outcome(ps, n) == [peer |-> ps, survivors |-> n, events |-> events]

Fit(ps) == {h \in DOMAIN ps : ps[h].reach > 0 /\ ps[h].synced}

\* Of the fit ones, those in the intersection of more than half: honest hosts
\* agree, each other one is alone.
Truechimers(fit) ==
    LET agreeing == {fit \cap config.honest} \cup {{h} : h \in fit \ config.honest}
    IN  UNION {g \in agreeing : 2 * Cardinality(g) > Cardinality(fit)}

\* Truechimers are voted off as long as there are more than MinClock; the first
\* of them, down to MaxClock, are the backup.
Votes(trues) ==
    LET spare(left) == Lesser(Cardinality(trues) - Cardinality(left),
                              Larger(0, Cardinality(trues) - MaxClock))
        enough == {left \in SUBSET trues :
                      Cardinality(left) >= Lesser(Cardinality(trues), MinClock)}
    IN  UNION {{[left |-> l, backup |-> b] : b \in kSubset(spare(l), trues \ l)} : l \in enough}

Marked(ps, trues, vote) ==
    [h \in DOMAIN ps |->
        [ps[h] EXCEPT
            !.status = IF h \in vote.backup THEN "excess"
                       ELSE IF h \in trues THEN "candidate" ELSE "reject",
            !.unreach = IF h \in vote.left THEN 0 ELSE @]]

\* ... unless the system peer's sample is older than the last update of the clock:
\* clock_select() returns before it copies the statuses.
Unwound(ps, vote) ==
    [h \in DOMAIN ps |-> [ps[h] EXCEPT !.unreach = IF h \in vote.left THEN 0 ELSE @]]

\* clear_all(), after a step of the clock: peer_clear() leaves unreach alone.
Cleared(ps) == [h \in DOMAIN ps |-> [Fresh EXCEPT !.unreach = ps[h].unreach]]

\* When there is a system peer, its sample may be old if it is another than h,
\* whose sample is new, and the update may step the clock.
Otherwise(ps, h, trues, vote) ==
    IF vote.left = {} \/ events = MaxEvents THEN {}
    ELSE {Cleared(Marked(ps, trues, vote))} \cup
         (IF vote.left = {h} THEN {} ELSE {Unwound(ps, vote)})

Selections(ps, h) ==
    UNION {{Outcome(Marked(ps, trues, v), Cardinality(v.left)) : v \in Votes(trues)} \cup
           UNION {{[Outcome(q, Cardinality(v.left)) EXCEPT !.events = @ + 1] :
                      q \in Otherwise(ps, h, trues, v)} : v \in Votes(trues)} :
              trues \in {Truechimers(Fit(ps))}}

\* The filter may have no new sample to use; then nothing is selected.
Filtered(ps, h) ==
    Selections(ps, h) \cup
    (IF events < MaxEvents THEN {[Outcome(ps, survivors) EXCEPT !.events = @ + 1]} ELSE {})

Take(o) == survivors' = o.survivors /\ events' = o.events

-----------------------------------------------------------------------------
(* transmit() of a host's association, and its answer                        *)

\* score(); a host that is reachable is taken to be close enough, and none to
\* be in a loop.
Score(p) ==
    (IF p.synced THEN 1 ELSE 0) + (IF p.reach > 0 THEN 2 ELSE 0) +
    (IF p.status # "reject" THEN 1 ELSE 0) + (IF p.status # "excess" THEN 1 ELSE 0)

\* Mutant: no association goes.
PreemptedNever(ps, h) == FALSE

\* score_all()
LeastCherished(ps, h) == \A other \in DOMAIN ps \ config.hosts : Score(ps[h]) <= Score(ps[other])

Preempted(ps, h) ==
    h \notin config.hosts /\ ps[h].unreach >= Unreach /\ count > MaxClock /\ LeastCherished(ps, h)

\* Mutant: polls out of use are counted on and on.
PolledAndCounted(h) ==
    LET reach == Larger(0, peer[h].reach - 1)
    IN  [peer EXCEPT ![h].reach = reach, ![h].unreach = @ + 1]

Polled(h) ==
    LET reach == Larger(0, peer[h].reach - 1)
        unreach == IF reach > 0 /\ h \in config.hosts THEN 0
                   ELSE Lesser(Unreach, peer[h].unreach + 1)
    IN  [peer EXCEPT ![h].reach = reach, ![h].unreach = unreach]

\* The register of an unreachable host is filled with dispersion.  After that
\* the association is tossed, or asks again.
Poll(h) ==
    /\ h \in DOMAIN peer /\ ~peer[h].asked
    /\ UNCHANGED <<pools, up>>
    /\ \E ps \in {Polled(h)} :
       \E o \in IF ps[h].reach > 0 THEN {Outcome(ps, survivors)} ELSE Filtered(ps, h) :
          /\ Take(o)
          /\ IF Preempted(o.peer, h)
             THEN peer' = Restrict(o.peer, DOMAIN peer \ {h}) /\ count' = count - 1
             ELSE peer' = [o.peer EXCEPT ![h].asked = h \in up] /\ UNCHANGED count

Answer(h) ==
    /\ h \in DOMAIN peer /\ peer[h].asked
    /\ UNCHANGED <<count, pools, up>>
    /\ \E ps \in {[peer EXCEPT ![h].asked = FALSE, ![h].reach = Shift, ![h].synced = TRUE]} :
       \E o \in Filtered(ps, h) :
          Take(o) /\ peer' = o.peer

AnswerLost(h) ==
    /\ h \in DOMAIN peer /\ peer[h].asked
    /\ Event
    /\ peer' = [peer EXCEPT ![h].asked = FALSE]
    /\ UNCHANGED <<survivors, count, pools, up>>

-----------------------------------------------------------------------------
(* The pools                                                                 *)

\* pool_xmit(), when it has addresses: one without an association is asked, and
\* those before it passed over.
Solicit(p, addresses) ==
    \/ \E h \in addresses \ DOMAIN peer, passed \in SUBSET (addresses \cap DOMAIN peer) :
          /\ ai' = [ai EXCEPT ![p] = addresses \ (passed \cup {h})]
          /\ solicited' = [solicited EXCEPT ![p] = IF h \in up THEN h ELSE None]
    \/ /\ addresses \subseteq DOMAIN peer
       /\ ai' = [ai EXCEPT ![p] = {}]
       /\ UNCHANGED solicited

\* Mutants: the hard limit is left out; there is no other.
WantedAnyway == count < MaxClock \/ survivors < MinClock
WantedAlways == count <= 2 * MaxClock

\* transmit() of a prototype
Wanted == count <= 2 * MaxClock /\ (count < MaxClock \/ survivors < MinClock)

PoolPoll(p) ==
    /\ Wanted /\ solicited[p] = None
    /\ IF ai[p] = {}
       THEN /\ lookups[p] < MaxLookups /\ lookups' = [lookups EXCEPT ![p] = @ + 1]
            /\ UNCHANGED <<ai, solicited>>
       ELSE Solicit(p, ai[p]) /\ UNCHANGED lookups
    /\ UNCHANGED <<peer, survivors, count, up, events>>

\* pool_name_resolved(), of a lookup that finds all hosts, or fails
Resolved(p) ==
    /\ lookups[p] > 0 /\ lookups' = [lookups EXCEPT ![p] = @ - 1]
    /\ \/ Solicit(p, Hosts) /\ UNCHANGED events
       \/ Event /\ UNCHANGED <<ai, solicited>>
    /\ UNCHANGED <<peer, survivors, count, up>>

\* receive(), AM_MANYCAST: newpeer() makes no second association of a host.
Response(p) ==
    LET h == solicited[p]
    IN  /\ h # None
        /\ solicited' = [solicited EXCEPT ![p] = None]
        /\ IF h \in DOMAIN peer
           THEN UNCHANGED <<peer, count>>
           ELSE /\ peer' = [x \in DOMAIN peer \cup {h} |-> IF x = h THEN Fresh ELSE peer[x]]
                /\ count' = count + 1
        /\ UNCHANGED <<survivors, ai, lookups, up, events>>

ResponseLost(p) ==
    /\ solicited[p] # None /\ solicited' = [solicited EXCEPT ![p] = None]
    /\ Event
    /\ UNCHANGED <<peer, survivors, count, ai, lookups, up>>

-----------------------------------------------------------------------------
\* A host goes down, or comes up.
Flip(h) ==
    /\ Event
    /\ up' = IF h \in up THEN up \ {h} ELSE up \cup {h}
    /\ UNCHANGED <<peer, survivors, count, pools>>

Next ==
    /\ UNCHANGED config
    /\ \/ \E h \in Hosts : Poll(h) \/ Answer(h) \/ AnswerLost(h) \/ Flip(h)
       \/ \E p \in Pools : PoolPoll(p) \/ Resolved(p) \/ Response(p) \/ ResponseLost(p)

Spec == Init /\ [][Next]_vars

\* timer() polls what is due; answers and lookups come in the end.
FairSpec ==
    /\ Spec
    /\ \A h \in Hosts : WF_vars(UNCHANGED config /\ (Poll(h) \/ Answer(h)))
    /\ \A p \in Pools : /\ WF_vars(UNCHANGED config /\ PoolPoll(p))
                       /\ WF_vars(UNCHANGED config /\ Resolved(p))
                       /\ WF_vars(UNCHANGED config /\ Response(p))

-----------------------------------------------------------------------------
TypeOK ==
    /\ DOMAIN peer \subseteq Hosts /\ config.hosts \subseteq DOMAIN peer
    /\ peer \in [DOMAIN peer -> Association]
    /\ survivors \in 0 .. Cardinality(Hosts)
    /\ count = Cardinality(DOMAIN peer) + Cardinality(Pools) + config.lines
    /\ ai \in [Pools -> SUBSET Hosts] /\ lookups \in [Pools -> 0 .. MaxLookups]
    /\ solicited \in [Pools -> Hosts \cup {None}] /\ config \in Configurations /\ up \subseteq Hosts
    /\ events \in 0 .. MaxEvents

\* The pools together never fill ntpd with more associations than the hard
\* limit, and one more for each lookup or request that is under way when it is
\* reached: pool_name_resolved() does not look at the limit again
\* (ntp_proto.c:506, "prevents unbounded growth in associations").
GrowthIsBounded ==
    DOMAIN peer # config.hosts => count <= 2 * MaxClock + MaxLookups * Cardinality(Pools)

\* When all hosts are honest and enough of them stay up, ntpd comes to have
\* enough survivors and keeps them: hosts that are down or went down give way,
\* whatever hosts it began with, losses and a step of the clock.
Enough == config.honest = Hosts /\ Cardinality(up) >= MinClock

PoolFills == <>[](Enough => survivors >= MinClock)

\* ... and it stops tossing associations and mobilizing others.
PoolSettles == <>[][Enough => DOMAIN peer' = DOMAIN peer]_vars

\* "mobilized associations" (ntp_peer.c:114)
CountIsMobilized == count = Cardinality(DOMAIN peer) + Cardinality(Pools)
=============================================================================
