------------------------------- MODULE OnWire -------------------------------
(***************************************************************************)
(* The on-wire protocol of ntp_proto.c: the four timestamps that two hosts *)
(* exchange, and the tests that keep a lost, duplicated, reordered or      *)
(* bogus packet out of the clock filter.  Two hosts; either the first is a *)
(* client of the second, which keeps nothing about it, or they are         *)
(* symmetric active peers, in basic mode (flip is 0), without keys.        *)
(*                                                                         *)
(* `net' holds every packet sent: a packet may be delivered at any time,   *)
(* any number of times or never.  get_systime() and the arrival of a       *)
(* packet yield a new timestamp each, on one scale for both hosts: what    *)
(* the protocol compares are stamps of 64 bits, which it takes for nonces. *)
(***************************************************************************)
EXTENDS Naturals, FiniteSets

CONSTANTS
    A, B,           \* the hosts
    MaxStamp,       \* bound: timestamps taken, for either mode
    MaxKisses,      \* bound: kisses of death sent
    MaxClears       \* bound: associations cleared

ASSUME OnWireAssumption ==
    /\ A # B
    /\ MaxStamp \in [{"client", "active"} -> Nat]
    /\ MaxKisses \in Nat /\ MaxClears \in Nat

VARIABLES
    mode,           \* hmode of the associations: "client" or "active"
    peer,           \* the association each host has with the other
    net,
    clock,          \* the last timestamp taken; 0 is the zero timestamp
    clears,
    flights,        \* history: who sent a packet, when it left, when it arrived
    sample,         \* history: the last sample that reached the clock filter
    asked           \* history: when the last request left, 0 after a clear

vars == <<mode, peer, net, clock, clears, flights, sample, asked>>

Hosts == {A, B}
Other(h) == CHOOSE o \in Hosts : o # h
Stamps == 0 .. MaxStamp[mode]

\* who has an association; a server has none
Keepers == IF mode = "client" THEN {A} ELSE Hosts

Packets == [from : Hosts, mode : {"client", "server", "active"}, kod : BOOLEAN,
            org : Stamps, rec : Stamps, xmt : Stamps]

Associations == [aorg : Stamps, rec : Stamps, dst : Stamps, xmt : Stamps]

\* peer_clear()
Cleared == [aorg |-> 0, rec |-> 0, dst |-> 0, xmt |-> 0]

NoSample == [n |-> 0, t1 |-> 0, t2 |-> 0, t3 |-> 0, t4 |-> 0]

Init ==
    /\ mode \in {"client", "active"}
    /\ peer = [h \in Keepers |-> Cleared]
    /\ net = {} /\ clock = 0 /\ clears = 0 /\ flights = {}
    /\ sample = [h \in Hosts |-> NoSample]
    /\ asked = [h \in Hosts |-> 0]

-----------------------------------------------------------------------------
\* peer_xmit()
Sent(h) == [from |-> h, mode |-> mode, kod |-> FALSE, org |-> peer[h].rec,
            rec |-> peer[h].dst, xmt |-> clock + 1]

\* Mutant: the time that is kept is taken after the one that is sent.
TransmitTwice(h) ==
    /\ h \in Keepers /\ clock < MaxStamp[mode]
    /\ clock' = clock + 1
    /\ net' = net \cup {Sent(h)}
    /\ peer' = [peer EXCEPT ![h].aorg = clock + 2]
    /\ asked' = [asked EXCEPT ![h] = clock']
    /\ UNCHANGED <<mode, clears, flights, sample>>

Transmit(h) ==
    /\ h \in Keepers /\ clock < MaxStamp[mode]
    /\ clock' = clock + 1
    /\ net' = net \cup {Sent(h)}
    /\ peer' = [peer EXCEPT ![h].aorg = clock']
    /\ asked' = [asked EXCEPT ![h] = clock']
    /\ UNCHANGED <<mode, clears, flights, sample>>

Arrives(p) == flights' = IF p.kod THEN flights ELSE flights \cup {<<p.from, p.xmt, clock + 1>>}

\* fast_xmit(), for a host that is no association
Reply(p) ==
    [from |-> Other(p.from), mode |-> "server", kod |-> FALSE, org |-> p.xmt,
     rec |-> clock + 1, xmt |-> clock + 2]

\* ... or for one that is to be limited, peer or not; it reveals no time.
KissOfDeath(p) ==
    [from |-> Other(p.from), mode |-> IF p.mode = "client" THEN "server" ELSE "active",
     kod |-> TRUE, org |-> p.xmt, rec |-> p.xmt, xmt |-> p.xmt]

\* receive(), AM_FXMIT
Serve(p) ==
    /\ p.mode = "client" /\ clock + 2 <= MaxStamp[mode]
    /\ clock' = clock + 2 /\ Arrives(p)
    /\ net' = net \cup {Reply(p)}
    /\ UNCHANGED <<mode, peer, clears, sample, asked>>

\* receive(), a packet that RES_LIMITED and RES_KOD are lit for.  A kiss may
\* draw a kiss as well, but whoever sent the first limits what comes back for
\* longer than a packet travels, and drops it.
Limit(p) ==
    /\ p.mode \in {"client", "active"} /\ ~p.kod
    /\ Cardinality({q \in net : q.kod}) < MaxKisses
    /\ net' = net \cup {KissOfDeath(p)}
    /\ UNCHANGED <<mode, peer, clock, clears, flights, sample, asked>>

-----------------------------------------------------------------------------
(* receive(), AM_PROCPKT: the tests of a packet p against association a.     *)

\* kiss_code_check(): only a server's packet can be a kiss of death.
Kiss(p) == p.kod /\ p.mode = "server"

Duplicate(a, p) == p.xmt # 0 /\ p.xmt = a.xmt

\* A kiss that does not return the time of the last request is ignored.
StrayKiss(a, p) ==
    /\ Kiss(p)
    /\ \/ p.org = 0 \/ p.rec = 0 \/ p.xmt # p.org \/ p.xmt # p.rec
       \/ p.org # a.aorg

\* Mutant: any time that was sent back will do.
BogusUnlessAsked(a, p) == p.xmt # 0 /\ ~Kiss(p) /\ p.org = 0

\* the loopback test
Bogus(a, p) == p.xmt # 0 /\ ~Kiss(p) /\ (p.org = 0 \/ p.org # a.aorg)

Flash(a, p, header) ==
    (IF Bogus(a, p) THEN {"TEST2"} ELSE {}) \cup
    (IF p.xmt = 0 THEN {"TEST3"} ELSE {}) \cup
    (IF p.kod THEN {"TEST6"} ELSE header)

\* Mutants: an answer leaves the request standing; any packet uses it up.
UpdatedAgain(a, p) == [aorg |-> a.aorg, rec |-> p.xmt, dst |-> clock + 1, xmt |-> p.xmt]
UpdatedAlways(a, p) == [aorg |-> 0, rec |-> p.xmt, dst |-> clock + 1, xmt |-> p.xmt]

\* The state variables after the tests, which a bogus packet updates as well.
\* The right answer uses up the request.
Updated(a, p) ==
    LET answered == p.xmt # 0 /\ ~Kiss(p) /\ ~Bogus(a, p) IN
    [aorg |-> IF answered THEN 0 ELSE a.aorg, rec |-> p.xmt, dst |-> clock + 1, xmt |-> p.xmt]

Drop(h, p) ==
    /\ Duplicate(peer[h], p) \/ StrayKiss(peer[h], p)
    /\ UNCHANGED <<peer, sample>>

ObeyKiss(h, p) ==
    /\ Kiss(p) /\ ~Duplicate(peer[h], p) /\ ~StrayKiss(peer[h], p)
    /\ peer' = [peer EXCEPT ![h] = Updated(@, p)]
    /\ UNCHANGED sample

\* process_packet(): a clean packet completes a sample for the clock filter
Process(h, p, header) ==
    /\ ~Kiss(p) /\ ~Duplicate(peer[h], p)
    /\ peer' = [peer EXCEPT ![h] = Updated(@, p)]
    /\ IF Flash(peer[h], p, header) = {}
       THEN sample' = [sample EXCEPT ![h] = [n |-> @.n + 1, t1 |-> p.org, t2 |-> p.rec,
                                             t3 |-> p.xmt, t4 |-> clock + 1]]
       ELSE UNCHANGED sample

\* header: what the tests of the header find, TEST6 or TEST7
Receive(h, p, header) ==
    /\ h \in Keepers /\ p.from = Other(h) /\ p.mode # "client"
    /\ clock < MaxStamp[mode] /\ clock' = clock + 1 /\ Arrives(p)
    /\ Drop(h, p) \/ ObeyKiss(h, p) \/ Process(h, p, header)
    /\ UNCHANGED <<mode, net, clears, asked>>

\* clear_all() after a step, or peer_refresh_interface()
Clear(h) ==
    /\ h \in Keepers /\ clears < MaxClears
    /\ clears' = clears + 1
    /\ peer' = [peer EXCEPT ![h] = Cleared]
    /\ asked' = [asked EXCEPT ![h] = 0]
    /\ UNCHANGED <<mode, net, clock, flights, sample>>

Next ==
    \/ \E h \in Hosts : Transmit(h) \/ Clear(h)
    \/ \E p \in net : Serve(p) \/ Limit(p)
    \/ \E h \in Hosts, p \in net, header \in {{}, {"TEST6"}} : Receive(h, p, header)

Spec == Init /\ [][Next]_vars

-----------------------------------------------------------------------------
TypeOK ==
    /\ mode \in {"client", "active"}
    /\ peer \in [Keepers -> Associations]
    /\ net \subseteq Packets /\ clock \in Stamps /\ clears \in 0 .. MaxClears
    /\ flights \subseteq Hosts \X Stamps \X Stamps
    /\ sample \in [Hosts -> [n : Nat, t1 : Stamps, t2 : Stamps, t3 : Stamps, t4 : Stamps]]
    /\ asked \in [Hosts -> Stamps]

\* The four timestamps of a sample are two real flights: a packet left here at
\* t1 and arrived there at t2, another left there at t3 and arrived here at t4,
\* whatever was lost, duplicated, reordered or cleared.
SampleIsOneExchange ==
    \A h \in Hosts : sample[h].n > 0 =>
        /\ <<h, sample[h].t1, sample[h].t2>> \in flights
        /\ <<Other(h), sample[h].t3, sample[h].t4>> \in flights

\* No request and no answer counts twice, and samples come in the order of the
\* exchanges they measure.
SamplesInOrder ==
    [][\A h \in Hosts : sample'[h].n > sample[h].n /\ sample[h].n > 0 =>
           sample'[h].t1 > sample[h].t1 /\ sample'[h].t3 > sample[h].t3]_vars

\* The first answer to the last request of a client is accepted, whatever
\* arrived before it: stray packets do not use up the request.
AnswerAccepted ==
    [][\A p \in net :
         /\ mode = "client" /\ Receive(A, p, {}) /\ ~p.kod
         /\ asked[A] # 0 /\ p.org = asked[A]
         /\ \A q \in net, f \in flights :
                q.from = B /\ ~q.kod /\ q.org = asked[A] => f[1] # B \/ f[2] # q.xmt
         => sample'[A].n = sample[A].n + 1]_vars

\* "Upon failure of either test, the packet is discarded with no further
\* action" (ntp_proto.c:1281): a bogus packet leaves the times alone that the
\* next request will return.
BogusChangesNothing ==
    [][\A h \in Keepers, p \in net, header \in {{}, {"TEST6"}} :
         Receive(h, p, header) /\ Bogus(peer[h], p)
         => peer'[h].rec = peer[h].rec /\ peer'[h].xmt = peer[h].xmt]_vars
=============================================================================
