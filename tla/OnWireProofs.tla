---------------------------- MODULE OnWireProofs ----------------------------
(***************************************************************************)
(* Proofs about OnWire, for any number of timestamps, kisses and clears.   *)
(* What makes a sample sound is who took which timestamp: a clean packet   *)
(* returns a time of ours, and a time of ours can only be returned with    *)
(* the time it arrived there.  `rec' may hold a time of our own, since a   *)
(* kiss of death between peers returns one; the other side then fails the  *)
(* loopback test, for it never took that time.                             *)
(***************************************************************************)
EXTENDS OnWire, TLAPS

\* h sent a packet at x
Took(h, x) == \E p \in net : p.from = h /\ ~p.kod /\ p.xmt = x

Past ==
    /\ \A p \in net : p.xmt > 0 /\ p.xmt <= clock
    /\ \A h \in Keepers : peer[h].aorg <= clock /\ peer[h].rec <= clock
    /\ \A h \in Hosts : sample[h].t1 <= clock /\ sample[h].t3 <= clock

OneTaker ==
    \A p, q \in net : ~p.kod /\ ~q.kod /\ p.xmt = q.xmt => p.from = q.from

KissReturns ==
    \A p \in net : p.kod => p.mode # "client" /\ Took(Other(p.from), p.xmt)

AorgIsOurs == \A h \in Keepers : peer[h].aorg # 0 => Took(h, peer[h].aorg)

RecArrived ==
    \A h \in Keepers : peer[h].rec # 0 =>
        \/ <<Other(h), peer[h].rec, peer[h].dst>> \in flights
        \/ Took(h, peer[h].rec)

OrgArrived ==
    \A p \in net : ~p.kod /\ p.org # 0 =>
        /\ p.org < p.xmt
        /\ \/ <<Other(p.from), p.org, p.rec>> \in flights
           \/ Took(p.from, p.org)

SampleBeforeRequest ==
    \A h \in Keepers : peer[h].aorg # 0 =>
        sample[h].t1 < peer[h].aorg /\ sample[h].t3 < peer[h].aorg

IInv ==
    /\ TypeOK /\ Past /\ OneTaker /\ KissReturns /\ AorgIsOurs
    /\ RecArrived /\ OrgArrived /\ SampleBeforeRequest /\ SampleIsOneExchange

USE OnWireAssumption

-----------------------------------------------------------------------------
LEMMA OtherHost ==
  ASSUME NEW h \in Hosts
  PROVE  Other(h) \in Hosts /\ Other(h) # h /\ Other(Other(h)) = h
BY DEF Other, Hosts

LEMMA KeepersAreHosts == Keepers \subseteq Hosts
BY DEF Keepers, Hosts

LEMMA InitOK == Init => IInv
<1> SUFFICES ASSUME Init PROVE IInv
  OBVIOUS
<1> USE DEF Init
<1>1. MaxStamp[mode] \in Nat
  OBVIOUS
<1>2. TypeOK
  <2>1. 0 \in Stamps /\ 0 \in 0 .. MaxClears
    BY <1>1 DEF Stamps
  <2>2. peer \in [Keepers -> Associations]
    BY <2>1 DEF Associations, Cleared
  <2>3. sample \in [Hosts -> [n : Nat, t1 : Stamps, t2 : Stamps, t3 : Stamps, t4 : Stamps]]
    BY <2>1 DEF NoSample
  <2> QED  BY <2>1, <2>2, <2>3 DEF TypeOK
<1>3. Past
  BY DEF Past, Cleared, NoSample
<1>4. OneTaker /\ KissReturns /\ OrgArrived
  BY DEF OneTaker, KissReturns, OrgArrived
<1>5. AorgIsOurs /\ RecArrived /\ SampleBeforeRequest
  BY DEF AorgIsOurs, RecArrived, SampleBeforeRequest, Cleared
<1>6. SampleIsOneExchange
  BY DEF SampleIsOneExchange, NoSample
<1> QED  BY <1>2, <1>3, <1>4, <1>5, <1>6 DEF IInv

\* A packet more: who took which time is known as before, and of the new one.
LEMMA NetGrows ==
  ASSUME NEW r, net' = net \cup {r}
  PROVE  /\ \A h, x : Took(h, x) => Took(h, x)'
         /\ \A h, x : Took(h, x)' => Took(h, x) \/ (r.from = h /\ ~r.kod /\ r.xmt = x)
BY DEF Took

LEMMA TransmitStep ==
  ASSUME IInv, NEW h \in Hosts, Transmit(h)
  PROVE  IInv'
<1> USE DEF Transmit
<1> DEFINE r == Sent(h)
<1>t. TypeOK
  BY DEF IInv, TypeOK
<1>0. /\ mode' = mode /\ Keepers' = Keepers /\ Stamps' = Stamps
      /\ h \in Keepers /\ clock \in Nat /\ clock + 1 \in Stamps /\ MaxStamp[mode] \in Nat
  BY <1>t DEF TypeOK, Keepers, Stamps
<1>1. /\ r \in Packets /\ r.from = h /\ ~r.kod /\ r.xmt = clock + 1
      /\ r.org = peer[h].rec /\ r.rec = peer[h].dst /\ net' = net \cup {r}
  BY <1>t, <1>0 DEF TypeOK, Packets, Associations, Sent
<1> HIDE DEF r
<1>2. /\ peer' \in [Keepers -> Associations]
      /\ \A k \in Keepers : peer'[k].rec = peer[k].rec /\ peer'[k].dst = peer[k].dst
      /\ \A k \in Keepers : peer'[k].aorg = IF k = h THEN clock + 1 ELSE peer[k].aorg
  BY <1>t, <1>0 DEF TypeOK, Associations
<1>3. TypeOK'
  <2>1. Packets' = Packets /\ Associations' = Associations
    BY <1>0 DEF Packets, Associations
  <2>2. net' \subseteq Packets' /\ clock' \in Stamps' /\ asked' \in [Hosts -> Stamps']
    BY <1>t, <1>0, <1>1, <2>1 DEF TypeOK
  <2>3. peer' \in [Keepers' -> Associations']
    BY <1>0, <1>2, <2>1
  <2> QED  BY <1>t, <1>0, <2>2, <2>3 DEF TypeOK
<1>4. \A k, x : Took(k, x) => Took(k, x)'
  BY <1>1, NetGrows
<1>5. \E p \in net' : p.from = h /\ ~p.kod /\ p.xmt = clock + 1
  BY <1>1
<1>6. Past'
  <2>1. \A p \in net : p.xmt \in Nat
    BY <1>t DEF TypeOK, Packets, Stamps
  <2>2. \A k \in Keepers : peer[k].aorg \in Nat /\ peer[k].rec \in Nat
    BY <1>t DEF TypeOK, Associations, Stamps
  <2>3. \A k \in Hosts : sample[k].t1 \in Nat /\ sample[k].t3 \in Nat
    BY <1>t DEF TypeOK, Stamps
  <2> QED  BY <1>0, <1>1, <1>2, <2>1, <2>2, <2>3 DEF IInv, Past
<1>7. OneTaker'
  <2>1. \A p \in net : p.xmt \in Nat /\ p.xmt <= clock
    BY <1>t DEF IInv, Past, TypeOK, Packets, Stamps
  <2> QED  BY <1>0, <1>1, <2>1 DEF IInv, OneTaker
<1>8. KissReturns'
  BY <1>1, <1>4 DEF IInv, KissReturns
<1>9. AorgIsOurs'
  <2> SUFFICES ASSUME NEW k \in Keepers, peer'[k].aorg # 0
               PROVE  \E p \in net' : p.from = k /\ ~p.kod /\ p.xmt = peer'[k].aorg
    BY <1>0 DEF AorgIsOurs, Took
  <2>1. CASE k = h
    BY <1>2, <1>5, <2>1
  <2>2. CASE k # h
    BY <1>1, <1>2, <2>2 DEF IInv, AorgIsOurs, Took
  <2> QED  BY <2>1, <2>2
<1>10. RecArrived'
  BY <1>0, <1>2, <1>4 DEF IInv, RecArrived
<1>11. OrgArrived'
  <2>1. r.org # 0 => /\ r.org < r.xmt
                     /\ <<Other(h), r.org, r.rec>> \in flights \/ Took(h, r.org)
    <3>1. peer[h].rec \in Nat
      BY <1>t, <1>0 DEF TypeOK, Associations, Stamps
    <3> QED  BY <1>0, <1>1, <3>1 DEF IInv, RecArrived, Past
  <2> QED  BY <1>1, <1>4, <2>1 DEF IInv, OrgArrived
<1>12. SampleBeforeRequest'
  <2>1. \A k \in Hosts : sample[k].t1 \in Nat /\ sample[k].t3 \in Nat
    BY <1>t DEF TypeOK, Stamps
  <2> QED  BY <1>0, <1>2, <2>1, KeepersAreHosts DEF IInv, SampleBeforeRequest, Past
<1>13. SampleIsOneExchange'
  BY DEF IInv, SampleIsOneExchange
<1> QED  BY <1>3, <1>6, <1>7, <1>8, <1>9, <1>10, <1>11, <1>12, <1>13 DEF IInv

LEMMA ServeStep ==
  ASSUME IInv, NEW p \in net, Serve(p)
  PROVE  IInv'
<1> USE DEF Serve
<1> DEFINE r == Reply(p)
<1>t. TypeOK
  BY DEF IInv
<1>0. /\ mode' = mode /\ Keepers' = Keepers /\ Stamps' = Stamps
      /\ clock \in Nat /\ clock + 1 \in Stamps /\ clock + 2 \in Stamps
      /\ MaxStamp[mode] \in Nat /\ p \in Packets /\ p.xmt \in Nat /\ p.xmt <= clock
      /\ ~p.kod
  BY <1>t DEF TypeOK, Keepers, Stamps, IInv, KissReturns, Packets, Past
<1>1. /\ r \in Packets /\ r.from = Other(p.from) /\ ~r.kod /\ r.xmt = clock + 2
      /\ r.org = p.xmt /\ r.rec = clock + 1 /\ net' = net \cup {r}
      /\ Other(r.from) = p.from
  BY <1>0, OtherHost DEF Packets, Reply
<1>2. flights' = flights \cup {<<p.from, p.xmt, clock + 1>>}
  BY <1>0 DEF Arrives
<1> HIDE DEF r
<1>3. TypeOK'
  <2>1. Packets' = Packets /\ Associations' = Associations
    BY <1>0 DEF Packets, Associations
  <2>2. net' \subseteq Packets' /\ clock' \in Stamps' /\ asked' \in [Hosts -> Stamps']
    BY <1>t, <1>0, <1>1, <2>1 DEF TypeOK
  <2>3. flights' \subseteq Hosts \X Stamps' \X Stamps'
    BY <1>t, <1>0, <1>2 DEF TypeOK, Packets
  <2> QED  BY <1>t, <1>0, <2>1, <2>2, <2>3 DEF TypeOK
<1>4. \A k, x : Took(k, x) => Took(k, x)'
  BY <1>1, NetGrows
<1>6. Past'
  <2>1. \A q \in net : q.xmt \in Nat
    BY <1>t DEF TypeOK, Packets, Stamps
  <2>2. \A k \in Keepers : peer[k].aorg \in Nat /\ peer[k].rec \in Nat
    BY <1>t DEF TypeOK, Associations, Stamps
  <2>3. \A k \in Hosts : sample[k].t1 \in Nat /\ sample[k].t3 \in Nat
    BY <1>t DEF TypeOK, Stamps
  <2> QED  BY <1>0, <1>1, <2>1, <2>2, <2>3 DEF IInv, Past
<1>7. OneTaker'
  <2>1. \A q \in net : q.xmt \in Nat /\ q.xmt <= clock
    BY <1>t DEF IInv, Past, TypeOK, Packets, Stamps
  <2> QED  BY <1>0, <1>1, <2>1 DEF IInv, OneTaker
<1>8. KissReturns'
  BY <1>1, <1>4 DEF IInv, KissReturns
<1>9. AorgIsOurs'
  BY <1>0, <1>4 DEF IInv, AorgIsOurs
<1>10. RecArrived'
  BY <1>0, <1>2, <1>4 DEF IInv, RecArrived
<1>11. OrgArrived'
  BY <1>0, <1>1, <1>2, <1>4 DEF IInv, OrgArrived
<1>12. SampleBeforeRequest'
  BY <1>0 DEF IInv, SampleBeforeRequest
<1>13. SampleIsOneExchange'
  BY <1>2 DEF IInv, SampleIsOneExchange
<1> QED  BY <1>3, <1>6, <1>7, <1>8, <1>9, <1>10, <1>11, <1>12, <1>13 DEF IInv

LEMMA LimitStep ==
  ASSUME IInv, NEW p \in net, Limit(p)
  PROVE  IInv'
<1> USE DEF Limit
<1> DEFINE r == KissOfDeath(p)
<1>t. TypeOK
  BY DEF IInv
<1>0. mode' = mode /\ Keepers' = Keepers /\ Stamps' = Stamps /\ p \in Packets
  BY <1>t DEF TypeOK, Keepers, Stamps
<1>1. /\ r \in Packets /\ r.from = Other(p.from) /\ r.kod /\ r.xmt = p.xmt
      /\ r.mode # "client" /\ net' = net \cup {r} /\ Other(r.from) = p.from
  BY <1>0, OtherHost DEF Packets, KissOfDeath
<1> HIDE DEF r
<1>3. TypeOK'
  <2>1. Packets' = Packets /\ Associations' = Associations
    BY <1>0 DEF Packets, Associations
  <2>2. net' \subseteq Packets' /\ clock' \in Stamps' /\ asked' \in [Hosts -> Stamps']
    BY <1>t, <1>0, <1>1, <2>1 DEF TypeOK
  <2> QED  BY <1>t, <1>0, <2>1, <2>2 DEF TypeOK
<1>4. \A k, x : Took(k, x) => Took(k, x)'
  BY <1>1, NetGrows
<1>6. Past'
  BY <1>0, <1>1 DEF IInv, Past
<1>7. OneTaker'
  BY <1>1 DEF IInv, OneTaker
<1>8. KissReturns'
  <2>1. Took(p.from, p.xmt)
    BY DEF Took
  <2> QED  BY <1>1, <1>4, <2>1 DEF IInv, KissReturns
<1>9. AorgIsOurs'
  BY <1>0, <1>4 DEF IInv, AorgIsOurs
<1>10. RecArrived'
  BY <1>0, <1>4 DEF IInv, RecArrived
<1>11. OrgArrived'
  BY <1>1, <1>4 DEF IInv, OrgArrived
<1>12. SampleBeforeRequest'
  BY <1>0 DEF IInv, SampleBeforeRequest
<1>13. SampleIsOneExchange'
  BY DEF IInv, SampleIsOneExchange
<1> QED  BY <1>3, <1>6, <1>7, <1>8, <1>9, <1>10, <1>11, <1>12, <1>13 DEF IInv

LEMMA ClearStep ==
  ASSUME IInv, NEW h \in Hosts, Clear(h)
  PROVE  IInv'
<1> USE DEF Clear
<1>t. TypeOK
  BY DEF IInv
<1>0. /\ mode' = mode /\ Keepers' = Keepers /\ Stamps' = Stamps /\ h \in Keepers
      /\ 0 \in Stamps
  BY <1>t DEF TypeOK, Keepers, Stamps
<1>1. /\ peer' \in [Keepers -> Associations]
      /\ \A k \in Keepers : peer'[k] = peer[k] \/ peer'[k] = Cleared
  BY <1>t, <1>0 DEF TypeOK, Associations, Cleared
<1>3. TypeOK'
  <2>1. Packets' = Packets /\ Associations' = Associations
    BY <1>0 DEF Packets, Associations
  <2>2. clears' \in 0 .. MaxClears /\ asked' \in [Hosts -> Stamps']
    BY <1>t, <1>0 DEF TypeOK
  <2> QED  BY <1>t, <1>0, <1>1, <2>1, <2>2 DEF TypeOK
<1>4. \A k, x : Took(k, x) => Took(k, x)'
  BY DEF Took
<1>5. Cleared.aorg = 0 /\ Cleared.rec = 0 /\ clock \in Nat
  BY <1>t DEF Cleared, TypeOK, Stamps
<1>6. Past'
  BY <1>0, <1>1, <1>5 DEF IInv, Past
<1>7. OneTaker' /\ KissReturns' /\ OrgArrived'
  BY <1>4 DEF IInv, OneTaker, KissReturns, OrgArrived
<1>9. AorgIsOurs' /\ RecArrived' /\ SampleBeforeRequest'
  BY <1>0, <1>1, <1>4, <1>5 DEF IInv, AorgIsOurs, RecArrived, SampleBeforeRequest
<1>13. SampleIsOneExchange'
  BY DEF IInv, SampleIsOneExchange
<1> QED  BY <1>3, <1>6, <1>7, <1>9, <1>13 DEF IInv

-----------------------------------------------------------------------------
\* A clean packet returns the time of the last request, which this host took:
\* the other one did not, so it can only know when it arrived.
LEMMA CleanPacket ==
  ASSUME IInv, NEW h \in Keepers, NEW p \in net, p.from = Other(h), NEW header,
         ~Kiss(p), Flash(peer[h], p, header) = {}
  PROVE  /\ ~p.kod /\ p.org # 0 /\ p.org = peer[h].aorg /\ p.org < p.xmt
         /\ <<h, p.org, p.rec>> \in flights
         /\ Updated(peer[h], p).aorg = 0
<1>1. ~p.kod /\ ~Bogus(peer[h], p) /\ p.xmt # 0
  BY DEF Flash
<1>2. p.org # 0 /\ p.org = peer[h].aorg
  BY <1>1 DEF Bogus
<1>3. Updated(peer[h], p).aorg = 0
  BY <1>1 DEF Updated
<1>4. h \in Hosts /\ Other(p.from) = h /\ p.from # h
  BY KeepersAreHosts, OtherHost
<1>5. Took(h, p.org)
  BY <1>2 DEF IInv, AorgIsOurs
<1>6. ~Took(p.from, p.org)
  BY <1>4, <1>5 DEF IInv, OneTaker, Took
<1> QED  BY <1>1, <1>2, <1>3, <1>4, <1>6 DEF IInv, OrgArrived

\* What receive() does to the association, whichever way it leaves.
LEMMA ReceiveChanges ==
  ASSUME IInv, NEW h \in Hosts, NEW p \in net, NEW header, Receive(h, p, header)
  PROVE  /\ \A k \in Keepers : k # h => peer'[k] = peer[k]
         /\ peer'[h] = peer[h] \/ peer'[h] = Updated(peer[h], p)
         /\ peer' \in [Keepers -> Associations]
<1>1. h \in Keepers /\ peer \in [Keepers -> Associations] /\ p \in Packets /\ 0 \in Stamps
  BY DEF IInv, TypeOK, Receive, Stamps
<1>2. clock + 1 \in Stamps
  BY DEF Receive, IInv, TypeOK, Stamps
<1>3. Updated(peer[h], p) \in Associations
  BY <1>1, <1>2 DEF Updated, Associations, Packets
<1>4. peer' = peer \/ peer' = [peer EXCEPT ![h] = Updated(peer[h], p)]
  BY DEF Receive, Drop, ObeyKiss, Process
<1> QED  BY <1>1, <1>3, <1>4

\* A sample is made of a clean packet.
LEMMA SampleChanges ==
  ASSUME IInv, NEW h \in Hosts, NEW p \in net, NEW header, Receive(h, p, header)
  PROVE  \/ sample' = sample
         \/ /\ ~Kiss(p) /\ Flash(peer[h], p, header) = {}
            /\ peer'[h] = Updated(peer[h], p)
            /\ sample' = [sample EXCEPT ![h] = [n |-> sample[h].n + 1, t1 |-> p.org,
                             t2 |-> p.rec, t3 |-> p.xmt, t4 |-> clock + 1]]
<1>1. h \in Keepers /\ peer \in [Keepers -> Associations]
  BY DEF IInv, TypeOK, Receive
<1> QED  BY <1>1 DEF Receive, Drop, ObeyKiss, Process

LEMMA ReceiveStep ==
  ASSUME IInv, NEW h \in Hosts, NEW p \in net, NEW header, Receive(h, p, header)
  PROVE  IInv'
<1>t. TypeOK
  BY DEF IInv
<1>0. /\ mode' = mode /\ Keepers' = Keepers /\ Stamps' = Stamps /\ net' = net
      /\ clears' = clears /\ asked' = asked /\ clock' = clock + 1
      /\ h \in Keepers /\ p.from = Other(h) /\ Arrives(p)
  BY DEF Receive, Keepers, Stamps
<1>1. /\ clock \in Nat /\ clock + 1 \in Stamps /\ MaxStamp[mode] \in Nat /\ p \in Packets
      /\ p.xmt \in Nat /\ p.xmt > 0 /\ p.xmt <= clock /\ Other(p.from) = h
  BY <1>t, <1>0, OtherHost DEF TypeOK, Stamps, Receive, Packets, IInv, Past
<1>2. /\ flights \subseteq flights'
      /\ ~p.kod => <<Other(h), p.xmt, clock + 1>> \in flights'
      /\ flights' \subseteq Hosts \X Stamps \X Stamps
  BY <1>t, <1>0, <1>1 DEF Arrives, TypeOK, Packets
<1>3. /\ Updated(peer[h], p).rec = p.xmt /\ Updated(peer[h], p).dst = clock + 1
      /\ Updated(peer[h], p).aorg = 0 \/ Updated(peer[h], p).aorg = peer[h].aorg
  BY DEF Updated
<1>4. \A k, x : Took(k, x) => Took(k, x)'
  BY <1>0 DEF Took
<1>5. /\ \A k \in Keepers : k # h => peer'[k] = peer[k]
      /\ peer'[h] = peer[h] \/ peer'[h] = Updated(peer[h], p)
      /\ peer' \in [Keepers -> Associations]
  BY ReceiveChanges
<1> DEFINE s == [n |-> sample[h].n + 1, t1 |-> p.org, t2 |-> p.rec, t3 |-> p.xmt,
                 t4 |-> clock + 1]
<1>6. \/ sample' = sample
      \/ /\ ~Kiss(p) /\ Flash(peer[h], p, header) = {}
         /\ peer'[h] = Updated(peer[h], p)
         /\ sample' = [sample EXCEPT ![h] = s]
  BY SampleChanges
<1>7. CASE sample' = sample
  <2>1. TypeOK'
    BY <1>t, <1>0, <1>1, <1>2, <1>5, <1>7 DEF TypeOK, Packets, Associations
  <2>2. Past'
    <3>1. \A k \in Keepers : peer[k].aorg \in Nat /\ peer[k].rec \in Nat
      BY <1>t DEF TypeOK, Associations, Stamps
    <3>2. \A k \in Hosts : sample[k].t1 \in Nat /\ sample[k].t3 \in Nat
      BY <1>t DEF TypeOK, Stamps
    <3>3. \A q \in net : q.xmt \in Nat
      BY <1>t DEF TypeOK, Packets, Stamps
    <3> QED  BY <1>0, <1>1, <1>3, <1>5, <1>7, <3>1, <3>2, <3>3 DEF IInv, Past
  <2>3. OneTaker' /\ KissReturns'
    BY <1>0, <1>4 DEF IInv, OneTaker, KissReturns
  <2>4. OrgArrived'
    BY <1>0, <1>2, <1>4 DEF IInv, OrgArrived
  <2>5. AorgIsOurs'
    BY <1>0, <1>3, <1>4, <1>5 DEF IInv, AorgIsOurs
  <2>6. RecArrived'
    <3> SUFFICES ASSUME NEW k \in Keepers, peer'[k].rec # 0
                 PROVE  \/ <<Other(k), peer'[k].rec, peer'[k].dst>> \in flights'
                        \/ \E q \in net' : q.from = k /\ ~q.kod /\ q.xmt = peer'[k].rec
      BY <1>0 DEF RecArrived, Took
    <3>1. CASE peer'[k] = peer[k]
      BY <1>0, <1>2, <3>1 DEF IInv, RecArrived, Took
    <3>2. CASE k = h /\ peer'[h] = Updated(peer[h], p)
      <4>1. p.kod => Took(h, p.xmt)
        BY <1>1 DEF IInv, KissReturns
      <4>2. p.kod => \E q \in net' : q.from = h /\ ~q.kod /\ q.xmt = p.xmt
        BY <1>0, <4>1 DEF Took
      <4>3. peer'[k].rec = p.xmt /\ peer'[k].dst = clock + 1
        BY <1>3, <3>2
      <4> QED  BY <1>2, <3>2, <4>2, <4>3
    <3> QED  BY <1>5, <3>1, <3>2
  <2>7. SampleBeforeRequest'
    BY <1>0, <1>3, <1>5, <1>7 DEF IInv, SampleBeforeRequest
  <2>8. SampleIsOneExchange'
    BY <1>2, <1>7 DEF IInv, SampleIsOneExchange
  <2> QED  BY <2>1, <2>2, <2>3, <2>4, <2>5, <2>6, <2>7, <2>8 DEF IInv
<1>8. CASE /\ ~Kiss(p) /\ Flash(peer[h], p, header) = {}
           /\ peer'[h] = Updated(peer[h], p)
           /\ sample' = [sample EXCEPT ![h] = s]
  <2>0. /\ ~p.kod /\ <<h, p.org, p.rec>> \in flights /\ p.org < p.xmt
        /\ peer'[h].aorg = 0 /\ peer'[h].rec = p.xmt /\ peer'[h].dst = clock + 1
    BY <1>0, <1>3, <1>8, CleanPacket
  <2>a. /\ sample'[h].t1 = p.org /\ sample'[h].t2 = p.rec /\ sample'[h].t3 = p.xmt
        /\ sample'[h].t4 = clock + 1 /\ \A k \in Hosts : k # h => sample'[k] = sample[k]
        /\ p.org \in Nat
        /\ sample' \in [Hosts -> [n : Nat, t1 : Stamps, t2 : Stamps, t3 : Stamps, t4 : Stamps]]
    BY <1>t, <1>1, <1>8 DEF TypeOK, Packets, Stamps
  <2> HIDE DEF s
  <2>1. TypeOK'
    BY <1>t, <1>0, <1>1, <1>2, <1>5, <2>a DEF TypeOK, Packets, Associations
  <2>2. Past'
    <3>1. \A k \in Keepers : peer[k].aorg \in Nat /\ peer[k].rec \in Nat
      BY <1>t DEF TypeOK, Associations, Stamps
    <3>2. \A k \in Hosts : sample[k].t1 \in Nat /\ sample[k].t3 \in Nat
      BY <1>t DEF TypeOK, Stamps
    <3>3. \A q \in net : q.xmt \in Nat
      BY <1>t DEF TypeOK, Packets, Stamps
    <3> QED  BY <1>0, <1>1, <1>5, <2>0, <2>a, <3>1, <3>2, <3>3 DEF IInv, Past
  <2>3. OneTaker' /\ KissReturns'
    BY <1>0, <1>4 DEF IInv, OneTaker, KissReturns
  <2>4. OrgArrived'
    BY <1>0, <1>2, <1>4 DEF IInv, OrgArrived
  <2>5. AorgIsOurs'
    BY <1>0, <1>4, <1>5, <2>0 DEF IInv, AorgIsOurs
  <2>6. RecArrived'
    BY <1>0, <1>2, <1>4, <1>5, <2>0 DEF IInv, RecArrived
  <2>7. SampleBeforeRequest'
    BY <1>0, <1>5, <2>0, <2>a, KeepersAreHosts DEF IInv, SampleBeforeRequest
  <2>8. SampleIsOneExchange'
    BY <1>2, <2>0, <2>a DEF IInv, SampleIsOneExchange
  <2> QED  BY <2>1, <2>2, <2>3, <2>4, <2>5, <2>6, <2>7, <2>8 DEF IInv
<1> QED  BY <1>6, <1>7, <1>8

-----------------------------------------------------------------------------
LEMMA NextOK == IInv /\ [Next]_vars => IInv'
<1> SUFFICES ASSUME IInv, [Next]_vars PROVE IInv'
  OBVIOUS
<1>1. ASSUME NEW h \in Hosts, Transmit(h) PROVE IInv'
  BY <1>1, TransmitStep
<1>2. ASSUME NEW h \in Hosts, Clear(h) PROVE IInv'
  BY <1>2, ClearStep
<1>3. ASSUME NEW p \in net, Serve(p) PROVE IInv'
  BY <1>3, ServeStep
<1>4. ASSUME NEW p \in net, Limit(p) PROVE IInv'
  BY <1>4, LimitStep
<1>5. ASSUME NEW h \in Hosts, NEW p \in net, NEW header \in {{}, {"TEST6"}},
             Receive(h, p, header)
      PROVE  IInv'
  BY <1>5, ReceiveStep
<1>6. CASE UNCHANGED vars
  BY <1>6 DEF vars, IInv, TypeOK, Past, OneTaker, KissReturns, AorgIsOurs, RecArrived,
              OrgArrived, SampleBeforeRequest, SampleIsOneExchange, Took, Keepers, Stamps,
              Packets, Associations
<1> QED  BY <1>1, <1>2, <1>3, <1>4, <1>5, <1>6 DEF Next

LEMMA Invariance == Spec => []IInv
<1> QED  BY InitOK, NextOK, PTL DEF Spec

\* Timestamps, packets and associations keep their types.
THEOREM TypeCorrect == Spec => []TypeOK
<1>1. IInv => TypeOK
  BY DEF IInv
<1> QED  BY <1>1, Invariance, PTL

\* Whatever is lost, duplicated, reordered, limited or cleared, and for however
\* long: the clock filter sees four times of two real flights.
THEOREM SamplesAreSound == Spec => []SampleIsOneExchange
<1>1. IInv => SampleIsOneExchange
  BY DEF IInv
<1> QED  BY <1>1, Invariance, PTL

\* A sample is of a later exchange than the one before it.
THEOREM SamplesAreOrdered == Spec => SamplesInOrder
<1> DEFINE InOrder == \A h \in Hosts : sample'[h].n > sample[h].n /\ sample[h].n > 0 =>
                         sample'[h].t1 > sample[h].t1 /\ sample'[h].t3 > sample[h].t3
<1>1. IInv /\ [Next]_vars => [InOrder]_vars
  <2> SUFFICES ASSUME IInv, Next, NEW k \in Hosts, sample'[k].n > sample[k].n
               PROVE  sample'[k].t1 > sample[k].t1 /\ sample'[k].t3 > sample[k].t3
    OBVIOUS
  <2>1. sample' # sample
    <3>1. sample[k].n \in Nat
      BY DEF IInv, TypeOK
    <3> QED  BY <3>1
  <2>2. PICK h \in Hosts, p \in net, header \in {{}, {"TEST6"}} : Receive(h, p, header)
    BY <2>1 DEF Next, Transmit, Clear, Serve, Limit
  <2>3. /\ ~Kiss(p) /\ Flash(peer[h], p, header) = {}
        /\ sample' = [sample EXCEPT ![h] = [n |-> sample[h].n + 1, t1 |-> p.org,
                             t2 |-> p.rec, t3 |-> p.xmt, t4 |-> clock + 1]]
    BY <2>1, <2>2, SampleChanges
  <2>4. h \in Keepers /\ p.from = Other(h)
    BY <2>2 DEF Receive
  <2>5. p.org # 0 /\ p.org = peer[h].aorg /\ p.org < p.xmt
    BY <2>3, <2>4, CleanPacket
  <2>6. sample[h].t1 < peer[h].aorg /\ sample[h].t3 < peer[h].aorg
    BY <2>4, <2>5 DEF IInv, SampleBeforeRequest
  <2>7. p.org \in Nat /\ p.xmt \in Nat /\ sample[h].t1 \in Nat /\ sample[h].t3 \in Nat
    BY DEF IInv, TypeOK, Packets, Stamps
  <2>8. k = h /\ sample'[h].t1 = p.org /\ sample'[h].t3 = p.xmt
    <3>1. \A j \in Hosts : sample[j].n \in Nat
      BY DEF IInv, TypeOK
    <3>2. sample \in [Hosts -> [n : Nat, t1 : Stamps, t2 : Stamps, t3 : Stamps, t4 : Stamps]]
      BY DEF IInv, TypeOK
    <3> QED  BY <2>3, <3>1, <3>2
  <2> QED  BY <2>5, <2>6, <2>7, <2>8
<1> QED  BY <1>1, Invariance, PTL DEF Spec, SamplesInOrder

-----------------------------------------------------------------------------
(* A client's request stands until an answer to it arrives: nothing else     *)
(* sets aorg to 0, and the duplicate test compares with packets that arrived *)
(* or, after a kiss of death, with a time of our own.                        *)

AnswerArrived ==
    \E q \in net, f \in flights :
        q.from = B /\ ~q.kod /\ q.org = asked[A] /\ f[1] = B /\ f[2] = q.xmt

NoPeers == \A p \in net : p.mode # "active"

RecIsXmt == peer[A].xmt = peer[A].rec

RequestStands == asked[A] # 0 => peer[A].aorg = asked[A] \/ AnswerArrived

ClientInv == mode = "client" => NoPeers /\ RecIsXmt /\ RequestStands

LEMMA ClientHosts ==
  ASSUME mode = "client"
  PROVE  Keepers = {A} /\ A \in Hosts /\ Other(A) = B
BY DEF Keepers, Hosts, Other

LEMMA ClientInit == Init => ClientInv
<1> SUFFICES ASSUME Init, mode = "client" PROVE NoPeers /\ RecIsXmt /\ RequestStands
  BY DEF ClientInv
<1> QED  BY ClientHosts DEF Init, NoPeers, RecIsXmt, RequestStands, Cleared

\* A step that leaves the request and the association of the client alone.
LEMMA ClientKept ==
  ASSUME mode = "client", ClientInv, asked' = asked, peer' = peer,
         net \subseteq net', flights \subseteq flights', NoPeers'
  PROVE  ClientInv'
BY DEF ClientInv, RecIsXmt, RequestStands, AnswerArrived

LEMMA ClientReceives ==
  ASSUME IInv, ClientInv, mode = "client", NEW h \in Hosts, NEW p \in net, NEW header,
         Receive(h, p, header)
  PROVE  ClientInv'
<1>1. /\ h = A /\ p.from = B /\ p.mode = "server" /\ asked' = asked /\ net' = net
      /\ flights \subseteq flights'
      /\ ~p.kod => <<B, p.xmt, clock + 1>> \in flights'
  <2>1. h = A /\ p.from = B /\ p.mode # "client" /\ asked' = asked /\ net' = net /\ Arrives(p)
    BY ClientHosts DEF Receive
  <2>2. p \in Packets /\ p.mode # "active"
    BY DEF IInv, TypeOK, ClientInv, NoPeers
  <2> QED  BY <2>1, <2>2 DEF Packets, Arrives
<1>2. peer'[A] = peer[A] \/ peer'[A] = Updated(peer[A], p)
  BY <1>1, ReceiveChanges
<1>3. NoPeers'
  BY <1>1 DEF ClientInv, NoPeers
<1>4. RecIsXmt'
  BY <1>2 DEF ClientInv, RecIsXmt, Updated
<1>5. RequestStands'
  <2> SUFFICES ASSUME asked[A] # 0, peer'[A].aorg # asked[A] PROVE AnswerArrived'
    BY <1>1 DEF RequestStands
  <2>1. CASE AnswerArrived
    BY <1>1, <2>1 DEF AnswerArrived
  <2>2. CASE peer[A].aorg = asked[A]
    <3>1. ~Kiss(p) /\ ~Bogus(peer[A], p) /\ p.xmt # 0
      BY <1>2, <2>2 DEF Updated
    <3>2. ~p.kod /\ p.org = asked[A]
      BY <1>1, <2>2, <3>1 DEF Kiss, Bogus
    <3> QED  BY <1>1, <3>2 DEF AnswerArrived
  <2> QED  BY <2>1, <2>2 DEF ClientInv, RequestStands
<1> QED  BY <1>3, <1>4, <1>5 DEF ClientInv

LEMMA ClientNext == IInv /\ ClientInv /\ [Next]_vars => ClientInv'
<1> SUFFICES ASSUME IInv, ClientInv, [Next]_vars, mode = "client" PROVE ClientInv'
  <2>1. [Next]_vars => mode' = mode
    BY DEF Next, Transmit, Clear, Serve, Limit, Receive, vars
  <2> QED  BY <2>1 DEF ClientInv
<1>t. /\ Keepers = {A} /\ peer \in [{A} -> Associations] /\ asked \in [Hosts -> Stamps]
      /\ A \in Hosts /\ NoPeers /\ RecIsXmt
  BY ClientHosts DEF IInv, TypeOK, ClientInv
<1>1. ASSUME NEW h \in Hosts, Transmit(h) PROVE ClientInv'
  <2>1. h = A /\ net' = net \cup {Sent(A)} /\ Sent(A).mode = "client"
    BY <1>1, <1>t DEF Transmit, Sent
  <2>2. peer' = [peer EXCEPT ![A].aorg = clock'] /\ asked' = [asked EXCEPT ![A] = clock']
    BY <1>1, <2>1 DEF Transmit
  <2>3. /\ peer'[A].xmt = peer[A].xmt /\ peer'[A].rec = peer[A].rec
        /\ peer'[A].aorg = clock' /\ asked'[A] = clock'
    BY <1>t, <2>2 DEF Associations
  <2>4. NoPeers'
    BY <1>t, <2>1 DEF NoPeers
  <2> QED  BY <1>t, <2>3, <2>4 DEF ClientInv, RecIsXmt, RequestStands
<1>2. ASSUME NEW h \in Hosts, Clear(h) PROVE ClientInv'
  <2>1. peer'[A] = Cleared /\ asked'[A] = 0 /\ NoPeers'
    BY <1>2, <1>t DEF Clear, NoPeers
  <2> QED  BY <2>1 DEF ClientInv, RecIsXmt, RequestStands, Cleared
<1>3. ASSUME NEW p \in net, Serve(p) PROVE ClientInv'
  <2>1. net' = net \cup {Reply(p)} /\ Reply(p).mode = "server"
    BY <1>3 DEF Serve, Reply
  <2>2. NoPeers'
    BY <1>t, <2>1 DEF NoPeers
  <2> QED  BY <1>3, <2>1, <2>2, ClientKept DEF Serve, Arrives
<1>4. ASSUME NEW p \in net, Limit(p) PROVE ClientInv'
  <2>1. net' = net \cup {KissOfDeath(p)} /\ p.mode = "client" /\ KissOfDeath(p).mode = "server"
    BY <1>4, <1>t DEF Limit, KissOfDeath, NoPeers
  <2>2. NoPeers'
    BY <1>t, <2>1 DEF NoPeers
  <2> QED  BY <1>4, <2>1, <2>2, ClientKept DEF Limit
<1>5. ASSUME NEW h \in Hosts, NEW p \in net, NEW header \in {{}, {"TEST6"}},
             Receive(h, p, header)
      PROVE  ClientInv'
  BY <1>5, ClientReceives
<1>6. CASE UNCHANGED vars
  <2>1. NoPeers'
    BY <1>6, <1>t DEF vars, NoPeers
  <2> QED  BY <1>6, <2>1, ClientKept DEF vars
<1> QED  BY <1>1, <1>2, <1>3, <1>4, <1>5, <1>6 DEF Next

\* The first answer to a client's last request reaches the clock filter: no
\* stray packet, no kiss of death and no earlier exchange can use up the
\* request or make the answer look like a duplicate.
THEOREM AnswersAreAccepted == Spec => AnswerAccepted
<1> DEFINE Accepted ==
      \A p \in net :
         /\ mode = "client" /\ Receive(A, p, {}) /\ ~p.kod
         /\ asked[A] # 0 /\ p.org = asked[A]
         /\ \A q \in net, f \in flights :
                q.from = B /\ ~q.kod /\ q.org = asked[A] => f[1] # B \/ f[2] # q.xmt
         => sample'[A].n = sample[A].n + 1
<1>1. IInv /\ ClientInv => Accepted
  <2> SUFFICES ASSUME IInv, ClientInv, NEW p \in net,
                      mode = "client", Receive(A, p, {}), ~p.kod,
                      asked[A] # 0, p.org = asked[A], ~AnswerArrived
               PROVE  sample'[A].n = sample[A].n + 1
    BY DEF AnswerArrived
  <2>1. A \in Hosts /\ A \in Keepers /\ p.from = B /\ Other(A) = B
    BY ClientHosts DEF Receive
  <2>2. p.xmt > 0 /\ p.xmt \in Nat
    BY DEF IInv, Past, TypeOK, Packets, Stamps
  <2>3. ~Duplicate(peer[A], p)
    <3> SUFFICES ASSUME peer[A].rec = p.xmt PROVE FALSE
      BY DEF Duplicate, ClientInv, RecIsXmt
    <3>1. <<B, p.xmt, peer[A].dst>> \notin flights
      BY <2>1 DEF AnswerArrived
    <3>2. Took(A, p.xmt)
      BY <2>1, <2>2, <3>1 DEF IInv, RecArrived
    <3> QED  BY <2>1, <3>2 DEF IInv, OneTaker, Took
  <2>4. ~Kiss(p) /\ ~StrayKiss(peer[A], p)
    BY DEF Kiss, StrayKiss
  <2>5. Flash(peer[A], p, {}) = {}
    <3>1. peer[A].aorg = p.org
      BY DEF ClientInv, RequestStands
    <3> QED  BY <2>2, <3>1 DEF Flash, Bogus
  <2>6. Process(A, p, {})
    BY <2>3, <2>4 DEF Receive, Drop, ObeyKiss
  <2>7. sample \in [Hosts -> [n : Nat, t1 : Stamps, t2 : Stamps, t3 : Stamps, t4 : Stamps]]
    BY DEF IInv, TypeOK
  <2> QED  BY <2>1, <2>5, <2>6, <2>7 DEF Process
<1>2. Spec => []ClientInv
  BY ClientInit, ClientNext, Invariance, PTL DEF Spec
<1> QED  BY <1>1, <1>2, Invariance, PTL DEF AnswerAccepted
=============================================================================
