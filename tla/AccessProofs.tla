---------------------------- MODULE AccessProofs ----------------------------
(***************************************************************************)
(* Proofs about the two modules that decide what the daemon does with a    *)
(* packet before it reads it: the access list (Restrict) and the clients   *)
(* it remembers (Monitor), which receive() asks one after the other.  They *)
(* share no state; each part has an inductive invariant of its own.        *)
(***************************************************************************)
EXTENDS Restrict, Monitor, FiniteSetTheorems, WellFoundedInduction, TLAPS

-----------------------------------------------------------------------------
(* Monitor, for any clients, flags, depths, steps of the clock and         *)
(* parameters of the configuration.  Entries are judged one at a time and  *)
(* moved about in lists; so the invariant is of entries, and lemmas carry  *)
(* it through each way in which a list is made of another.                 *)

\* What KodSpacing and QuietClientServed rest on, entry by entry: after a KoD the
\* counter stays so high that none is due again within a headway increment, unless
\* the clock is stepped forward, and no counter is higher than a KoD sets it.
KodNotDue(e) ==
  ~e.leaped /\ e.kodAge <= Headway => e.leak - Largest(0, e.age) >= limit + Headway - e.kodAge
LeaksOut(e, unstepped) == unstepped => e.age >= 0 /\ e.leak <= limit + Headway
SoundEntry(e, unstepped) == e \in Entries /\ KodNotDue(e) /\ LeaksOut(e, unstepped)

SoundList(list, unstepped) ==
  /\ list \in Seq(Entries)
  /\ \A i \in 1 .. Len(list) : SoundEntry(list[i], unstepped)
  /\ \A i, j \in 1 .. Len(list) : list[i].addr = list[j].addr => i = j

AllocBounded ==
  \E d \in Depths : alloc <= Largest(InitAlloc, Largest(d.min, d.max) - 1 + d.inc)

MonitorInv ==
  /\ free \in Nat /\ alloc \in Nat
  /\ enabled \subseteq Modes /\ depth \in Depths
  /\ steps \in 0 .. MaxSteps
  /\ SoundList(mru, steps = 0)
  /\ alloc = Len(mru) + free
  /\ AllocBounded

LEMMA MonitorBounds ==
  /\ Headway \in Nat \ {0} /\ limit \in Nat /\ limit > Headway /\ MinPkt \in Nat
  /\ InitAlloc \in Nat \ {0}
  /\ OldAge \in Nat /\ Steps \subseteq Int /\ MaxSteps \in Nat
<1>1. \A h \in Nat \ {0}, s \in Nat \ {0, 1} : s * h \in Nat /\ s * h > h
  <2>1. ASSUME NEW h \in Nat \ {0}, NEW s \in Nat \ {0, 1} PROVE s * h \in Nat /\ s * h > h
    <3>1. PICK r \in Nat : s = r + 2
      <4>1. s - 2 \in Nat /\ s = (s - 2) + 2
        OBVIOUS
      <4> QED BY <4>1
    <3>2. s * h = r * h + 2 * h /\ r * h \in Nat
      BY <3>1
    <3> QED BY <3>2
  <2> QED BY <2>1
<1> QED BY <1>1, MonitorAssumption DEF limit

LEMMA DepthType == \A d \in Depths : d.min \in Nat /\ d.max \in Nat /\ d.inc \in Nat
BY MonitorAssumption

LEMMA SecondsBounds ==
  ASSUME NEW age \in Int
  PROVE  /\ Seconds(age) \in Int /\ Seconds(age) <= Largest(0, age)
         /\ \A n \in Nat : age >= 2 * n => Seconds(age) >= n
         /\ \A n \in Nat : age > 4 * n => Seconds(age) >= 2 * n + 1
BY DEF Seconds, Largest

\* ntp_monitor()'s verdict on a client it knows keeps its entry sound, draws a KoD
\* only when the last is long ago, and serves who was quiet.
LEMMA JudgedEntry ==
  ASSUME NEW e, NEW unstepped \in BOOLEAN, SoundEntry(e, unstepped), NEW lit \in Lights
  PROVE  LET j == Judge(e, lit) IN
         /\ SoundEntry([e EXCEPT !.age = 0, !.leak = j.leak,
                                 !.kodAge = IF "kod" \in j.flags THEN 0 ELSE @,
                                 !.leaped = @ /\ "kod" \notin j.flags], unstepped)
         /\ "kod" \in j.flags /\ ~e.leaped => e.kodAge > Headway
         /\ unstepped /\ e.age > 4 * Headway /\ e.age >= 2 * MinPkt => j.flags = {}
<1> DEFINE j == Judge(e, lit)
<1> DEFINE new == [e EXCEPT !.age = 0, !.leak = j.leak,
                            !.kodAge = IF "kod" \in j.flags THEN 0 ELSE @,
                                 !.leaped = @ /\ "kod" \notin j.flags]
<1>1. /\ e.age \in Int /\ e.leak \in Int /\ e.kodAge \in 0 .. Never
      /\ e.addr \in Clients /\ e.leaped \in BOOLEAN /\ Never = Headway + 1
  BY DEF SoundEntry, Entries, Never
<1>2. PICK s \in Int : s = Seconds(e.age)
  BY <1>1, SecondsBounds
<1>3. PICK m \in Int : m = Largest(0, e.age)
  BY <1>1 DEF Largest
<1>4. PICK r \in Int : r = Refill(e)
  BY <1>1, <1>2 DEF Refill, Largest
<1>5. /\ r = IF 0 > e.leak - s THEN 0 ELSE e.leak - s
      /\ s <= m
      /\ ~e.leaped /\ e.kodAge <= Headway => e.leak - m >= limit + Headway - e.kodAge
      /\ unstepped => e.age >= 0 /\ e.leak <= limit + Headway
  BY <1>1, <1>2, <1>3, <1>4, SecondsBounds DEF Refill, Largest, SoundEntry, KodNotDue, LeaksOut
<1>6. \/ /\ s + 1 >= MinPkt /\ r + Headway < limit
         /\ j.leak = r + Headway - 2 /\ j.flags = {}
      \/ /\ ~(s + 1 >= MinPkt /\ r + Headway < limit) /\ r < limit
         /\ j.leak = limit + Headway /\ j.flags = lit
      \/ /\ ~(s + 1 >= MinPkt /\ r + Headway < limit) /\ r >= limit
         /\ j.leak = r /\ j.flags = lit \ {"kod"}
  BY <1>2, <1>4, MonitorBounds DEF Judge
<1>7. "kod" \in j.flags => j.leak = limit + Headway /\ (~e.leaped => e.kodAge > Headway)
  BY <1>1, <1>5, <1>6, MonitorBounds
<1>8. unstepped /\ e.age > 4 * Headway /\ e.age >= 2 * MinPkt => j.flags = {}
  <2> SUFFICES ASSUME unstepped, e.age > 4 * Headway, e.age >= 2 * MinPkt PROVE j.flags = {}
    OBVIOUS
  <2>1. s >= MinPkt /\ s >= 2 * Headway + 1
    BY <1>1, <1>2, SecondsBounds, MonitorBounds
  <2> QED BY <1>1, <1>5, <1>6, <2>1, MonitorBounds
<1>9. SoundEntry(new, unstepped)
  <2> HIDE DEF j
  <2>1. j.leak \in Int /\ (unstepped => j.leak <= limit + Headway)
    <3>1. unstepped => s >= 0
      BY <1>1, <1>2, <1>5, SecondsBounds
    <3> QED BY <1>1, <1>5, <1>6, <3>1, MonitorBounds
  <2>2. PICK k \in 0 .. Never : k = IF "kod" \in j.flags THEN 0 ELSE e.kodAge
    BY <1>1, MonitorBounds
  <2>5. PICK l \in Int : l = j.leak
    BY <2>1
  <2>7. PICK b \in BOOLEAN : b = (e.leaped /\ "kod" \notin j.flags)
    OBVIOUS
  <2>6. new = [addr |-> e.addr, age |-> 0, leak |-> l, kodAge |-> k, leaped |-> b]
    <3>1. new = [e EXCEPT !.age = 0, !.leak = l, !.kodAge = k, !.leaped = b]
      BY <2>2, <2>5, <2>7, <1>1 DEF SoundEntry, Entries
    <3>2. e \in [addr : Clients, age : Int, leak : Int, kodAge : 0 .. Never, leaped : BOOLEAN]
      BY DEF SoundEntry, Entries
    <3> HIDE DEF new
    <3> QED BY <3>1, <3>2
  <2>4. /\ new.age = 0 /\ new.leak = j.leak /\ new.addr = e.addr /\ new.kodAge = k
        /\ new.leaped = b /\ new \in Entries
    <3>1. e.addr \in Clients /\ k \in 0 .. Never /\ l \in Int
      BY <1>1, <2>2, <2>5
    <3> HIDE DEF new
    <3> QED BY <2>5, <2>6, <3>1 DEF Entries
  <2>3. KodNotDue(new)
    <3>1. CASE "kod" \in j.flags
      BY <1>7, <2>2, <2>4, <3>1, MonitorBounds DEF KodNotDue, Largest
    <3>2. CASE "kod" \notin j.flags
      <4>1. ~e.leaped /\ e.kodAge <= Headway => j.leak >= limit + Headway - e.kodAge
        BY <1>1, <1>5, <1>6, MonitorBounds
      <4>2. b = e.leaped
        BY <1>1, <2>7, <3>2
      <4> QED BY <2>2, <2>4, <3>2, <4>1, <4>2, <2>1 DEF KodNotDue, Largest
    <3> QED BY <3>1, <3>2
  <2> QED BY <2>1, <2>4, <2>3 DEF SoundEntry, LeaksOut
<1> QED BY <1>7, <1>8, <1>9

LEMMA FreshEntry ==
  ASSUME NEW c \in Clients, NEW unstepped
  PROVE  SoundEntry(Fresh(c), unstepped)
BY MonitorBounds DEF Fresh, SoundEntry, Entries, KodNotDue, LeaksOut, Never

LEMMA AgedEntry ==
  ASSUME NEW e, NEW unstepped \in BOOLEAN, SoundEntry(e, unstepped)
  PROVE  SoundEntry([e EXCEPT !.age = Smallest(OldAge, @ + 1),
                              !.kodAge = Smallest(Never, @ + 1)], unstepped)
<1> DEFINE new == [e EXCEPT !.age = Smallest(OldAge, @ + 1), !.kodAge = Smallest(Never, @ + 1)]
<1>1. /\ e.age \in Int /\ e.leak \in Int /\ e.kodAge \in 0 .. Never
      /\ e.addr \in Clients /\ e.leaped \in BOOLEAN /\ Never = Headway + 1
  BY DEF SoundEntry, Entries, Never
<1>2. PICK a \in Int, k \in 0 .. Never :
        /\ a = Smallest(OldAge, e.age + 1) /\ k = Smallest(Never, e.kodAge + 1)
        /\ a <= e.age + 1 /\ (e.age >= 0 => a >= 0)
        /\ k <= Headway => k = e.kodAge + 1
  BY <1>1, MonitorBounds DEF Smallest
<1>3. /\ new.age = a /\ new.leak = e.leak /\ new.kodAge = k /\ new.leaped = e.leaped
      /\ new \in Entries
  BY <1>2, <1>1 DEF SoundEntry, Entries
<1> HIDE DEF new
<1>4. KodNotDue(new)
  <2>1. Largest(0, a) \in Int /\ Largest(0, e.age) \in Int /\ Largest(0, a) <= Largest(0, e.age) + 1
    BY <1>1, <1>2 DEF Largest
  <2> QED BY <1>1, <1>2, <1>3, <2>1, MonitorBounds DEF SoundEntry, KodNotDue
<1> QED BY <1>1, <1>2, <1>3, <1>4 DEF SoundEntry, LeaksOut, new

LEMMA SteppedEntry ==
  ASSUME NEW e, NEW unstepped, SoundEntry(e, unstepped), NEW s \in Int,
         NEW new, new = [e EXCEPT !.age = Smallest(OldAge, @ + s), !.leaped = @ \/ s > 0]
  PROVE  SoundEntry(new, FALSE)
<1>1. /\ e.age \in Int /\ e.leak \in Int /\ e.kodAge \in 0 .. Never
      /\ e.addr \in Clients /\ e.leaped \in BOOLEAN /\ Never = Headway + 1
  BY DEF SoundEntry, Entries, Never
<1>2. PICK a \in Int : a = Smallest(OldAge, e.age + s) /\ (s <= 0 => a <= e.age)
  BY <1>1, MonitorBounds DEF Smallest
<1>5. PICK b \in BOOLEAN : b = (e.leaped \/ s > 0)
  OBVIOUS
<1>3. /\ new.age = a /\ new.leak = e.leak /\ new.kodAge = e.kodAge /\ new.leaped = b
      /\ new \in Entries
  <2>1. e \in [addr : Clients, age : Int, leak : Int, kodAge : 0 .. Never, leaped : BOOLEAN]
    BY DEF SoundEntry, Entries
  <2>2. new = [e EXCEPT !.age = a, !.leaped = b]
    BY <1>2, <1>5
  <2> QED BY <2>1, <2>2 DEF Entries
<1>4. KodNotDue(new)
  <2>1. /\ Largest(0, a) \in Int /\ Largest(0, e.age) \in Int
        /\ a <= e.age => Largest(0, a) <= Largest(0, e.age)
    BY <1>1, <1>2 DEF Largest
  <2>3. ~b => ~e.leaped /\ ~(s > 0)
    BY <1>5, Zenon
  <2>4. ~(s > 0) => s <= 0
    OBVIOUS
  <2>2. ~b => ~e.leaped /\ s <= 0
    BY <2>3, <2>4, Zenon
  <2> QED BY <1>1, <1>2, <1>3, <2>1, <2>2, MonitorBounds DEF SoundEntry, KodNotDue
<1> QED BY <1>3, <1>4 DEF SoundEntry, LeaksOut

\* Lists made of a sound one
LEMMA PrependedList ==
  ASSUME NEW list, NEW unstepped, SoundList(list, unstepped),
         NEW e, SoundEntry(e, unstepped), \A i \in 1 .. Len(list) : list[i].addr # e.addr
  PROVE  SoundList(<<e>> \o list, unstepped) /\ Len(<<e>> \o list) = Len(list) + 1
<1> DEFINE new == <<e>> \o list
<1>1. /\ new \in Seq(Entries) /\ Len(new) = Len(list) + 1 /\ Len(list) \in Nat
      /\ \A i \in 1 .. Len(list) + 1 : new[i] = IF i = 1 THEN e ELSE list[i - 1]
  BY DEF SoundList, SoundEntry
<1> HIDE DEF new
<1>0. \A i \in 1 .. Len(list) : list[i].addr # e.addr
  OBVIOUS
<1>4. \A k \in 2 .. Len(new) : k - 1 \in 1 .. Len(list) /\ new[k] = list[k - 1]
  BY <1>1
<1>5. Len(new) \in Nat /\ new[1] = e
  BY <1>1
<1>2. ASSUME NEW i \in 1 .. Len(new) PROVE SoundEntry(new[i], unstepped)
  <2>1. CASE i \in 2 .. Len(new)
    <3>1. SoundEntry(list[i - 1], unstepped)
      BY <1>4, <2>1 DEF SoundList
    <3> QED BY <1>4, <2>1, <3>1
  <2>2. CASE i = 1
    BY <1>5, <2>2
  <2> QED BY <1>5, <2>1, <2>2
<1>3. ASSUME NEW i \in 1 .. Len(new), NEW j \in 1 .. Len(new), new[i].addr = new[j].addr PROVE i = j
  <2>1. CASE i = 1 /\ j # 1
    <3>1. j \in 2 .. Len(new)
      BY <1>5, <2>1
    <3> QED BY <1>0, <1>4, <1>5, <1>3, <2>1, <3>1
  <2>2. CASE i # 1 /\ j = 1
    <3>1. i \in 2 .. Len(new)
      BY <1>5, <2>2
    <3> QED BY <1>0, <1>4, <1>5, <1>3, <2>2, <3>1
  <2>3. CASE i # 1 /\ j # 1
    <3>1. list[i - 1].addr = list[j - 1].addr /\ i - 1 \in 1 .. Len(list) /\ j - 1 \in 1 .. Len(list)
      BY <1>1, <1>3, <2>3
    <3>2. i - 1 = j - 1
      BY <3>1 DEF SoundList
    <3> QED BY <3>2, <1>1
  <2> QED BY <2>1, <2>2, <2>3
<1> QED BY <1>1, <1>2, <1>3 DEF SoundList, new

\* new has n entries of list, those at the places f gives.
Selected(new, list, n, f) ==
  /\ n \in Nat /\ f \in [1 .. n -> 1 .. Len(list)]
  /\ \A i, j \in 1 .. n : f[i] = f[j] => i = j
  /\ new \in Seq(Entries) /\ Len(new) = n /\ \A i \in 1 .. n : new[i] = list[f[i]]

LEMMA SelectedList ==
  ASSUME NEW list, NEW unstepped, SoundList(list, unstepped),
         NEW new, NEW n, NEW f, Selected(new, list, n, f)
  PROVE  SoundList(new, unstepped) /\ Len(new) = n
<1> USE DEF Selected
<1>1. new \in Seq(Entries) /\ Len(new) = n /\ \A i \in 1 .. n : new[i] = list[f[i]]
  OBVIOUS
<1>2. ASSUME NEW i \in 1 .. n, NEW j \in 1 .. n, new[i].addr = new[j].addr PROVE i = j
  <2>1. f[i] \in 1 .. Len(list) /\ f[j] \in 1 .. Len(list) /\ list[f[i]].addr = list[f[j]].addr
    BY <1>1, <1>2
  <2>2. f[i] = f[j]
    BY <2>1 DEF SoundList
  <2> QED BY <2>2
<1>3. \A i \in 1 .. n : SoundEntry(new[i], unstepped)
  BY <1>1 DEF SoundList
<1> QED BY <1>1, <1>2, <1>3 DEF SoundList

LEMMA DomainOfList ==
  ASSUME NEW list, NEW unstepped, SoundList(list, unstepped)
  PROVE  DOMAIN list = 1 .. Len(list) /\ Len(list) \in Nat
BY DEF SoundList

LEMMA MappedList ==
  ASSUME NEW list, NEW unstepped, SoundList(list, unstepped), NEW new, NEW unstepped2,
         new = [i \in DOMAIN list |-> new[i]],
         \A i \in DOMAIN list : SoundEntry(new[i], unstepped2) /\ new[i].addr = list[i].addr
  PROVE  SoundList(new, unstepped2) /\ Len(new) = Len(list)
<1>1. DOMAIN list = 1 .. Len(list) /\ Len(list) \in Nat
  BY DEF SoundList
<1>2. new \in Seq(Entries) /\ Len(new) = Len(list)
  BY <1>1 DEF SoundEntry
<1> QED BY <1>1, <1>2 DEF SoundList

LEMMA ShuffledList ==
  ASSUME NEW unstepped, SoundList(mru, unstepped), NEW k \in 1 .. Len(mru),
         NEW e, SoundEntry(e, unstepped), e.addr = mru[k].addr
  PROVE  SoundList(Shuffled(e, k), unstepped) /\ Len(Shuffled(e, k)) = Len(mru)
<1> DEFINE new == Shuffled(e, k)
<1>0. \A i \in 1 .. Len(mru) : mru[i] \in Entries
  BY DEF SoundList, SoundEntry
<1>1. Len(mru) \in Nat /\ e \in Entries
  BY DEF SoundList, SoundEntry
<1>2. /\ new \in Seq(Entries) /\ Len(new) = Len(mru)
      /\ \A i \in 1 .. Len(mru) :
           new[i] = IF i = 1 THEN e ELSE IF i <= k THEN mru[i - 1] ELSE mru[i]
  BY <1>0, <1>1 DEF Shuffled
<1> HIDE DEF new
<1> DEFINE from(i) == IF i = 1 THEN k ELSE IF i <= k THEN i - 1 ELSE i
<1>3. \A i \in 1 .. Len(mru) : from(i) \in 1 .. Len(mru) /\ new[i].addr = mru[from(i)].addr
  BY <1>1, <1>2
<1>4. ASSUME NEW i \in 1 .. Len(mru) PROVE SoundEntry(new[i], unstepped)
  <2>1. new[i] = IF i = 1 THEN e ELSE IF i <= k THEN mru[i - 1] ELSE mru[i]
    BY <1>2
  <2>2. i # 1 => i - 1 \in 1 .. Len(mru)
    BY <1>1
  <2>3. \A l \in 1 .. Len(mru) : SoundEntry(mru[l], unstepped)
    BY DEF SoundList
  <2> QED BY <2>1, <2>2, <2>3
<1>5. \A i, j \in 1 .. Len(mru) : from(i) = from(j) => i = j
  BY <1>1
<1> HIDE DEF from
<1>6. ASSUME NEW i \in 1 .. Len(mru), NEW j \in 1 .. Len(mru), new[i].addr = new[j].addr
      PROVE  i = j
  <2>1. /\ from(i) \in 1 .. Len(mru) /\ from(j) \in 1 .. Len(mru)
        /\ mru[from(i)].addr = mru[from(j)].addr
    BY <1>3, <1>6
  <2>2. from(i) = from(j)
    BY <2>1 DEF SoundList
  <2> QED BY <1>5, <2>2
<1> QED BY <1>2, <1>4, <1>6 DEF SoundList, new

LEMMA PlaceOfListed ==
  ASSUME NEW c, c \in Listed
  PROVE  PlaceOf(c) \in 1 .. Len(mru) /\ EntryOf(c).addr = c /\ EntryOf(c) = mru[PlaceOf(c)]
BY DEF Listed, PlaceOf, EntryOf

-----------------------------------------------------------------------------
LEMMA InitMonitorInv == MonitorInit => MonitorInv
<1> SUFFICES ASSUME MonitorInit PROVE MonitorInv
  OBVIOUS
<1>1. SoundList(mru, steps = 0) /\ Len(mru) = 0
  BY DEF MonitorInit, SoundList
<1>2. AllocBounded
  BY MonitorBounds, DepthType DEF MonitorInit, AllocBounded, Largest
<1> QED BY <1>1, <1>2, MonitorBounds DEF MonitorInit, MonitorInv, Modes

LEMMA KnownMonitorInv ==
  ASSUME MonitorInv, NEW c \in Clients, NEW lit \in Lights, Known(c, lit)
  PROVE  MonitorInv'
<1> DEFINE j == Judge(EntryOf(c), lit)
           new == [EntryOf(c) EXCEPT !.age = 0, !.leak = j.leak,
                                     !.kodAge = IF "kod" \in j.flags THEN 0 ELSE @,
                                 !.leaped = @ /\ "kod" \notin j.flags]
<1>1. /\ PlaceOf(c) \in 1 .. Len(mru) /\ EntryOf(c) = mru[PlaceOf(c)]
      /\ mru' = Shuffled(new, PlaceOf(c))
      /\ UNCHANGED <<free, alloc, enabled, depth, steps>>
  BY PlaceOfListed DEF Known
<1>2. SoundEntry(EntryOf(c), steps = 0) /\ SoundList(mru, steps = 0)
  BY <1>1 DEF MonitorInv, SoundList
<1>3. SoundEntry(new, steps = 0)
  BY <1>2, JudgedEntry
<1>4. new.addr = mru[PlaceOf(c)].addr
  BY <1>1, <1>2 DEF SoundEntry, Entries
<1> HIDE DEF new
<1>5. SoundList(mru', steps = 0) /\ Len(mru') = Len(mru)
  BY <1>1, <1>2, <1>3, <1>4, ShuffledList
<1> QED BY <1>1, <1>5 DEF MonitorInv, AllocBounded

LEMMA AdmitMonitorInv ==
  ASSUME MonitorInv, NEW c \in Clients, Admit(c)
  PROVE  MonitorInv'
<1>1. SoundList(<<Fresh(c)>> \o mru, steps = 0) /\ Len(<<Fresh(c)>> \o mru) = Len(mru) + 1
  <2>1. \A i \in 1 .. Len(mru) : mru[i].addr # Fresh(c).addr
    BY DEF Admit, FromFreeList, Listed, Fresh
  <2> QED BY <2>1, FreshEntry, PrependedList DEF MonitorInv
<1>2. PICK m \in Nat : m = Chunk
  BY MonitorBounds, DepthType DEF Chunk, MonitorInv
<1>3. /\ free > 0 => m = 0
      /\ free = 0 => m > 0 /\ (alloc = 0 => m = InitAlloc) /\ (alloc # 0 => m = depth.inc)
  BY <1>2, MonitorBounds DEF Admit, Chunk, MonitorInv
<1>4. /\ alloc' = alloc + m /\ free' = free + m - 1 /\ mru' = <<Fresh(c)>> \o mru
      /\ UNCHANGED <<enabled, depth, steps>>
      /\ Len(mru) < depth.min \/ free > 0 \/ alloc < depth.max
  BY <1>2 DEF Admit, FromFreeList
<1>5. /\ Len(mru) \in Nat /\ free \in Nat /\ alloc \in Nat /\ alloc = Len(mru) + free
      /\ depth \in Depths
  BY DEF MonitorInv, SoundList
<1>6. AllocBounded'
  <2>1. CASE free > 0 \/ alloc = 0
    <3>1. \A d \in Depths : Largest(InitAlloc, Largest(d.min, d.max) - 1 + d.inc) >= InitAlloc
      BY DepthType, MonitorBounds DEF Largest
    <3> QED BY <2>1, <3>1, <1>3, <1>4, <1>5, MonitorBounds DEF AllocBounded, MonitorInv
  <2>2. CASE free = 0 /\ alloc # 0
    <3>1. alloc <= Largest(depth.min, depth.max) - 1
      BY <2>2, <1>4, <1>5, DepthType DEF Largest
    <3>2. PICK most \in Int : most = Largest(depth.min, depth.max) - 1 /\ alloc <= most
      BY <3>1, <1>5, DepthType DEF Largest
    <3>3. alloc' = alloc + depth.inc /\ depth.inc \in Nat
      BY <2>2, <1>3, <1>4, <1>5, DepthType
    <3>4. alloc' <= Largest(InitAlloc, most + depth.inc)
      BY <3>2, <3>3, <1>5, MonitorBounds DEF Largest
    <3>5. alloc' <= Largest(InitAlloc, Largest(depth.min, depth.max) - 1 + depth.inc)
      BY <3>2, <3>4
    <3> QED BY <3>5, <1>4, <1>5 DEF AllocBounded
  <2> QED BY <2>1, <2>2, <1>5
<1>7. free' \in Nat /\ alloc' \in Nat /\ alloc' = Len(mru') + free'
  BY <1>1, <1>3, <1>4, <1>5
<1> QED BY <1>1, <1>4, <1>6, <1>7 DEF MonitorInv

LEMMA ReplaceMonitorInv ==
  ASSUME MonitorInv, NEW c \in Clients, Replace(c)
  PROVE  MonitorInv'
<1> DEFINE rest == SubSeq(mru, 1, Len(mru) - 1)
<1>0. \A k \in 1 .. Len(mru) : mru[k] \in Entries
  BY DEF MonitorInv, SoundList, SoundEntry
<1>1. /\ mru' = <<Fresh(c)>> \o rest /\ Len(mru) \in Nat \ {0} /\ mru \in Seq(Entries)
      /\ UNCHANGED <<free, alloc, enabled, depth, steps>>
  BY DEF Replace, MonitorInv, SoundList
<1>2. rest = [i \in 1 .. Len(mru) - 1 |-> mru[i]]
  BY <1>1
<1> HIDE DEF rest
<1>3. SoundList(rest, steps = 0) /\ Len(rest) = Len(mru) - 1
  <2> DEFINE f == [i \in 1 .. Len(mru) - 1 |-> i]
  <2>1. /\ f \in [1 .. Len(mru) - 1 -> 1 .. Len(mru)]
        /\ \A i, j \in 1 .. Len(mru) - 1 : f[i] = f[j] => i = j
    BY <1>1
  <2>2. /\ rest \in Seq(Entries) /\ Len(rest) = Len(mru) - 1
        /\ \A i \in 1 .. Len(mru) - 1 : rest[i] = mru[f[i]]
    BY <1>0, <1>1, <1>2
  <2> HIDE DEF f
  <2>3. Len(mru) - 1 \in Nat /\ SoundList(mru, steps = 0)
    BY <1>1 DEF MonitorInv
  <2>4. Selected(rest, mru, Len(mru) - 1, f)
    BY <2>1, <2>2, <2>3 DEF Selected
  <2> QED BY <2>3, <2>4, SelectedList
<1>4. \A i \in 1 .. Len(rest) : rest[i].addr # Fresh(c).addr
  BY <1>1, <1>2, <1>3 DEF Replace, Listed, Fresh
<1>5. SoundList(mru', steps = 0) /\ Len(mru') = Len(mru)
  BY <1>1, <1>3, <1>4, FreshEntry, PrependedList
<1> QED BY <1>1, <1>5 DEF MonitorInv, AllocBounded

LEMMA ClearInterfaceMonitorInv ==
  ASSUME MonitorInv, NEW cs \in SUBSET Clients, ClearInterface(cs)
  PROVE  MonitorInv'
<1> DEFINE kept == {i \in 1 .. Len(mru) : mru[i].addr \notin cs}
<1>1. Len(mru) \in Nat /\ free \in Nat /\ alloc = Len(mru) + free
  BY DEF MonitorInv, SoundList
<1>2. IsFiniteSet(kept) /\ Cardinality(kept) \in Nat /\ Cardinality(kept) <= Len(mru)
  <2>1. IsFiniteSet(1 .. Len(mru)) /\ Cardinality(1 .. Len(mru)) = Len(mru)
    <3>1. 1 \in Int /\ Len(mru) \in Int
      BY <1>1
    <3>2. /\ IsFiniteSet(1 .. Len(mru))
          /\ Cardinality(1 .. Len(mru)) = IF 1 > Len(mru) THEN 0 ELSE Len(mru) - 1 + 1
      BY <3>1, FS_Interval
    <3> QED BY <1>1, <3>2
  <2>2. kept \subseteq 1 .. Len(mru)
    OBVIOUS
  <2> HIDE DEF kept
  <2> QED BY <1>1, <2>1, <2>2, FS_Subset, FS_CardinalityType
<1>3. PICK n \in 0 .. Len(mru) : n = Cardinality(kept)
  <2> HIDE DEF kept
  <2> QED BY <1>1, <1>2
<1>4. PICK f \in [1 .. n -> kept] :
        /\ \A i, j \in 1 .. n : i < j => f[i] < f[j]
        /\ mru' = [i \in 1 .. n |-> mru[f[i]]]
  BY <1>3 DEF ClearInterface, Unlinked
<1>5. f \in [1 .. n -> 1 .. Len(mru)] /\ \A i, j \in 1 .. n : f[i] = f[j] => i = j
  <2>1. f \in [1 .. n -> 1 .. Len(mru)]
    OBVIOUS
  <2>2. ASSUME NEW i \in 1 .. n, NEW j \in 1 .. n, f[i] = f[j] PROVE i = j
    <3>1. ~(i < j) /\ ~(j < i)
      BY <1>1, <1>4, <2>1, <2>2
    <3> QED BY <3>1
  <2> QED BY <2>1, <2>2
<1>6. SoundList(mru', steps = 0) /\ Len(mru') = n
  <2>1. n \in Nat /\ SoundList(mru, steps = 0)
    BY DEF MonitorInv
  <2>0. \A i \in 1 .. Len(mru) : mru[i] \in Entries
    BY <2>1 DEF SoundList, SoundEntry
  <2>2. mru' \in Seq(Entries) /\ Len(mru') = n /\ \A i \in 1 .. n : mru'[i] = mru[f[i]]
    BY <1>4, <1>5, <2>0
  <2>3. Selected(mru', mru, n, f)
    BY <1>5, <2>1, <2>2 DEF Selected
  <2> QED BY <2>1, <2>3, SelectedList
<1>7. free' = free + Len(mru) - n /\ UNCHANGED <<alloc, enabled, depth, steps>>
  BY <1>6 DEF ClearInterface
<1>8. free' \in Nat /\ alloc' = Len(mru') + free'
  BY <1>1, <1>6, <1>7
<1> QED BY <1>6, <1>7, <1>8 DEF MonitorInv, AllocBounded

LEMMA TimeMonitorInv ==
  ASSUME MonitorInv, HalfSecond \/ \E s \in Steps : Step(s)
  PROVE  MonitorInv'
<1>1. CASE HalfSecond
  <2>0. SoundList(mru, steps = 0)
    BY DEF MonitorInv
  <2>1. SoundList(mru, steps = 0) /\ DOMAIN mru = 1 .. Len(mru)
    BY <2>0, DomainOfList
  <2>2. \A i \in DOMAIN mru : SoundEntry(mru[i], steps = 0)
    BY <2>1 DEF SoundList
  <2>3. ASSUME NEW i \in DOMAIN mru PROVE SoundEntry(mru'[i], steps = 0) /\ mru'[i].addr = mru[i].addr
    <3>1. mru'[i] = [mru[i] EXCEPT !.age = Smallest(OldAge, @ + 1),
                                   !.kodAge = Smallest(Never, @ + 1)]
      BY <1>1 DEF HalfSecond
    <3>2. mru'[i].addr = mru[i].addr
      BY <3>1, <2>2 DEF SoundEntry, Entries
    <3> QED BY <3>1, <3>2, <2>2, AgedEntry
  <2>4. mru' = [i \in DOMAIN mru |-> mru'[i]]
    BY <1>1 DEF HalfSecond
  <2>5. SoundList(mru', steps = 0) /\ Len(mru') = Len(mru)
    BY <2>1, <2>3, <2>4, MappedList
  <2> QED BY <1>1, <2>5 DEF HalfSecond, MonitorInv, AllocBounded
<1>2. ASSUME NEW s \in Steps, Step(s) PROVE MonitorInv'
  <2>0. SoundList(mru, steps = 0)
    BY DEF MonitorInv
  <2>1. SoundList(mru, steps = 0) /\ DOMAIN mru = 1 .. Len(mru)
    BY <2>0, DomainOfList
  <2>2. \A i \in DOMAIN mru : SoundEntry(mru[i], steps = 0)
    BY <2>1 DEF SoundList
  <2>3. ASSUME NEW i \in DOMAIN mru PROVE SoundEntry(mru'[i], FALSE) /\ mru'[i].addr = mru[i].addr
    <3>1. mru'[i] = [mru[i] EXCEPT !.age = Smallest(OldAge, @ + s), !.leaped = @ \/ s > 0]
      BY <1>2 DEF Step
    <3>2. mru'[i].addr = mru[i].addr
      BY <3>1, <2>2 DEF SoundEntry, Entries
    <3>3. s \in Int
      BY MonitorBounds
    <3> QED BY <3>1, <3>2, <3>3, <2>2, SteppedEntry
  <2>4. mru' = [i \in DOMAIN mru |-> mru'[i]]
    BY <1>2 DEF Step
  <2>5. SoundList(mru', FALSE) /\ Len(mru') = Len(mru)
    <3> QED BY <2>1, <2>3, <2>4, MappedList
  <2>6. steps' \in 0 .. MaxSteps /\ steps' # 0 /\ UNCHANGED <<free, alloc, enabled, depth>>
    <3>1. steps < MaxSteps /\ steps' = steps + 1 /\ UNCHANGED <<free, alloc, enabled, depth>>
      BY <1>2 DEF Step
    <3>2. steps \in 0 .. MaxSteps
      BY DEF MonitorInv
    <3> QED BY <3>1, <3>2, MonitorBounds
  <2>7. (steps' = 0) = FALSE
    BY <2>6
  <2>8. SoundList(mru', steps' = 0)
    BY <2>5, <2>7
  <2> QED BY <2>5, <2>6, <2>8 DEF MonitorInv, AllocBounded
<1> QED BY <1>1, <1>2

LEMMA NextMonitorInv == MonitorInv /\ [MonitorNext]_monitorVars => MonitorInv'
<1> SUFFICES ASSUME MonitorInv, [MonitorNext]_monitorVars PROVE MonitorInv'
  OBVIOUS
<1>1. CASE UNCHANGED monitorVars
  BY <1>1 DEF monitorVars, MonitorInv, AllocBounded
<1>2. ASSUME NEW mode \in Modes, Start(mode) PROVE MonitorInv'
  BY <1>2 DEF Start, MonitorInv, AllocBounded
<1>3. ASSUME NEW modes \in SUBSET Modes, Stop(modes) PROVE MonitorInv'
  <2>1. SoundList(<<>>, steps = 0) /\ Len(<<>>) = 0
    BY DEF SoundList
  <2>2. Len(mru) \in Nat
    BY DEF MonitorInv, SoundList
  <2>3. enabled' \subseteq Modes /\ UNCHANGED <<alloc, depth, steps>>
        /\ \/ mru' = <<>> /\ free' = free + Len(mru)
           \/ UNCHANGED <<mru, free>>
    BY <1>3 DEF Stop, MonitorInv
  <2> QED BY <2>1, <2>2, <2>3 DEF MonitorInv, AllocBounded
<1>4. ASSUME NEW d \in Depths, ConfigureDepth(d) PROVE MonitorInv'
  BY <1>4 DEF ConfigureDepth, MonitorInv, AllocBounded
<1>5. ASSUME NEW c \in Clients, Overlook(c) PROVE MonitorInv'
  BY <1>5, <1>1 DEF Overlook
<1>6. ASSUME NEW c \in Clients, RunsDry(c) PROVE MonitorInv'
  BY <1>6 DEF RunsDry, MonitorInv, AllocBounded
<1> QED
  BY <1>1, <1>2, <1>3, <1>4, <1>5, <1>6, KnownMonitorInv, AdmitMonitorInv, ReplaceMonitorInv,
     ClearInterfaceMonitorInv, TimeMonitorInv
  DEF MonitorNext, Operation

LEMMA AlwaysMonitorInv == MonitorSpec => []MonitorInv
BY InitMonitorInv, NextMonitorInv, PTL DEF MonitorSpec

AbortedInv == aborted \in BOOLEAN /\ DryOnlyByOrder

\* Nothing but RunsDry ends the daemon, and nothing happens after it.
LEMMA NextAborted ==
  ASSUME MonitorInv, AbortedInv, [MonitorNext]_monitorVars
  PROVE  AbortedInv'
<1> USE DEF AbortedInv
<1>1. CASE UNCHANGED monitorVars
  BY <1>1 DEF monitorVars, DryOnlyByOrder
<1>2. ASSUME NEW c \in Clients, RunsDry(c) PROVE aborted' = TRUE /\ depth' = depth /\ depth.inc = 0
  <2>1. alloc # 0 /\ free = 0
    <3>1. Len(mru) < depth.min \/ free > 0 \/ alloc < depth.max
      BY <1>2 DEF RunsDry, FromFreeList
    <3>2. free \in Nat /\ Chunk \in Nat
      BY MonitorBounds, DepthType DEF Chunk, MonitorInv
    <3>3. free + Chunk = 0
      BY <1>2 DEF RunsDry
    <3>4. free = 0 /\ Chunk = 0
      BY <3>2, <3>3
    <3> QED BY <3>4, MonitorBounds DEF Chunk
  <2>2. Chunk = depth.inc
    BY <2>1 DEF Chunk, MonitorInv
  <2>3. depth.inc \in Nat
    BY DepthType DEF MonitorInv
  <2> QED BY <1>2, <2>1, <2>2, <2>3 DEF RunsDry
<1>3. ASSUME MonitorNext, \A c \in Clients : ~RunsDry(c) PROVE ~aborted /\ aborted' = aborted
  BY <1>3
  DEF MonitorNext, Operation, Start, Stop, Known, Admit, Replace, Overlook, ClearInterface,
      ConfigureDepth, HalfSecond, Step, monitorVars
<1>4. CASE \E c \in Clients : RunsDry(c)
  BY <1>2, <1>4 DEF DryOnlyByOrder
<1>5. CASE MonitorNext /\ \A c \in Clients : ~RunsDry(c)
  BY <1>3, <1>5 DEF DryOnlyByOrder
<1> QED BY <1>1, <1>4, <1>5

LEMMA AlwaysAborted == MonitorSpec => [](MonitorInv /\ AbortedInv)
<1>1. MonitorInit => AbortedInv
  BY DEF MonitorInit, AbortedInv, DryOnlyByOrder
<1>2. MonitorInv /\ AbortedInv /\ [MonitorNext]_monitorVars => MonitorInv' /\ AbortedInv'
  BY NextMonitorInv, NextAborted
<1> QED BY <1>1, <1>2, InitMonitorInv, PTL DEF MonitorSpec

\* Every variable of ntp_monitor.c's model has its type: the free list is never used
\* beyond its end, for any limits and any chunks, none (`mru incalloc 0') included.
THEOREM MonitorTypeCorrect == MonitorSpec => []MonitorTypeOK
<1>1. MonitorInv /\ AbortedInv => MonitorTypeOK
  BY DEF MonitorInv, AbortedInv, SoundList, MonitorTypeOK
<1> QED BY <1>1, AlwaysAborted, PTL

\* The INSIST of ntp_monitor() fails only while `mru incalloc 0' is configured: with
\* any other limits a new client finds an entry or is turned away.
THEOREM DryIsAlwaysByOrder == MonitorSpec => []DryOnlyByOrder
BY AlwaysAborted, PTL DEF AbortedInv

\* No entry is lost or used twice, whatever the order of calls, and the list keeps
\* within the deepest depth configured and one more chunk of memory.
THEOREM EntriesAreAccounted == MonitorSpec => []AllAccounted
<1>1. MonitorInv => AllAccounted
  <2> SUFFICES ASSUME MonitorInv PROVE AllAccounted
    OBVIOUS
  <2>1. PICK d \in Depths : alloc <= Largest(InitAlloc, Largest(d.min, d.max) - 1 + d.inc)
    BY DEF MonitorInv, AllocBounded
  <2>2. Largest(InitAlloc, Largest(d.min, d.max) - 1 + d.inc) \in Int
    BY DepthType, MonitorBounds DEF Largest
  <2>3. Len(mru) \in Nat /\ free \in Nat /\ alloc = Len(mru) + free
    BY DEF MonitorInv, SoundList
  <2>4. Len(mru) <= Largest(InitAlloc, Largest(d.min, d.max) - 1 + d.inc)
    BY <2>1, <2>2, <2>3
  <2> QED BY <2>3, <2>4 DEF MonitorInv, SoundList, AllAccounted
<1> QED BY <1>1, AlwaysMonitorInv, PTL

\* What ntp_monitor() decides about a client it knows, in a sound state
LEMMA KnownIsJudged ==
  ASSUME MonitorInv, NEW c \in Clients, NEW lit \in Lights, Known(c, lit)
  PROVE  /\ "kod" \in Judge(EntryOf(c), lit).flags /\ ~EntryOf(c).leaped
            => EntryOf(c).kodAge > Headway
         /\ steps = 0 /\ EntryOf(c).age > 4 * Headway /\ EntryOf(c).age >= 2 * MinPkt
            => Judge(EntryOf(c), lit).flags = {}
<1>1. PlaceOf(c) \in 1 .. Len(mru) /\ EntryOf(c) = mru[PlaceOf(c)]
  BY PlaceOfListed DEF Known
<1>2. SoundEntry(EntryOf(c), steps = 0)
  BY <1>1 DEF MonitorInv, SoundList
<1> QED BY <1>2, JudgedEntry

\* KoDs to one client are more than half a headway increment apart, unless the clock
\* was stepped forward between them.
THEOREM KodsAreSpaced == MonitorSpec => KodSpacing
<1>1. MonitorInv =>
        \A c \in Clients, lit \in Lights :
          /\ Known(c, lit)
          /\ "kod" \in Judge(EntryOf(c), lit).flags
          /\ ~EntryOf(c).leaped
          => EntryOf(c).kodAge > Headway
  BY KnownIsJudged
<1> QED BY <1>1, AlwaysMonitorInv, PTL DEF MonitorSpec, KodSpacing

\* Who was quiet for two increments, and for the minimum, is answered.
THEOREM QuietClientIsServed == MonitorSpec => QuietClientServed
<1>1. MonitorInv =>
        \A c \in Clients, lit \in Lights :
          /\ Known(c, lit)
          /\ steps = 0
          /\ EntryOf(c).age > 4 * Headway /\ EntryOf(c).age >= 2 * MinPkt
          => Judge(EntryOf(c), lit).flags = {}
  BY KnownIsJudged
<1> QED BY <1>1, AlwaysMonitorInv, PTL DEF MonitorSpec, QuietClientServed

-----------------------------------------------------------------------------
(* Restrict, for any address space, any configuration and any requests.    *)
(* Each helper of the module takes a whole table to a whole table; the     *)
(* invariant follows action by action.  That a lookup stops somewhere      *)
(* (INSIST(match != NULL)) is proved on the way: the order of the list     *)
(* decides between any two entries of different keys, and a finite set     *)
(* has a first element in it.                                              *)

TableType == [list : SUBSET EntryType, refcnt : Nat, mon : SUBSET {"MON_ON", "MON_RES"}]

Whole(t) ==
    /\ t \in TableType
    /\ IsFiniteSet(t.list)
    /\ \E e \in t.list : KeyOf(e) = DefaultKey /\ e.expire = 0
    /\ \A e, f \in t.list : KeyOf(e) = KeyOf(f) => e = f
    /\ t.refcnt = Cardinality(LimitedEntries(t.list))
    /\ "MON_RES" \in t.mon <=> t.refcnt > 0

IInv ==
    /\ Whole(tbl)
    /\ source \in [enabled : BOOLEAN, mflags : MFLAGS, rflags : SUBSET RES_ALLFLAGS]
    /\ peers \subseteq Hosts /\ ifaces \subseteq Locals
    /\ now \in 0 .. MaxTime

USE RestrictAssumption

-----------------------------------------------------------------------------
\* The key a call makes is a key of the list.
LEMMA KeyType ==
  ASSUME NEW a \in Nat, NEW mask \in 0 .. Space - 1, NEW mflags \in MFLAGS
  PROVE  Key(a, mask, mflags) \in [addr : Int, mask : 0 .. Space - 1, mflags : MFLAGS]
<1>1. Space - mask \in Nat \ {0}
  OBVIOUS
<1>2. Masked(a, mask) \in Int
  BY <1>1 DEF Masked
<1> QED  BY <1>2 DEF Key

LEMMA DefaultIsEntry == Default \in EntryType /\ KeyOf(Default) = DefaultKey /\ ~Limited(Default)
<1>1. 0 % (Space - 0) = 0
  OBVIOUS
<1> QED  BY <1>1 DEF Default, EntryType, KeyOf, DefaultKey, Key, Masked, MFLAGS, Limited

\* What inc_res_limited() and dec_res_limited() do to a table, whatever list it
\* has been given.
LEMMA IncLimited ==
  ASSUME NEW t \in TableType
  PROVE  /\ inc_res_limited(t) \in TableType
         /\ inc_res_limited(t).list = t.list
         /\ inc_res_limited(t).refcnt = t.refcnt + 1
         /\ inc_res_limited(t).mon =
              IF t.refcnt = 0 THEN t.mon \cup {"MON_RES"} ELSE t.mon
<1> DEFINE m == IF t.refcnt = 0 THEN t.mon \cup {"MON_RES"} ELSE t.mon
<1>1. m \in SUBSET {"MON_ON", "MON_RES"} /\ t.refcnt + 1 \in Nat /\ t.list \in SUBSET EntryType
  BY DEF TableType
<1>2. inc_res_limited(t) = [list |-> t.list, refcnt |-> t.refcnt + 1, mon |-> m]
  <2>1. inc_res_limited(t) = [t EXCEPT !.refcnt = t.refcnt + 1, !.mon = m]
    BY DEF inc_res_limited, TableType
  <2>2. t = [list |-> t.list, refcnt |-> t.refcnt, mon |-> t.mon]
    BY DEF TableType
  <2> HIDE DEF m
  <2> QED  BY <2>1, <2>2
<1> HIDE DEF m
<1>3. inc_res_limited(t) \in TableType
  BY <1>1, <1>2 DEF TableType
<1> QED  BY <1>2, <1>3 DEF m

LEMMA DecLimited ==
  ASSUME NEW t \in TableType, t.refcnt # 0
  PROVE  /\ dec_res_limited(t) \in TableType
         /\ dec_res_limited(t).list = t.list
         /\ dec_res_limited(t).refcnt = t.refcnt - 1
         /\ dec_res_limited(t).mon =
              IF t.refcnt = 1 THEN t.mon \ {"MON_RES"} ELSE t.mon
<1> DEFINE m == IF t.refcnt = 1 THEN t.mon \ {"MON_RES"} ELSE t.mon
<1>1. m \in SUBSET {"MON_ON", "MON_RES"} /\ t.refcnt - 1 \in Nat /\ t.list \in SUBSET EntryType
  BY DEF TableType
<1>2. dec_res_limited(t) = [list |-> t.list, refcnt |-> t.refcnt - 1, mon |-> m]
  <2>1. dec_res_limited(t) = [t EXCEPT !.refcnt = t.refcnt - 1, !.mon = m]
    BY DEF dec_res_limited, TableType
  <2>2. t = [list |-> t.list, refcnt |-> t.refcnt, mon |-> t.mon]
    BY DEF TableType
  <2> HIDE DEF m
  <2> QED  BY <2>1, <2>2
<1> HIDE DEF m
<1>3. dec_res_limited(t) \in TableType
  BY <1>1, <1>2 DEF TableType
<1> QED  BY <1>2, <1>3 DEF m

LEMMA NewList ==
  ASSUME NEW t \in TableType, NEW L \in SUBSET EntryType
  PROVE  /\ [t EXCEPT !.list = L] \in TableType
         /\ [t EXCEPT !.list = L].list = L
         /\ [t EXCEPT !.list = L].refcnt = t.refcnt
         /\ [t EXCEPT !.list = L].mon = t.mon
BY DEF TableType

\* Taking an entry off the list; the default entry is never taken, since it
\* does not expire.
LEMMA FreeIsWhole ==
  ASSUME NEW t, Whole(t), NEW e \in t.list, KeyOf(e) # DefaultKey \/ e.expire # 0
  PROVE  Whole(free_res(t, e))
<1> DEFINE u == free_res(t, e)
<1>1. t \in TableType /\ e \in EntryType /\ IsFiniteSet(t.list)
  BY DEF Whole, TableType
<1>2. /\ IsFiniteSet(LimitedEntries(t.list)) /\ LimitedEntries(t.list) \subseteq t.list
      /\ Cardinality(LimitedEntries(t.list)) \in Nat
  BY <1>1, FS_Subset, FS_CardinalityType DEF LimitedEntries
<1>3. u.list = t.list \ {e} /\ IsFiniteSet(u.list)
  BY <1>1, FS_RemoveElement DEF free_res, dec_res_limited, TableType
<1>4. \E d \in u.list : KeyOf(d) = DefaultKey /\ d.expire = 0
  BY <1>3 DEF Whole
<1>5. \A d, f \in u.list : KeyOf(d) = KeyOf(f) => d = f
  BY <1>3 DEF Whole
<1>6. CASE Limited(e)
  <2>1. LimitedEntries(u.list) = LimitedEntries(t.list) \ {e} /\ e \in LimitedEntries(t.list)
    BY <1>3, <1>6 DEF LimitedEntries
  <2>2. Cardinality(LimitedEntries(u.list)) = t.refcnt - 1
    <3>1. Cardinality(LimitedEntries(t.list) \ {e}) = Cardinality(LimitedEntries(t.list)) - 1
      BY <2>1, <1>2, FS_RemoveElement
    <3> QED  BY <2>1, <3>1 DEF Whole
  <2>3. t.refcnt \in Nat /\ t.refcnt # 0
    <3>1. Cardinality(LimitedEntries(u.list)) \in Nat
      BY <2>1, <1>2, FS_RemoveElement, FS_CardinalityType
    <3> QED  BY <3>1, <2>2, <1>1 DEF TableType
  <2>4. /\ u.refcnt = t.refcnt - 1
        /\ u.mon = IF t.refcnt = 1 THEN t.mon \ {"MON_RES"} ELSE t.mon
        /\ u \in TableType
    <3> DEFINE v == dec_res_limited(t)
    <3>1. /\ v \in TableType /\ v.list = t.list /\ v.refcnt = t.refcnt - 1
          /\ v.mon = IF t.refcnt = 1 THEN t.mon \ {"MON_RES"} ELSE t.mon
      BY <1>1, <2>3, DecLimited
    <3>2. u = [v EXCEPT !.list = t.list \ {e}]
      BY <1>6, <3>1 DEF free_res
    <3> HIDE DEF v, u
    <3>3. t.list \ {e} \in SUBSET EntryType
      BY <1>1 DEF TableType
    <3> QED  BY <3>1, <3>2, <3>3, NewList
  <2>5. "MON_RES" \in u.mon <=> u.refcnt > 0
    BY <2>3, <2>4 DEF Whole
  <2> QED  BY <1>3, <1>4, <1>5, <2>2, <2>4, <2>5 DEF Whole
<1>7. CASE ~Limited(e)
  <2>1. LimitedEntries(u.list) = LimitedEntries(t.list)
    BY <1>3, <1>7 DEF LimitedEntries
  <2>2. u.refcnt = t.refcnt /\ u.mon = t.mon /\ u \in TableType
    BY <1>1, <1>7 DEF free_res, TableType
  <2> QED  BY <1>3, <1>4, <1>5, <2>1, <2>2 DEF Whole
<1> QED  BY <1>6, <1>7

\* A new entry of a key that is not there.
LEMMA AddIsWhole ==
  ASSUME NEW t, Whole(t), NEW e \in EntryType, ~Present(t, KeyOf(e))
  PROVE  Whole(AddEntry(t, e))
<1> DEFINE u == AddEntry(t, e)
<1>1. t \in TableType /\ IsFiniteSet(t.list)
  BY DEF Whole
<1>2. /\ IsFiniteSet(LimitedEntries(t.list)) /\ LimitedEntries(t.list) \subseteq t.list
      /\ Cardinality(LimitedEntries(t.list)) \in Nat
  BY <1>1, FS_Subset, FS_CardinalityType DEF LimitedEntries
<1>3. u.list = t.list \cup {e} /\ IsFiniteSet(u.list) /\ e \notin t.list
  BY <1>1, FS_AddElement DEF AddEntry, inc_res_limited, TableType, Present
<1>4. \E d \in u.list : KeyOf(d) = DefaultKey /\ d.expire = 0
  BY <1>3 DEF Whole
<1>5. \A d, f \in u.list : KeyOf(d) = KeyOf(f) => d = f
  BY <1>3 DEF Whole, Present
<1>6. CASE Limited(e)
  <2>1. LimitedEntries(u.list) = LimitedEntries(t.list) \cup {e} /\ e \notin LimitedEntries(t.list)
    BY <1>2, <1>3, <1>6 DEF LimitedEntries
  <2>2. Cardinality(LimitedEntries(u.list)) = t.refcnt + 1
    <3>1. Cardinality(LimitedEntries(t.list) \cup {e}) = Cardinality(LimitedEntries(t.list)) + 1
      BY <2>1, <1>2, FS_AddElement
    <3> QED  BY <2>1, <3>1 DEF Whole
  <2>3. /\ u.refcnt = t.refcnt + 1
        /\ u.mon = IF t.refcnt = 0 THEN t.mon \cup {"MON_RES"} ELSE t.mon
        /\ u \in TableType
    <3> DEFINE v == inc_res_limited(t)
    <3>1. /\ v \in TableType /\ v.list = t.list /\ v.refcnt = t.refcnt + 1
          /\ v.mon = IF t.refcnt = 0 THEN t.mon \cup {"MON_RES"} ELSE t.mon
      BY <1>1, IncLimited
    <3>2. u = [v EXCEPT !.list = t.list \cup {e}]
      BY <1>6, <3>1 DEF AddEntry
    <3> HIDE DEF v, u
    <3>3. t.list \cup {e} \in SUBSET EntryType
      BY <1>1 DEF TableType
    <3> QED  BY <3>1, <3>2, <3>3, NewList
  <2>4. "MON_RES" \in u.mon <=> u.refcnt > 0
    BY <1>1, <2>3 DEF Whole, TableType
  <2> QED  BY <1>3, <1>4, <1>5, <2>2, <2>3, <2>4 DEF Whole
<1>7. CASE ~Limited(e)
  <2>1. LimitedEntries(u.list) = LimitedEntries(t.list)
    BY <1>3, <1>7 DEF LimitedEntries
  <2>2. u.refcnt = t.refcnt /\ u.mon = t.mon /\ u \in TableType
    BY <1>1, <1>7 DEF AddEntry, TableType
  <2> QED  BY <1>3, <1>4, <1>5, <2>1, <2>2 DEF Whole
<1> QED  BY <1>6, <1>7

\* Other flags for an entry that is there.
LEMMA ReplaceIsWhole ==
  ASSUME NEW t, Whole(t), NEW old \in t.list, NEW new \in EntryType,
         KeyOf(new) = KeyOf(old), new.expire = old.expire
  PROVE  Whole(ReplaceEntry(t, old, new))
<1> DEFINE L == (t.list \ {old}) \cup {new}
           t1 == [t EXCEPT !.list = L]
           u == ReplaceEntry(t, old, new)
<1>1. t \in TableType /\ IsFiniteSet(t.list) /\ old \in EntryType /\ t.refcnt \in Nat
  BY DEF Whole, TableType
<1>2. /\ IsFiniteSet(LimitedEntries(t.list)) /\ LimitedEntries(t.list) \subseteq t.list
      /\ Cardinality(LimitedEntries(t.list)) \in Nat
      /\ t.refcnt = Cardinality(LimitedEntries(t.list))
  BY <1>1, FS_Subset, FS_CardinalityType DEF LimitedEntries, Whole
<1>3. new \in t.list => new = old
  BY DEF Whole
<1>4. u.list = L /\ IsFiniteSet(L) /\ L \subseteq EntryType
  BY <1>1, FS_RemoveElement, FS_AddElement
  DEF ReplaceEntry, inc_res_limited, dec_res_limited, TableType
<1>5. \E d \in L : KeyOf(d) = DefaultKey /\ d.expire = 0
  BY DEF Whole
<1>6. \A d, f \in L : KeyOf(d) = KeyOf(f) => d = f
  BY DEF Whole
<1>7. CASE Limited(new) /\ ~Limited(old)
  <2>1. LimitedEntries(L) = LimitedEntries(t.list) \cup {new} /\ new \notin LimitedEntries(t.list)
    BY <1>2, <1>3, <1>7 DEF LimitedEntries
  <2>2. Cardinality(LimitedEntries(L)) = t.refcnt + 1
    <3>1. Cardinality(LimitedEntries(t.list) \cup {new}) = Cardinality(LimitedEntries(t.list)) + 1
      BY <2>1, <1>2, FS_AddElement
    <3> QED  BY <2>1, <1>2, <3>1
  <2>3. u = inc_res_limited(t1)
    BY <1>7 DEF ReplaceEntry
  <2>4. /\ u.refcnt = t.refcnt + 1
        /\ u.mon = IF t.refcnt = 0 THEN t.mon \cup {"MON_RES"} ELSE t.mon
        /\ u \in TableType
    <3>1. t1 \in TableType /\ t1.refcnt = t.refcnt /\ t1.mon = t.mon
      BY <1>1, <1>4, NewList
    <3> QED  BY <3>1, <2>3, IncLimited
  <2>5. "MON_RES" \in u.mon <=> u.refcnt > 0
    BY <1>1, <2>4 DEF Whole
  <2> QED  BY <1>4, <1>5, <1>6, <2>2, <2>4, <2>5 DEF Whole
<1>8. CASE Limited(old) /\ ~Limited(new)
  <2>1. LimitedEntries(L) = LimitedEntries(t.list) \ {old} /\ old \in LimitedEntries(t.list)
    BY <1>2, <1>8 DEF LimitedEntries
  <2>2. Cardinality(LimitedEntries(L)) = t.refcnt - 1 /\ Cardinality(LimitedEntries(L)) \in Nat
    <3>1. /\ IsFiniteSet(LimitedEntries(t.list) \ {old})
          /\ Cardinality(LimitedEntries(t.list) \ {old}) = Cardinality(LimitedEntries(t.list)) - 1
      BY <2>1, <1>2, FS_RemoveElement
    <3>2. Cardinality(LimitedEntries(t.list) \ {old}) \in Nat
      BY <3>1, FS_CardinalityType
    <3> QED  BY <2>1, <3>1, <3>2, <1>2
  <2>3. u = dec_res_limited(t1)
    BY <1>8 DEF ReplaceEntry
  <2>4. /\ u.refcnt = t.refcnt - 1 /\ t.refcnt # 0
        /\ u.mon = IF t.refcnt = 1 THEN t.mon \ {"MON_RES"} ELSE t.mon
        /\ u \in TableType
    <3>1. t1 \in TableType /\ t1.refcnt = t.refcnt /\ t1.mon = t.mon
      BY <1>1, <1>4, NewList
    <3>2. t.refcnt # 0
      BY <1>1, <2>2
    <3> QED  BY <3>1, <3>2, <2>3, DecLimited
  <2>5. "MON_RES" \in u.mon <=> u.refcnt > 0
    BY <1>1, <2>4 DEF Whole
  <2> QED  BY <1>4, <1>5, <1>6, <2>2, <2>4, <2>5 DEF Whole
<1>9. CASE Limited(old) <=> Limited(new)
  <2>1. u = t1
    BY <1>9 DEF ReplaceEntry
  <2>2. u.refcnt = t.refcnt /\ u.mon = t.mon /\ u \in TableType
    BY <1>1, <1>4, <2>1 DEF TableType
  <2>3. Cardinality(LimitedEntries(L)) = t.refcnt
    <3>1. CASE ~Limited(new)
      <4>1. LimitedEntries(L) = LimitedEntries(t.list)
        BY <3>1, <1>9 DEF LimitedEntries
      <4> QED  BY <4>1, <1>2
    <3>2. CASE Limited(new)
      <4>1. /\ LimitedEntries(L) = (LimitedEntries(t.list) \ {old}) \cup {new}
            /\ old \in LimitedEntries(t.list)
            /\ new \notin LimitedEntries(t.list) \ {old}
        BY <3>2, <1>2, <1>3, <1>9 DEF LimitedEntries
      <4>2. /\ IsFiniteSet(LimitedEntries(t.list) \ {old})
            /\ Cardinality(LimitedEntries(t.list) \ {old}) = t.refcnt - 1
        BY <4>1, <1>2, FS_RemoveElement
      <4>3. Cardinality(LimitedEntries(L)) = t.refcnt - 1 + 1
        BY <4>1, <4>2, FS_AddElement
      <4> QED  BY <4>3, <1>1
    <3> QED  BY <3>1, <3>2
  <2> QED  BY <1>4, <1>5, <1>6, <2>2, <2>3 DEF Whole
<1> QED  BY <1>7, <1>8, <1>9

-----------------------------------------------------------------------------
\* Among any entries of the list one comes first.
LEMMA FirstExists ==
  ASSUME NEW es \in SUBSET EntryType, IsFiniteSet(es),
         \A e, f \in es : KeyOf(e) = KeyOf(f) => e = f,
         NEW S \in SUBSET es, S # {}
  PROVE  \E e \in S : \A f \in S \ {e} : SortsBefore(e, f)
<1> DEFINE D(x) == {f \in S : SortsBefore(f, x)}
           F == {D(x) : x \in S}
<1>1. IsFiniteSet(S)
  BY FS_Subset
<1>2. F \subseteq FiniteSubsetsOf(S) /\ F # {}
  <2>1. ASSUME NEW T \in SUBSET S  PROVE IsFiniteSet(T)
    BY <1>1, FS_Subset
  <2>2. F \subseteq SUBSET S /\ F # {}
    <3>1. \A x \in S : D(x) \in SUBSET S
      OBVIOUS
    <3> HIDE DEF D
    <3> QED  BY <3>1
  <2> HIDE DEF F
  <2> QED  BY <2>1, <2>2 DEF FiniteSubsetsOf
<1>3. PICK T \in F : \A U \in F : ~(<<U, T>> \in StrictSubsetOrdering(S))
  <2> HIDE DEF F
  <2> QED  BY <1>2, FS_StrictSubsetOrderingWellFounded, WFMin
<1>4. PICK e \in S : T = D(e)
  BY <1>3
<1>5. D(e) = {}
  <2> SUFFICES ASSUME NEW f \in S, SortsBefore(f, e)  PROVE FALSE
    OBVIOUS
  <2>1. \A g \in S : SortsBefore(g, f) => SortsBefore(g, e)
    BY DEF SortsBefore, EntryType, MFLAGS
  <2>2. ~SortsBefore(f, f)
    BY DEF SortsBefore, EntryType, MFLAGS
  <2>3. D(f) \subseteq D(e) /\ f \in D(e) /\ f \notin D(f)
    BY <2>1, <2>2
  <2>4. <<D(f), D(e)>> \in StrictSubsetOrdering(S)
    BY <2>3 DEF StrictSubsetOrdering
  <2> QED  BY <2>4, <1>3, <1>4
<1>6. ASSUME NEW f \in S \ {e}  PROVE SortsBefore(e, f)
  <2>1. KeyOf(e) # KeyOf(f) /\ ~SortsBefore(f, e) /\ e \in EntryType /\ f \in EntryType
    BY <1>5
  <2>2. e.addr # f.addr \/ e.mask # f.mask \/ e.mflags # f.mflags
    BY <2>1 DEF KeyOf
  <2> QED  BY <2>1, <2>2 DEF SortsBefore, EntryType, MFLAGS
<1> QED  BY <1>6

\* A lookup of a whole list stops at an entry of it.
LEMMA LookupStops ==
  ASSUME NEW t, Whole(t), NEW a \in 0 .. Space - 1, NEW port
  PROVE  LET e == StopsAt(t.list, a, port) IN
         /\ e \in t.list
         /\ Expired(e) \/ Matches(e, a, port)
         /\ \A f \in t.list \ {e} : Expired(f) \/ Matches(f, a, port) => SortsBefore(e, f)
<1> DEFINE S == {e \in t.list : Expired(e) \/ Matches(e, a, port)}
<1>1. t.list \in SUBSET EntryType /\ IsFiniteSet(t.list)
  BY DEF Whole, TableType
<1>2. PICK d \in t.list : KeyOf(d) = DefaultKey
  BY DEF Whole
<1>3. d.addr = 0 /\ d.mask = 0 /\ d.mflags = 0
  <2>1. 0 - (0 % (Space - 0)) = 0
    OBVIOUS
  <2>2. DefaultKey = [addr |-> 0, mask |-> 0, mflags |-> 0]
    BY <2>1 DEF DefaultKey, Key, Masked
  <2> QED  BY <1>2, <2>2 DEF KeyOf
<1>4. Matches(d, a, port)
  <2>1. ~NtpOnly(0)
    BY DEF NtpOnly, NTPONLY
  <2>2. a % (Space - 0) = a
    OBVIOUS
  <2> QED  BY <1>3, <2>1, <2>2 DEF Matches, Masked
<1>5. \E e \in S : \A f \in S \ {e} : SortsBefore(e, f)
  <2>1. S \in SUBSET t.list /\ S # {}
    BY <1>4
  <2>2. \A e, f \in t.list : KeyOf(e) = KeyOf(f) => e = f
    BY DEF Whole
  <2> HIDE DEF S
  <2> QED  BY <1>1, <2>1, <2>2, FirstExists
<1>6. \E e \in t.list :
        /\ Expired(e) \/ Matches(e, a, port)
        /\ \A f \in t.list \ {e} : Expired(f) \/ Matches(f, a, port) => SortsBefore(e, f)
  BY <1>5
<1> QED  BY <1>6 DEF StopsAt

-----------------------------------------------------------------------------
\* restrictions(): what is found is an entry of the list that is left, or the
\* cleared contents of the one that was freed.
LEMMA MatchIsWhole ==
  ASSUME NEW t, Whole(t), NEW a \in 0 .. Space - 1, NEW port
  PROVE  LET m == match_restrict(t, a, port) IN
         /\ Whole(m.table)
         /\ m.found = Default \/ m.found \in m.table.list
<1> DEFINE e == StopsAt(t.list, a, port)
<1>1. e \in t.list
  BY LookupStops
<1>2. Expired(e) => Whole(free_res(t, e))
  BY <1>1, FreeIsWhole DEF Expired
<1> HIDE DEF e
<1> QED  BY <1>1, <1>2 DEF match_restrict, e

\* hack_restrict() with RESTRICT_FLAGS, with RESTRICT_UNFLAG, and to remove.
KeySet == [addr : Int, mask : 0 .. Space - 1, mflags : MFLAGS]

LEMMA EntryOfKey ==
  ASSUME NEW t, Whole(t), NEW key, Present(t, key)
  PROVE  Entry(t, key) \in t.list /\ KeyOf(Entry(t, key)) = key
BY DEF Present, Entry

LEMMA AddFlagsIsWhole ==
  ASSUME NEW t, Whole(t), NEW key \in KeySet, NEW fl \in SUBSET RES_ALLFLAGS,
         NEW expire \in Nat
  PROVE  Whole(AddFlags(t, key, fl, expire))
<1>1. CASE Present(t, key)
  <2> DEFINE e == Entry(t, key)
             n == [e EXCEPT !.rflags = e.rflags \cup fl]
  <2>1. e \in t.list /\ e \in EntryType
    BY <1>1, EntryOfKey DEF Whole, TableType
  <2>2. n \in EntryType /\ KeyOf(n) = KeyOf(e) /\ n.expire = e.expire
    BY <2>1 DEF EntryType, KeyOf
  <2>3. Whole(ReplaceEntry(t, e, n))
    BY <2>1, <2>2, ReplaceIsWhole
  <2> QED  BY <1>1, <2>3 DEF AddFlags
<1>2. CASE ~Present(t, key)
  <2> DEFINE n == NewEntry(key, fl, expire)
  <2>1. n \in EntryType /\ KeyOf(n) = key
    BY DEF NewEntry, EntryType, KeyOf, KeySet
  <2>2. Whole(AddEntry(t, n))
    BY <1>2, <2>1, AddIsWhole
  <2> QED  BY <1>2, <2>2 DEF AddFlags
<1> QED  BY <1>1, <1>2

LEMMA SubFlagsIsWhole ==
  ASSUME NEW t, Whole(t), NEW key \in KeySet, NEW fl \in SUBSET RES_ALLFLAGS
  PROVE  Whole(SubFlags(t, key, fl))
<1>1. CASE Present(t, key)
  <2> DEFINE e == Entry(t, key)
             n == [e EXCEPT !.rflags = e.rflags \ fl]
  <2>1. e \in t.list /\ e \in EntryType
    BY <1>1, EntryOfKey DEF Whole, TableType
  <2>2. n \in EntryType /\ KeyOf(n) = KeyOf(e) /\ n.expire = e.expire
    BY <2>1 DEF EntryType, KeyOf
  <2>3. Whole(ReplaceEntry(t, e, n))
    BY <2>1, <2>2, ReplaceIsWhole
  <2> QED  BY <1>1, <2>3 DEF SubFlags
<1> QED  BY <1>1 DEF SubFlags

LEMMA RemoveIsWhole ==
  ASSUME NEW t, Whole(t), NEW key, NEW removeif
  PROVE  Whole(Remove(t, key, removeif))
<1>1. CASE Present(t, key) /\ key # DefaultKey
  <2>1. Whole(free_res(t, Entry(t, key)))
    BY <1>1, EntryOfKey, FreeIsWhole
  <2> QED  BY <2>1 DEF Remove
<1> QED  BY <1>1 DEF Remove

\* restrict_source() to add: at most two entries go and one comes.
LEMMA SourceAddIsWhole ==
  ASSUME IInv, NEW t, Whole(t), NEW a \in 0 .. Space - 1, NEW expire \in Nat
  PROVE  Whole(source_add(t, a, expire))
<1> DEFINE m == match_restrict(t, a, NTP_PORT)
           specific == m.found.mask = HostMask
           fleeting == expire = 0 /\ specific /\ m.found.expire # 0
           t1 == IF fleeting THEN free_res(m.table, m.found) ELSE m.table
<1>1. Whole(m.table) /\ (m.found = Default \/ m.found \in m.table.list)
  BY MatchIsWhole
<1>2. Whole(t1)
  <2>1. fleeting => m.found \in m.table.list
    BY <1>1 DEF Default
  <2>2. fleeting => Whole(free_res(m.table, m.found))
    <3> HIDE DEF m
    <3> QED  BY <1>1, <2>1, FreeIsWhole
  <2> HIDE DEF m
  <2> QED  BY <1>1, <2>2
<1>3. Key(a, HostMask, source.mflags) \in KeySet /\ source.rflags \in SUBSET RES_ALLFLAGS
  <2>1. HostMask \in 0 .. Space - 1 /\ a \in Nat /\ source.mflags \in MFLAGS
    BY DEF HostMask, IInv
  <2> QED  BY <2>1, KeyType DEF KeySet, IInv
<1>4. Whole(AddFlags(t1, Key(a, HostMask, source.mflags), source.rflags, expire))
  <2> HIDE DEF t1
  <2> QED  BY <1>2, <1>3, AddFlagsIsWhole
<1> HIDE DEF t1, fleeting, specific, m
<1> QED  BY <1>2, <1>4 DEF source_add, t1, fleeting, specific, m

-----------------------------------------------------------------------------
LEMMA EmptyIsWhole == Whole(EmptyTable)
<1>1. /\ IsFiniteSet({Default}) /\ LimitedEntries({Default}) = {}
      /\ Cardinality(LimitedEntries({Default})) = 0
  BY DefaultIsEntry, FS_Singleton, FS_EmptySet DEF LimitedEntries
<1>2. EmptyTable \in TableType
  BY DefaultIsEntry DEF EmptyTable, TableType
<1>3. Default.expire = 0 /\ KeyOf(Default) = DefaultKey
  BY DefaultIsEntry DEF Default
<1>4. EmptyTable.list = {Default} /\ EmptyTable.refcnt = 0 /\ "MON_RES" \notin EmptyTable.mon
  BY DEF EmptyTable
<1> QED  BY <1>1, <1>2, <1>3, <1>4 DEF Whole

LEMMA InitIInv == Init => IInv
BY EmptyIsWhole DEF Init, IInv, NoSource, MFLAGS

LEMMA NextIInv == IInv /\ [Next]_vars => IInv'
<1> SUFFICES ASSUME IInv, [Next]_vars  PROVE IInv'
  OBVIOUS
<1> USE DEF IInv
<1>1. ASSUME NEW r \in Rules, Configure(r)  PROVE IInv'
  <2>1. Key(r.addr, r.mask, r.mflags) \in KeySet
    BY KeyType DEF KeySet
  <2>2. Whole(AddFlags(tbl, Key(r.addr, r.mask, r.mflags), r.rflags, 0))
    BY <2>1, AddFlagsIsWhole
  <2> QED  BY <2>2, <1>1 DEF Configure
<1>2. ASSUME NEW s \in SourceRules, ConfigureSource(s)  PROVE IInv'
  BY <1>2 DEF ConfigureSource
<1>3. ASSUME NEW on \in BOOLEAN, ConfigureMonitor(on)  PROVE IInv'
  <2>1. /\ tbl'.list = tbl.list /\ tbl'.refcnt = tbl.refcnt
        /\ tbl' \in TableType
        /\ "MON_RES" \in tbl'.mon <=> "MON_RES" \in tbl.mon
    <3> DEFINE m == IF on THEN tbl.mon \cup {"MON_ON"} ELSE tbl.mon \ {"MON_ON"}
    <3>1. tbl' = [tbl EXCEPT !.mon = m]
      BY <1>3 DEF ConfigureMonitor
    <3>2. m \in SUBSET {"MON_ON", "MON_RES"} /\ ("MON_RES" \in m <=> "MON_RES" \in tbl.mon)
      BY DEF Whole, TableType
    <3> HIDE DEF m
    <3> QED  BY <3>1, <3>2 DEF Whole, TableType
  <2>2. Whole(tbl')
    BY <2>1 DEF Whole
  <2> QED  BY <2>2, <1>3 DEF ConfigureMonitor
<1>4. ASSUME NEW q \in Requests, Request(q)  PROVE IInv'
  <2> DEFINE key == Key(q.addr, q.mask, q.ippeerlimit)
  <2>1. key \in KeySet
    BY KeyType DEF KeySet
  <2>2. /\ Whole(AddFlags(tbl, key, q.rflags, 0))
        /\ Whole(SubFlags(tbl, key, q.rflags))
        /\ Whole(Remove(tbl, key, FALSE))
    <3> HIDE DEF key
    <3> QED  BY <2>1, AddFlagsIsWhole, SubFlagsIsWhole, RemoveIsWhole
  <2> HIDE DEF key
  <2>3. /\ q.op = "flags" => tbl' = AddFlags(tbl, key, q.rflags, 0)
        /\ q.op = "unflag" => tbl' = SubFlags(tbl, key, q.rflags)
        /\ q.op = "remove" => tbl' = Remove(tbl, key, FALSE)
    BY <1>4 DEF Request, key
  <2>4. q.op \in {"flags", "unflag", "remove"}
    OBVIOUS
  <2> QED  BY <2>2, <2>3, <2>4, <1>4 DEF Request
<1>5. ASSUME NEW a \in Locals, InterfaceUp(a) \/ InterfaceDown(a)  PROVE IInv'
  <2> DEFINE key == Key(a, HostMask, NTPONLY + INTERFACE)
  <2>1. key \in KeySet
    <3>1. HostMask \in 0 .. Space - 1 /\ a \in Nat /\ NTPONLY + INTERFACE \in MFLAGS
      BY DEF HostMask, NTPONLY, INTERFACE, MFLAGS
    <3> QED  BY <3>1, KeyType DEF KeySet
  <2>2. Whole(AddFlags(tbl, key, {"ignore"}, 0)) /\ Whole(Remove(tbl, key, TRUE))
    <3>1. {"ignore"} \in SUBSET RES_ALLFLAGS
      BY DEF RES_ALLFLAGS, RES_FLAGS
    <3> HIDE DEF key
    <3> QED  BY <2>1, <3>1, AddFlagsIsWhole, RemoveIsWhole
  <2> HIDE DEF key
  <2> QED  BY <2>2, <1>5 DEF InterfaceUp, InterfaceDown, key
<1>6. ASSUME NEW a \in Hosts, Solicit(a)  PROVE IInv'
  <2> DEFINE m == match_restrict(tbl, a, NTP_PORT)
  <2>1. Whole(m.table)
    BY MatchIsWhole
  <2>2. Whole(source_add(m.table, a, now + Window))
    <3> HIDE DEF m
    <3>1. now + Window \in Nat /\ a \in 0 .. Space - 1
      OBVIOUS
    <3> QED  BY <2>1, <3>1, SourceAddIsWhole
  <2> HIDE DEF m
  <2> QED  BY <2>1, <2>2, <1>6 DEF Solicit, m
<1>7. ASSUME NEW a \in Hosts, NewPeer(a)  PROVE IInv'
  <2>1. Whole(source_add(tbl, a, 0))
    BY SourceAddIsWhole
  <2> QED  BY <2>1, <1>7 DEF NewPeer
<1>8. ASSUME NEW a \in Hosts, Unpeer(a)  PROVE IInv'
  <2>1. Whole(source_remove(tbl, a))
    BY RemoveIsWhole DEF source_remove
  <2> QED  BY <2>1, <1>8 DEF Unpeer
<1>9. ASSUME NEW a \in Hosts \cup Locals, NEW port, Receive(a, port)  PROVE IInv'
  <2>1. Whole(match_restrict(tbl, a, port).table)
    BY MatchIsWhole
  <2> QED  BY <2>1, <1>9 DEF Receive
<1>10. ASSUME Second  PROVE IInv'
  BY <1>10 DEF Second
<1>11. ASSUME Restart  PROVE IInv'
  BY <1>11, EmptyIsWhole DEF Restart, NoSource, MFLAGS
<1>12. CASE UNCHANGED vars
  BY <1>12 DEF vars
<1> QED
  BY <1>1, <1>2, <1>3, <1>4, <1>5, <1>6, <1>7, <1>8, <1>9, <1>10, <1>11, <1>12 DEF Next

\* The invariant holds for every address space, configuration and request.
LEMMA Invariance == Spec => []IInv
BY InitIInv, NextIInv, PTL DEF Spec

\* The types of the table, the source rule, the associations, the interfaces.
THEOREM TypeCorrect == Spec => []TypeOK
<1>1. IInv => TypeOK
  BY DEF IInv, Whole, TableType, TypeOK
<1> QED  BY <1>1, Invariance, PTL

\* The default entry is always listed and never expires, and no two entries
\* have the same key (ntp_restrict.c:575).
THEOREM ListStaysWhole == Spec => []ListIsWhole
<1>1. IInv => ListIsWhole
  BY DEF IInv, Whole, ListIsWhole
<1> QED  BY <1>1, Invariance, PTL

\* res_limited_refcnt is the number of listed entries that limit rates
\* (ntp_restrict.c:365-380).
THEOREM CountIsExact == Spec => []CountIsLimited
<1>1. IInv => CountIsLimited
  BY DEF IInv, Whole, CountIsLimited
<1> QED  BY <1>1, Invariance, PTL

\* MON_RES is on exactly while some entry limits rates, and they are counted.
THEOREM MonitoringFollowsTheList == Spec => []MonitoringOnDemand
<1>1. IInv => MonitoringOnDemand
  <2> SUFFICES ASSUME IInv  PROVE MonitoringOnDemand
    OBVIOUS
  <2>1. IsFiniteSet(LimitedEntries(tbl.list))
    BY FS_Subset DEF IInv, Whole, LimitedEntries
  <2>2. tbl.refcnt = 0 <=> LimitedEntries(tbl.list) = {}
    BY <2>1, FS_EmptySet DEF IInv, Whole
  <2>3. tbl.refcnt \in Nat
    BY DEF IInv, Whole, TableType
  <2>4. CountIsLimited
    BY DEF IInv, Whole, CountIsLimited
  <2> QED  BY <2>2, <2>3, <2>4 DEF IInv, Whole, LimitedEntries, MonitoringOnDemand
<1> QED  BY <1>1, Invariance, PTL
-----------------------------------------------------------------------------
(* The most specific entry first                                            *)

Masks == {0, HostMask} \cup {r.mask : r \in Rules \cup Requests}

\* What a longer mask leaves out of an address is no more than what a shorter
\* one leaves out.
LEMMA RemainderNests ==
  ASSUME NEW a \in Nat, NEW j \in Nat \ {0}, NEW k \in Nat \ {0}, j % k = 0
  PROVE  a % k <= a % j
<1> DEFINE c == j \div k
           p == a \div j
           q == a \div k
<1>1. c \in Int /\ j = k * c + (j % k)
  OBVIOUS
<1>2. p \in Int /\ a = j * p + (a % j) /\ a % j \in 0 .. j - 1
  OBVIOUS
<1>3. q \in Int /\ a = k * q + (a % k) /\ a % k \in 0 .. k - 1
  OBVIOUS
<1> DEFINE r == a % j
           s == a % k
<1>4. r \in Int /\ s \in Int /\ 0 <= r /\ 0 <= s /\ s < k
  BY <1>2, <1>3
<1>5. j = k * c /\ a = j * p + r /\ a = k * q + s
  BY <1>1, <1>2, <1>3
<1> HIDE DEF c, p, q, r, s
<1>6. SUFFICES ASSUME r < s  PROVE FALSE
  BY <1>4 DEF r, s
<1>7. r - s = k * (q - c * p)
  <2>1. j * p = k * (c * p)
    BY <1>1, <1>2, <1>5
  <2>2. k * (q - c * p) = k * q - k * (c * p)
    BY <1>1, <1>2, <1>3
  <2>3. r = a - j * p /\ s = a - k * q
    BY <1>4, <1>5, <1>1, <1>2, <1>3
  <2> QED  BY <2>1, <2>2, <2>3, <1>1, <1>2, <1>3, <1>4
<1> DEFINE d == q - c * p
<1>8. d \in Int /\ k * d = r - s
  BY <1>7, <1>1, <1>2, <1>3
<1> HIDE DEF d
<1>9. CASE d >= 0
  <2>1. k * d >= 0
    BY <1>9, <1>8
  <2> QED  BY <2>1, <1>8, <1>6, <1>4
<1>10. CASE d <= -1
  <2>1. k * d <= -k
    BY <1>10, <1>8
  <2> QED  BY <2>1, <1>8, <1>4
<1> QED  BY <1>8, <1>9, <1>10

\* Of two entries that match an address, the one with the longer mask has the
\* higher address, or the same.
LEMMA LongerMaskFirst ==
  ASSUME NEW a \in 0 .. Space - 1, NEW m \in Masks, NEW n \in Masks, m <= n
  PROVE  Masked(a, m) <= Masked(a, n)
<1>1. m \in 0 .. Space - 1 /\ n \in 0 .. Space - 1
  BY DEF Masks, HostMask
<1>2. Space - m \in Nat \ {0} /\ Space - n \in Nat \ {0}
  BY <1>1
<1>3. (Space - m) % (Space - n) = 0
  BY ContiguousMasks DEF Masks
<1>4. a % (Space - n) <= a % (Space - m)
  BY <1>2, <1>3, RemainderNests
<1>5. a % (Space - n) \in Int /\ a % (Space - m) \in Int
  BY <1>2
<1> QED  BY <1>4, <1>5 DEF Masked

\* Every entry of u has the key of one of t, or the key given.
KeysFrom(t, u, key) ==
  \A e \in u.list : KeyOf(e) = key \/ \E f \in t.list : KeyOf(e) = KeyOf(f)

\* What does not expire in t has an entry in u that does not expire.
Keeps(t, u) ==
  \A e \in t.list : e.expire = 0 => \E f \in u.list : KeyOf(f) = KeyOf(e) /\ f.expire = 0

LEMMA FreedList ==
  ASSUME NEW t, Whole(t), NEW e
  PROVE  free_res(t, e).list = t.list \ {e}
BY DEF free_res, dec_res_limited, Whole, TableType

LEMMA FreeKeys ==
  ASSUME NEW t, Whole(t), NEW e \in t.list, NEW key
  PROVE  /\ KeysFrom(t, free_res(t, e), key)
         /\ e.expire # 0 => Keeps(t, free_res(t, e))
BY FreedList DEF KeysFrom, Keeps

LEMMA AddFlagsKeys ==
  ASSUME NEW t, Whole(t), NEW key \in KeySet, NEW fl \in SUBSET RES_ALLFLAGS,
         NEW expire \in Nat
  PROVE  /\ KeysFrom(t, AddFlags(t, key, fl, expire), key)
         /\ Keeps(t, AddFlags(t, key, fl, expire))
<1>1. CASE Present(t, key)
  <2> DEFINE e == Entry(t, key)
             n == [e EXCEPT !.rflags = e.rflags \cup fl]
             u == ReplaceEntry(t, e, n)
  <2>1. e \in t.list /\ e \in EntryType
    BY <1>1, EntryOfKey DEF Whole, TableType
  <2>2. KeyOf(n) = KeyOf(e) /\ n.expire = e.expire
    BY <2>1 DEF EntryType, KeyOf
  <2>3. u.list = (t.list \ {e}) \cup {n}
    BY DEF ReplaceEntry, inc_res_limited, dec_res_limited, Whole, TableType
  <2>4. AddFlags(t, key, fl, expire) = u
    BY <1>1 DEF AddFlags
  <2> HIDE DEF e, n, u
  <2> QED  BY <2>1, <2>2, <2>3, <2>4 DEF KeysFrom, Keeps
<1>2. CASE ~Present(t, key)
  <2> DEFINE n == NewEntry(key, fl, expire)
             u == AddEntry(t, n)
  <2>1. KeyOf(n) = key
    BY DEF NewEntry, KeyOf, KeySet
  <2>2. u.list = t.list \cup {n}
    BY DEF AddEntry, inc_res_limited, Whole, TableType
  <2>3. AddFlags(t, key, fl, expire) = u
    BY <1>2 DEF AddFlags
  <2> HIDE DEF n, u
  <2> QED  BY <2>1, <2>2, <2>3 DEF KeysFrom, Keeps
<1> QED  BY <1>1, <1>2

LEMMA SubFlagsKeys ==
  ASSUME NEW t, Whole(t), NEW key \in KeySet, NEW fl \in SUBSET RES_ALLFLAGS
  PROVE  /\ KeysFrom(t, SubFlags(t, key, fl), key)
         /\ Keeps(t, SubFlags(t, key, fl))
<1>1. CASE Present(t, key)
  <2> DEFINE e == Entry(t, key)
             n == [e EXCEPT !.rflags = e.rflags \ fl]
             u == ReplaceEntry(t, e, n)
  <2>1. e \in t.list /\ e \in EntryType
    BY <1>1, EntryOfKey DEF Whole, TableType
  <2>2. KeyOf(n) = KeyOf(e) /\ n.expire = e.expire
    BY <2>1 DEF EntryType, KeyOf
  <2>3. u.list = (t.list \ {e}) \cup {n}
    BY DEF ReplaceEntry, inc_res_limited, dec_res_limited, Whole, TableType
  <2>4. SubFlags(t, key, fl) = u
    BY <1>1 DEF SubFlags
  <2> HIDE DEF e, n, u
  <2> QED  BY <2>1, <2>2, <2>3, <2>4 DEF KeysFrom, Keeps
<1>2. CASE ~Present(t, key)
  BY <1>2 DEF SubFlags, KeysFrom, Keeps
<1> QED  BY <1>1, <1>2

LEMMA RemoveKeys ==
  ASSUME NEW t, Whole(t), NEW key, NEW removeif
  PROVE  KeysFrom(t, Remove(t, key, removeif), key)
<1>1. CASE Present(t, key)
  <2>1. KeysFrom(t, free_res(t, Entry(t, key)), key)
    BY <1>1, EntryOfKey, FreeKeys
  <2> QED  BY <2>1 DEF Remove, KeysFrom
<1>2. CASE ~Present(t, key)
  BY <1>2 DEF Remove, KeysFrom
<1> QED  BY <1>1, <1>2

LEMMA MatchKeys ==
  ASSUME NEW t, Whole(t), NEW a \in 0 .. Space - 1, NEW port, NEW key
  PROVE  /\ KeysFrom(t, match_restrict(t, a, port).table, key)
         /\ Keeps(t, match_restrict(t, a, port).table)
<1> DEFINE e == StopsAt(t.list, a, port)
<1>1. e \in t.list
  BY LookupStops
<1> HIDE DEF e
<1>2. CASE Expired(e)
  BY <1>1, <1>2, FreeKeys DEF match_restrict, Expired, e
<1>3. CASE ~Expired(e)
  <2>1. match_restrict(t, a, port).table = t
    BY <1>3 DEF match_restrict, e
  <2> QED  BY <2>1 DEF KeysFrom, Keeps
<1> QED  BY <1>2, <1>3

LEMMA SourceAddKeys ==
  ASSUME IInv, NEW t, Whole(t), NEW a \in 0 .. Space - 1, NEW expire \in Nat
  PROVE  /\ KeysFrom(t, source_add(t, a, expire), Key(a, HostMask, source.mflags))
         /\ Keeps(t, source_add(t, a, expire))
<1> DEFINE m == match_restrict(t, a, NTP_PORT)
           specific == m.found.mask = HostMask
           fleeting == expire = 0 /\ specific /\ m.found.expire # 0
           t1 == IF fleeting THEN free_res(m.table, m.found) ELSE m.table
           key == Key(a, HostMask, source.mflags)
           t2 == AddFlags(t1, key, source.rflags, expire)
<1>1. Whole(m.table) /\ (m.found = Default \/ m.found \in m.table.list)
  BY MatchIsWhole
<1>2. KeysFrom(t, m.table, key) /\ Keeps(t, m.table)
  <2> HIDE DEF key
  <2> QED  BY MatchKeys
<1>3. /\ fleeting => m.found \in m.table.list
      /\ fleeting => m.found.expire # 0
  BY <1>1 DEF Default
<1>4. Whole(t1) /\ KeysFrom(m.table, t1, key) /\ Keeps(m.table, t1)
  <2>1. CASE fleeting
    <3> HIDE DEF m, key
    <3> QED  BY <2>1, <1>1, <1>3, FreeIsWhole, FreeKeys
  <2>2. CASE ~fleeting
    <3> HIDE DEF m, key, fleeting
    <3> QED  BY <2>2, <1>1 DEF KeysFrom, Keeps
  <2> QED  BY <2>1, <2>2
<1>5. key \in KeySet /\ source.rflags \in SUBSET RES_ALLFLAGS
  <2>1. HostMask \in 0 .. Space - 1 /\ a \in Nat /\ source.mflags \in MFLAGS
    BY DEF HostMask, IInv
  <2> QED  BY <2>1, KeyType DEF KeySet, IInv
<1> HIDE DEF t1, fleeting, specific, m, key
<1>6. KeysFrom(t1, t2, key) /\ Keeps(t1, t2)
  BY <1>4, <1>5, AddFlagsKeys
<1> HIDE DEF t2
<1>7. /\ KeysFrom(t, t1, key) /\ Keeps(t, t1)
      /\ KeysFrom(t, t2, key) /\ Keeps(t, t2)
      /\ KeysFrom(t, t, key) /\ Keeps(t, t)
  BY <1>2, <1>4, <1>6 DEF KeysFrom, Keeps
<1> QED  BY <1>7 DEF source_add, t2, t1, fleeting, specific, m, key

\* Every entry of the list has a mask that the configuration, an interface or a
\* request gave it.
KnownMasks(t) == \A e \in t.list : e.mask \in Masks

MaskInv == IInv /\ KnownMasks(tbl)

LEMMA KnownMasksKept ==
  ASSUME NEW t, NEW u, NEW key, KnownMasks(t), KeysFrom(t, u, key), key.mask \in Masks
  PROVE  KnownMasks(u)
<1>1. \A e : KeyOf(e).mask = e.mask
  BY DEF KeyOf
<1> QED  BY <1>1 DEF KnownMasks, KeysFrom

LEMMA InitMaskInv == Init => MaskInv
BY InitIInv DEF Init, MaskInv, KnownMasks, EmptyTable, Default, Masks

LEMMA NextMaskInv == MaskInv /\ [Next]_vars => MaskInv'
<1> SUFFICES ASSUME MaskInv, [Next]_vars  PROVE KnownMasks(tbl')
  BY NextIInv DEF MaskInv, KnownMasks
<1>0. IInv /\ Whole(tbl) /\ KnownMasks(tbl)
  BY DEF MaskInv, IInv
<1>00. \A a, mask, mflags : Key(a, mask, mflags).mask = mask
  BY DEF Key
<1>1. ASSUME NEW r \in Rules, Configure(r)  PROVE KnownMasks(tbl')
  <2> DEFINE key == Key(r.addr, r.mask, r.mflags)
  <2>1. key \in KeySet /\ key.mask \in Masks
    BY <1>00, KeyType DEF KeySet, Masks
  <2>2. tbl' = AddFlags(tbl, key, r.rflags, 0)
    BY <1>1 DEF Configure
  <2> HIDE DEF key
  <2> QED  BY <1>0, <2>1, <2>2, AddFlagsKeys, KnownMasksKept
<1>2. ASSUME NEW q \in Requests, Request(q)  PROVE KnownMasks(tbl')
  <2> DEFINE key == Key(q.addr, q.mask, q.ippeerlimit)
  <2>1. key \in KeySet /\ key.mask \in Masks
    BY <1>00, KeyType DEF KeySet, Masks
  <2>2. \/ tbl' = AddFlags(tbl, key, q.rflags, 0)
        \/ tbl' = SubFlags(tbl, key, q.rflags)
        \/ tbl' = Remove(tbl, key, FALSE)
    BY <1>2 DEF Request
  <2> HIDE DEF key
  <2>3. KeysFrom(tbl, tbl', key)
    BY <1>0, <2>1, <2>2, AddFlagsKeys, SubFlagsKeys, RemoveKeys
  <2> QED  BY <1>0, <2>1, <2>3, KnownMasksKept
<1>3. ASSUME NEW a \in Locals, InterfaceUp(a) \/ InterfaceDown(a)  PROVE KnownMasks(tbl')
  <2> DEFINE key == Key(a, HostMask, NTPONLY + INTERFACE)
  <2>1. key \in KeySet /\ key.mask \in Masks
    <3>1. HostMask \in 0 .. Space - 1 /\ a \in Nat /\ NTPONLY + INTERFACE \in MFLAGS
      BY DEF HostMask, NTPONLY, INTERFACE, MFLAGS
    <3> QED  BY <3>1, <1>00, KeyType DEF KeySet, Masks
  <2>2. tbl' = AddFlags(tbl, key, {"ignore"}, 0) \/ tbl' = Remove(tbl, key, TRUE)
    BY <1>3 DEF InterfaceUp, InterfaceDown
  <2>3. {"ignore"} \in SUBSET RES_ALLFLAGS
    BY DEF RES_ALLFLAGS, RES_FLAGS
  <2> HIDE DEF key
  <2>4. KeysFrom(tbl, tbl', key)
    BY <1>0, <2>1, <2>2, <2>3, AddFlagsKeys, RemoveKeys
  <2> QED  BY <1>0, <2>1, <2>4, KnownMasksKept
<1>4. \A a : Key(a, HostMask, source.mflags).mask \in Masks
  BY <1>00 DEF Masks
<1>5. ASSUME NEW a \in Hosts, Solicit(a)  PROVE KnownMasks(tbl')
  <2> DEFINE t == match_restrict(tbl, a, NTP_PORT).table
             key == Key(a, HostMask, source.mflags)
  <2>1. Whole(t) /\ KeysFrom(tbl, t, key) /\ now + Window \in Nat
    BY <1>0, MatchIsWhole, MatchKeys DEF IInv
  <2>2. tbl' = t \/ tbl' = source_add(t, a, now + Window)
    BY <1>5 DEF Solicit
  <2> HIDE DEF t
  <2>3. KeysFrom(t, source_add(t, a, now + Window), key)
    BY <1>0, <2>1, SourceAddKeys
  <2>4. key.mask \in Masks
    BY <1>4
  <2> HIDE DEF key
  <2>5. KnownMasks(t)
    BY <1>0, <2>1, <2>4, KnownMasksKept
  <2> QED  BY <2>2, <2>3, <2>4, <2>5, KnownMasksKept
<1>6. ASSUME NEW a \in Hosts, NewPeer(a)  PROVE KnownMasks(tbl')
  <2>1. tbl' = source_add(tbl, a, 0)
    BY <1>6 DEF NewPeer
  <2>2. KeysFrom(tbl, tbl', Key(a, HostMask, source.mflags))
    BY <1>0, <2>1, SourceAddKeys
  <2> QED  BY <1>0, <1>4, <2>2, KnownMasksKept
<1>7. ASSUME NEW a \in Hosts, Unpeer(a)  PROVE KnownMasks(tbl')
  <2>1. tbl' = Remove(tbl, Key(a, HostMask, 0), FALSE) \/ tbl' = tbl
    BY <1>7 DEF Unpeer, source_remove
  <2>2. Key(a, HostMask, 0).mask \in Masks
    BY <1>00 DEF Masks
  <2>3. KeysFrom(tbl, Remove(tbl, Key(a, HostMask, 0), FALSE), Key(a, HostMask, 0))
    BY <1>0, RemoveKeys
  <2>4. KnownMasks(Remove(tbl, Key(a, HostMask, 0), FALSE))
    BY <1>0, <2>2, <2>3, KnownMasksKept
  <2> QED  BY <1>0, <2>1, <2>4 DEF KnownMasks
<1>8. ASSUME NEW a \in Hosts \cup Locals, NEW port, Receive(a, port)  PROVE KnownMasks(tbl')
  <2>1. KeysFrom(tbl, tbl', DefaultKey)
    BY <1>0, <1>8, MatchKeys DEF Receive
  <2>2. DefaultKey.mask \in Masks
    BY <1>00 DEF Masks, DefaultKey
  <2> QED  BY <1>0, <2>1, <2>2, KnownMasksKept
<1>9. ASSUME NEW on \in BOOLEAN, ConfigureMonitor(on)  PROVE KnownMasks(tbl')
  <2>1. tbl'.list = tbl.list
    BY <1>0, <1>9 DEF ConfigureMonitor, Whole, TableType
  <2> QED  BY <1>0, <2>1 DEF KnownMasks
<1>10. ASSUME Restart  PROVE KnownMasks(tbl')
  BY <1>10 DEF Restart, KnownMasks, EmptyTable, Default, Masks
<1>11. CASE Second \/ (\E s \in SourceRules : ConfigureSource(s)) \/ UNCHANGED vars
  BY <1>0, <1>11 DEF Second, ConfigureSource, vars
<1> QED
  BY <1>1, <1>2, <1>3, <1>5, <1>6, <1>7, <1>8, <1>9, <1>10, <1>11 DEF Next

\* Whatever is configured, asked for and mobilised: the entry a lookup stops at is
\* the most specific one that matches (ntp_restrict.c:235).
THEOREM MostSpecificComesFirst == Spec => []MostSpecificFirst
<1>1. MaskInv => MostSpecificFirst
  <2> SUFFICES ASSUME MaskInv, \A e \in tbl.list : ~Expired(e),
                      NEW a \in 0 .. Space - 1, NEW port \in {NTP_PORT, OtherPort}
               PROVE  LET e == StopsAt(tbl.list, a, port)
                      IN  /\ Matches(e, a, port)
                          /\ \A f \in tbl.list :
                                Matches(f, a, port) => \/ f.mask < e.mask
                                                       \/ f.mask = e.mask /\ f.mflags <= e.mflags
    BY DEF MostSpecificFirst
  <2> DEFINE e == StopsAt(tbl.list, a, port)
  <2>1. /\ e \in tbl.list /\ Matches(e, a, port)
        /\ \A f \in tbl.list \ {e} : Matches(f, a, port) => SortsBefore(e, f)
    BY LookupStops DEF MaskInv, IInv
  <2> HIDE DEF e
  <2>2. ASSUME NEW f \in tbl.list, Matches(f, a, port)
        PROVE  \/ f.mask < e.mask
               \/ f.mask = e.mask /\ f.mflags <= e.mflags
    <3>1. e \in EntryType /\ f \in EntryType /\ e.mask \in Masks /\ f.mask \in Masks
      BY <2>1 DEF MaskInv, IInv, Whole, TableType, KnownMasks
    <3>2. e.addr = Masked(a, e.mask) /\ f.addr = Masked(a, f.mask)
      BY <2>1, <2>2 DEF Matches
    <3>3. e = f \/ SortsBefore(e, f)
      BY <2>1, <2>2
    <3>4. e.mask < f.mask => e.addr <= f.addr
      BY <3>1, <3>2, LongerMaskFirst DEF EntryType
    <3>5. f.mask <= e.mask
      BY <3>1, <3>3, <3>4 DEF SortsBefore, EntryType
    <3>6. e.mask = f.mask => e.addr = f.addr
      BY <3>2
    <3> QED  BY <3>1, <3>3, <3>5, <3>6 DEF SortsBefore, EntryType, MFLAGS
  <2> QED  BY <2>1, <2>2 DEF e
<1> QED  BY <1>1, InitMaskInv, NextMaskInv, PTL DEF Spec

\* No lookup, no association that comes and nothing that expires takes an entry
\* that was configured.
THEOREM ConfiguredAlwaysStays == Spec => ConfiguredStays
<1>1. ASSUME IInv, [Next]_vars, NEW e \in tbl.list, e.expire = 0, ~Present(tbl', KeyOf(e))
      PROVE  \/ \E q \in Requests : q.op = "remove" /\ Request(q)
             \/ \E a \in Locals : InterfaceDown(a)
             \/ \E a \in peers : Unpeer(a)
             \/ Restart
  <2>0. Whole(tbl)
    BY <1>1 DEF IInv
  <2>00. ~Keeps(tbl, tbl')
    BY <1>1 DEF Keeps, Present
  <2>000. Keeps(tbl, tbl)
    BY DEF Keeps
  <2>1. ASSUME NEW r \in Rules, Configure(r)  PROVE FALSE
    <3>1. Key(r.addr, r.mask, r.mflags) \in KeySet
      BY KeyType DEF KeySet
    <3> QED  BY <3>1, <2>1, <2>0, <2>00, AddFlagsKeys DEF Configure
  <2>2. ASSUME NEW q \in Requests, Request(q), q.op # "remove"  PROVE FALSE
    <3> DEFINE key == Key(q.addr, q.mask, q.ippeerlimit)
    <3>1. key \in KeySet
      BY KeyType DEF KeySet
    <3>2. tbl' = AddFlags(tbl, key, q.rflags, 0) \/ tbl' = SubFlags(tbl, key, q.rflags)
      BY <2>2 DEF Request
    <3> HIDE DEF key
    <3> QED  BY <3>1, <3>2, <2>0, <2>00, AddFlagsKeys, SubFlagsKeys
  <2>3. ASSUME NEW a \in Locals, InterfaceUp(a)  PROVE FALSE
    <3> DEFINE key == Key(a, HostMask, NTPONLY + INTERFACE)
    <3>1. key \in KeySet
      <4>1. HostMask \in 0 .. Space - 1 /\ a \in Nat /\ NTPONLY + INTERFACE \in MFLAGS
        BY DEF HostMask, NTPONLY, INTERFACE, MFLAGS
      <4> QED  BY <4>1, KeyType DEF KeySet
    <3>2. {"ignore"} \in SUBSET RES_ALLFLAGS
      BY DEF RES_ALLFLAGS, RES_FLAGS
    <3>3. tbl' = AddFlags(tbl, key, {"ignore"}, 0)
      BY <2>3 DEF InterfaceUp
    <3> HIDE DEF key
    <3> QED  BY <3>1, <3>2, <3>3, <2>0, <2>00, AddFlagsKeys
  <2>4. ASSUME NEW a \in Hosts, Solicit(a)  PROVE FALSE
    <3> DEFINE t == match_restrict(tbl, a, NTP_PORT).table
    <3>1. Whole(t) /\ Keeps(tbl, t) /\ now + Window \in Nat
      BY <1>1, <2>0, MatchIsWhole, MatchKeys DEF IInv
    <3>2. tbl' = t \/ tbl' = source_add(t, a, now + Window)
      BY <2>4 DEF Solicit
    <3> HIDE DEF t
    <3>3. Keeps(t, source_add(t, a, now + Window))
      BY <1>1, <3>1, SourceAddKeys
    <3> QED  BY <2>00, <3>1, <3>2, <3>3 DEF Keeps
  <2>5. ASSUME NEW a \in Hosts, NewPeer(a)  PROVE FALSE
    BY <1>1, <2>0, <2>00, <2>5, SourceAddKeys DEF NewPeer
  <2>6. ASSUME NEW a \in Hosts \cup Locals, NEW port, Receive(a, port)  PROVE FALSE
    BY <2>0, <2>00, <2>6, MatchKeys DEF Receive
  <2>7. ASSUME NEW on \in BOOLEAN, ConfigureMonitor(on)  PROVE FALSE
    <3>1. tbl'.list = tbl.list
      BY <2>0, <2>7 DEF ConfigureMonitor, Whole, TableType
    <3> QED  BY <2>00, <2>000, <3>1 DEF Keeps
  <2>8. CASE Second \/ (\E s \in SourceRules : ConfigureSource(s)) \/ UNCHANGED vars
    BY <2>00, <2>000, <2>8 DEF Second, ConfigureSource, vars
  <2>9. \A a \in Hosts : Unpeer(a) => a \in peers
    BY DEF Unpeer
  <2> QED  BY <1>1, <2>1, <2>2, <2>3, <2>4, <2>5, <2>6, <2>7, <2>8, <2>9 DEF Next
<1>2. IInv /\ [Next]_vars =>
        [\A e \in tbl.list :
           e.expire = 0 /\ e.mflags < SOURCE /\ ~Present(tbl', KeyOf(e)) =>
              \/ \E q \in Requests : q.op = "remove" /\ Request(q)
              \/ \E a \in Locals : InterfaceDown(a)
              \/ \E a \in peers : Unpeer(a)
              \/ Restart]_vars
  BY <1>1
<1> QED  BY <1>2, Invariance, PTL DEF Spec, ConfiguredStays
=============================================================================
