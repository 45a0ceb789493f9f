------------------------------ MODULE Monitor ------------------------------
(***************************************************************************)
(* The clients the daemon remembers and the rates it allows them:          *)
(* ntp_monitor.c.  `mru' is the most recently used list, newest first;     *)
(* `free' counts the entries on the free list.  Time passes in half        *)
(* seconds, because ntp_monitor() rounds the time since the last packet to *)
(* the nearest second.  An entry keeps the age of its last packet on the   *)
(* system clock instead of its time, so that a step of the clock changes   *)
(* the ages; beyond OldAge all ages behave alike.                          *)
(***************************************************************************)
EXTENDS Integers, Sequences, FiniteSets

CONSTANTS
    Clients,
    Lights,         \* the rate flags restrictions() may give a client
    Headway,        \* 1 << ntp_minpoll: the headway increment
    Shift,          \* NTP_SHIFT
    MinPkt,         \* ntp_minpkt
    InitAlloc,      \* mru_initalloc when monitoring is first started
    Depths,         \* the mru_mindepth, mru_maxdepth and mru_incalloc configured
    MaxAge,         \* mru_maxage
    MonAge,         \* mon_age
    OldAge,         \* bound: half seconds after which an age stops growing
    Steps, MaxSteps \* bound: how far, and how often, the clock is stepped

ASSUME MonitorAssumption ==
    /\ Headway \in Nat \ {0} /\ Shift \in Nat \ {0, 1} /\ MinPkt \in Nat
    /\ InitAlloc \in Nat \ {0}
    /\ \A d \in Depths : d.min \in Nat /\ d.max \in Nat /\ d.inc \in Nat
    /\ Lights \subseteq SUBSET {"limited", "kod"}
    /\ OldAge \in Nat /\ Steps \subseteq Int /\ MaxSteps \in Nat

VARIABLES
    mru, free,
    alloc,          \* mru_alloc; no entry has been made while it is 0
    enabled,        \* mon_enabled
    depth,          \* mru_mindepth, mru_maxdepth, mru_incalloc
    steps,          \* steps of the clock so far
    aborted         \* the INSIST of ntp_monitor() failed

monitorVars == <<mru, free, alloc, enabled, depth, steps, aborted>>

Modes == {"MON_ON", "MON_RES"}
limit == Shift * Headway
Never == Headway + 1       \* bound: where the time since a KoD stops growing

\* kodAge is the time since this entry last drew a KoD, and leaped tells whether
\* the clock was stepped forward since: ntp_monitor() keeps the flags it returned
\* last instead, and looks at none of them.
Entries == [addr : Clients, age : Int, leak : Int, kodAge : 0 .. Never, leaped : BOOLEAN]

Seconds(age) == (age + 1) \div 2
Largest(a, b) == IF a > b THEN a ELSE b
Smallest(a, b) == IF a < b THEN a ELSE b

Listed == {mru[i].addr : i \in 1 .. Len(mru)}
PlaceOf(c) == CHOOSE i \in 1 .. Len(mru) : mru[i].addr = c
EntryOf(c) == mru[PlaceOf(c)]

\* "Shuffle to the head of the MRU list": e comes first instead of the one at k.
Shuffled(e, k) ==
    [i \in 1 .. Len(mru) |-> IF i = 1 THEN e ELSE IF i <= k THEN mru[i - 1] ELSE mru[i]]

\* mon_getmoremem(), when the free list is empty: how many entries it makes
Chunk == IF free > 0 THEN 0 ELSE IF alloc = 0 THEN InitAlloc ELSE depth.inc

MonitorInit ==
    /\ mru = <<>> /\ free = InitAlloc /\ alloc = InitAlloc
    /\ enabled = {"MON_ON"}         \* mon_start(MON_ON) in ntpdmain()
    /\ depth \in Depths
    /\ steps = 0 /\ aborted = FALSE

-----------------------------------------------------------------------------
\* mon_start() and mon_stop(); what stops last moves the list to the free list.
Start(mode) ==
    /\ enabled' = enabled \cup {mode}
    /\ UNCHANGED <<mru, free, alloc, depth, steps, aborted>>

Stop(modes) ==
    /\ modes \cap enabled # {}
    /\ enabled' = enabled \ modes
    /\ IF enabled' = {}
       THEN mru' = <<>> /\ free' = free + Len(mru)
       ELSE UNCHANGED <<mru, free>>
    /\ UNCHANGED <<alloc, depth, steps, aborted>>

\* Mutants: the counter is not drained; every packet that is refused is kissed.
RefillNot(e) == e.leak
JudgeAndKiss(e, lit) ==
    IF Seconds(e.age) + 1 >= MinPkt /\ e.leak - Seconds(e.age) + Headway < limit
    THEN [leak |-> Largest(0, e.leak - Seconds(e.age)) + Headway - 2, flags |-> {}]
    ELSE [leak |-> limit + Headway, flags |-> lit]

\* ntp_monitor() for a client it knows.  The flags of the packet stay lit when
\* it is to be refused: `limited', and `kod' for the first one in a while.
Refill(e) == Largest(0, e.leak - Seconds(e.age))

Judge(e, lit) ==
    LET leak == Refill(e) IN
    IF Seconds(e.age) + 1 >= MinPkt /\ leak + Headway < limit
    THEN [leak |-> leak + Headway - 2, flags |-> {}]
    ELSE IF leak < limit
         THEN [leak |-> limit + Headway, flags |-> lit]
         ELSE [leak |-> leak, flags |-> lit \ {"kod"}]

Known(c, lit) ==
    /\ enabled # {} /\ c \in Listed
    /\ LET e == EntryOf(c)
           j == Judge(e, lit)
       IN  mru' = Shuffled([e EXCEPT !.age = 0, !.leak = j.leak,
                                     !.kodAge = IF "kod" \in j.flags THEN 0 ELSE @,
                                     !.leaped = @ /\ "kod" \notin j.flags],
                           PlaceOf(c))
    /\ UNCHANGED <<free, alloc, enabled, depth, steps, aborted>>

\* ... and for one it does not know.
Fresh(c) == [addr |-> c, age |-> 0, leak |-> 0, kodAge |-> Never, leaped |-> FALSE]

Oldest == mru[Len(mru)]
TooOld == Len(mru) > 0 /\ MaxAge < Seconds(Oldest.age)

\* from the free list, which gets more memory if it is empty
FromFreeList(c) ==
    /\ enabled # {} /\ c \notin Listed
    /\ \/ Len(mru) < depth.min
       \/ ~TooOld /\ (free > 0 \/ alloc < depth.max)

\* Mutant: the free list is not looked at.
AdmitBlindly(c) ==
    /\ FromFreeList(c)
    /\ free' = free - 1 /\ mru' = <<Fresh(c)>> \o mru
    /\ UNCHANGED <<alloc, enabled, depth, steps, aborted>>

Admit(c) ==
    /\ FromFreeList(c) /\ free + Chunk > 0
    /\ alloc' = alloc + Chunk
    /\ free' = free + Chunk - 1
    /\ mru' = <<Fresh(c)>> \o mru
    /\ UNCHANGED <<enabled, depth, steps, aborted>>

\* `mru incalloc 0' makes nothing: INSIST(mon != NULL) ends the system.
RunsDry(c) ==
    /\ FromFreeList(c) /\ free + Chunk = 0
    /\ aborted' = TRUE
    /\ UNCHANGED <<mru, free, alloc, enabled, depth, steps>>

\* in the place of the oldest, which is too old, or is drawn by lot: the
\* random number is less than a quarter, whence the factor
Replace(c) ==
    /\ enabled # {} /\ c \notin Listed /\ Len(mru) >= depth.min /\ Len(mru) > 0
    /\ \/ TooOld
       \/ free = 0 /\ alloc >= depth.max /\ Seconds(Oldest.age) >= 0
    /\ mru' = <<Fresh(c)>> \o SubSeq(mru, 1, Len(mru) - 1)
    /\ UNCHANGED <<free, alloc, enabled, depth, steps, aborted>>

\* or not at all: the packet is answered, and forgotten
Overlook(c) ==
    /\ enabled # {} /\ c \notin Listed /\ Len(mru) >= depth.min /\ Len(mru) > 0
    /\ ~TooOld /\ free = 0 /\ alloc >= depth.max
    /\ 4 * Seconds(Oldest.age) < MonAge
    /\ UNCHANGED monitorVars

\* The list without the clients in cs: f counts the places that stay, in order.
Unlinked(cs, list) ==
    LET kept == {i \in 1 .. Len(mru) : mru[i].addr \notin cs}
    IN  \E f \in [1 .. Cardinality(kept) -> kept] :
          /\ \A i, j \in 1 .. Cardinality(kept) : i < j => f[i] < f[j]
          /\ list = [i \in 1 .. Cardinality(kept) |-> mru[f[i]]]

\* Mutant: the entries of an interface that goes away are lost.
ClearAndLose(cs) ==
    /\ Unlinked(cs, mru')
    /\ UNCHANGED <<free, alloc, enabled, depth, steps, aborted>>

\* mon_clearinterface(): the clients of an interface that goes away
ClearInterface(cs) ==
    /\ Unlinked(cs, mru')
    /\ free' = free + Len(mru) - Len(mru')
    /\ UNCHANGED <<alloc, enabled, depth, steps, aborted>>

\* the `mru' line of the configuration
ConfigureDepth(d) ==
    /\ depth' = d
    /\ UNCHANGED <<mru, free, alloc, enabled, steps, aborted>>

-----------------------------------------------------------------------------
HalfSecond ==
    /\ mru' = [i \in DOMAIN mru |->
                 [mru[i] EXCEPT !.age = Smallest(OldAge, @ + 1),
                                !.kodAge = Smallest(Never, @ + 1)]]
    /\ UNCHANGED <<free, alloc, enabled, depth, steps, aborted>>

\* ntpd_time_stepped(), after the clock was set: mon_stop(MON_OFF) returns at
\* once and mon_start() of what is enabled changes nothing.
Step(s) ==
    /\ steps < MaxSteps
    /\ steps' = steps + 1
    /\ mru' = [i \in DOMAIN mru |->
                 [mru[i] EXCEPT !.age = Smallest(OldAge, @ + s),
                                !.leaped = @ \/ s > 0]]
    /\ UNCHANGED <<free, alloc, enabled, depth, aborted>>

Operation ==
    \/ \E mode \in Modes : Start(mode)
    \/ \E modes \in SUBSET Modes : Stop(modes)
    \/ \E c \in Clients, lit \in Lights : Known(c, lit)
    \/ \E c \in Clients : Admit(c) \/ RunsDry(c) \/ Replace(c) \/ Overlook(c)
    \/ \E cs \in SUBSET Clients : ClearInterface(cs)
    \/ \E d \in Depths : ConfigureDepth(d)
    \/ HalfSecond
    \/ \E s \in Steps : Step(s)

MonitorNext == ~aborted /\ Operation

MonitorSpec == MonitorInit /\ [][MonitorNext]_monitorVars

-----------------------------------------------------------------------------
MonitorTypeOK ==
    /\ mru \in Seq(Entries) /\ free \in Nat /\ alloc \in Nat
    /\ enabled \subseteq Modes /\ depth \in Depths
    /\ steps \in 0 .. MaxSteps /\ aborted \in BOOLEAN

\* mru_alloc is the "mru list + free list count" (ntp_monitor.c:77) whatever
\* starts, stops, replaces or clears entries, a client has one entry, and the
\* list does not grow past the deepest configured depth by more than the last
\* chunk of memory, however the depths are changed.
AllAccounted ==
    /\ alloc = Len(mru) + free
    /\ \A i, j \in 1 .. Len(mru) : mru[i].addr = mru[j].addr => i = j
    /\ \E d \in Depths : Len(mru) <= Largest(InitAlloc, Largest(d.min, d.max) - 1 + d.inc)

\* Two KoD to the same entry are more than half the headway increment apart, unless
\* the clock was stepped forward between them, which drains the counter; a step back
\* is no exception.  Packets that come every half second are each counted as a
\* second, so the "no less than the average headway" of ntp_monitor.c:405 holds for
\* seconds as they are rounded, not for seconds.
KodSpacing ==
    [][\A c \in Clients, lit \in Lights :
         /\ Known(c, lit)
         /\ "kod" \in Judge(EntryOf(c), lit).flags
         /\ ~EntryOf(c).leaped
         => EntryOf(c).kodAge > Headway]_monitorVars

\* A client that was quiet for more than two increments, and for the minimum, is
\* answered, whatever it did before, unless the clock was stepped meanwhile.
QuietClientServed ==
    [][\A c \in Clients, lit \in Lights :
         /\ Known(c, lit)
         /\ steps = 0
         /\ EntryOf(c).age > 4 * Headway /\ EntryOf(c).age >= 2 * MinPkt
         => Judge(EntryOf(c), lit).flags = {}]_monitorVars

\* "flush the monitor MRU list which contains l_fp timestamps which should not
\* be compared across the step" (ntp_util.c:1033): no time from before a step
\* is left to compare with.
NotComparedAcrossStep == [][steps' # steps => mru' = <<>>]_monitorVars

\* The daemon runs out of entries only when it was told to make none.
DryOnlyByOrder == aborted => depth.inc = 0

\* INSIST(mon != NULL) of ntp_monitor.c:487: ntp_monitor() finds an entry, one way
\* or another.
EntryInsist == ~aborted
=============================================================================
