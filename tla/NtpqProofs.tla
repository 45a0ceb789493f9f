----------------------------- MODULE NtpqProofs -----------------------------
(***************************************************************************)
(* Proofs about what rtems_shell_ntpq_command is built of, bottom up: the  *)
(* program environment it runs in (BsdProgram: rtems-ntpq.c:470 goes       *)
(* through rtems_bsd_program_call_main), the library that shares one       *)
(* environment between its callers (NtpqSession), and the exchange of a    *)
(* query with the daemon (NtpqQuery).  The three share no state, and each  *)
(* part has an inductive invariant of its own.                             *)
(***************************************************************************)
EXTENDS BsdProgram, NtpqSession, NtpqQuery, FiniteSetTheorems, SequenceTheorems, TLAPS

-----------------------------------------------------------------------------
(* BsdProgram, for any tasks, descriptors, streams, blocks and             *)
(* destructors.  The invariant accounts for every live handle: it is in    *)
(* exactly one list, or it was dropped by a failed realloc; and what a     *)
(* program holds is in its own list or was dropped.                        *)

\* The types the argument needs; the destructors play no part in it.
HandleTypes ==
  /\ place \in [Tasks -> {"outside", "running", "teardown", "asserted"}]
  /\ listed \in [Tasks -> SUBSET Handles]
  /\ live \in SUBSET Handles
  /\ holds \in [Tasks -> SUBSET Handles]
  /\ lost \in SUBSET Blocks

\* A program holds what is in its list, and what was dropped from it.
HeldIsListedOrLost ==
  \A t \in Tasks : listed[t] \subseteq holds[t] /\ holds[t] \subseteq listed[t] \cup lost

\* Listed and dropped handles are live, and no handle is both.
ListedOrLostIsLive ==
  /\ lost \subseteq live
  /\ \A t \in Tasks : listed[t] \subseteq live /\ listed[t] \cap lost = {}

\* No two programs hold the same handle.
HeldByOne == \A t, u \in Tasks : t # u => holds[t] \cap holds[u] = {}

\* Nothing else is live.
LiveIsListedOrLost == \A h \in live : h \in lost \/ \E t \in Tasks : h \in listed[t]

\* Without a control block there is no list.
NoListOutside == \A t \in Tasks : place[t] = "outside" => listed[t] = {}

IInv ==
  /\ HandleTypes
  /\ HeldIsListedOrLost
  /\ ListedOrLostIsLive
  /\ HeldByOne
  /\ LiveIsListedOrLost
  /\ NoListOutside

USE HandlesAssumption

LEMMA InitIInv == ProgramInit => IInv
BY DEF ProgramInit, IInv, HandleTypes, HeldIsListedOrLost, ListedOrLostIsLive, HeldByOne,
       LiveIsListedOrLost, NoListOutside

\* A handle that the system gave out anew is in no list.
LEMMA ObtainIInv ==
  ASSUME IInv, NEW t \in Tasks, NEW h \in Handles, Obtain(t, h)
  PROVE  IInv'
BY DEF Obtain, Running, IInv, HandleTypes, HeldIsListedOrLost, ListedOrLostIsLive,
       HeldByOne, LiveIsListedOrLost, NoListOutside

\* Releasing a listed handle takes it out of the list, too.
LEMMA ReleaseIInv ==
  ASSUME IInv, NEW t \in Tasks, NEW h \in Handles, Release(t, h),
         h \in listed[t] \/ h \in lost \cap holds[t],
         holds' = [holds EXCEPT ![t] = @ \ {h}], lost' = lost \ {h}, UNCHANGED place
  PROVE  IInv'
BY DEF Release, IInv, HandleTypes, HeldIsListedOrLost, ListedOrLostIsLive,
       HeldByOne, LiveIsListedOrLost, NoListOutside

LEMMA CloseIInv ==
  ASSUME IInv, NEW t \in Tasks, NEW h \in Handles, Close(t, h)
  PROVE  IInv'
<1>1. CASE h \in listed[t]
  <2>1. lost' = lost \ {h}
    BY <1>1 DEF Close, IInv, ListedOrLostIsLive
  <2> QED BY <1>1, <2>1, ReleaseIInv DEF Close, Closes
<1>2. CASE h \notin listed[t]
  BY <1>2 DEF Close, Closes, Running, IInv, HandleTypes, HeldIsListedOrLost, ListedOrLostIsLive,
       HeldByOne, LiveIsListedOrLost, NoListOutside
<1> QED BY <1>1, <1>2

LEMMA FreeIInv ==
  ASSUME IInv, NEW t \in Tasks, NEW b \in Blocks, Free(t, b)
  PROVE  IInv'
<1>1. CASE b \in listed[t]
  <2>1. lost' = lost \ {b}
    BY <1>1 DEF Free, IInv, ListedOrLostIsLive
  <2> QED BY <1>1, <2>1, ReleaseIInv DEF Free, Handles
<1>2. CASE b \notin listed[t]
  BY <1>2 DEF Free, Running, IInv, HandleTypes, HeldIsListedOrLost, ListedOrLostIsLive,
       HeldByOne, LiveIsListedOrLost, NoListOutside
<1> QED BY <1>1, <1>2

LEMMA ReallocIInv ==
  ASSUME IInv, NEW t \in Tasks, NEW b \in Blocks, NEW c \in Blocks, Realloc(t, b, c)
  PROVE  IInv'
<1>1. HandleTypes'
  BY DEF Realloc, Relist, IInv, HandleTypes, Handles
<1>2. b \in live /\ \A u \in Tasks : u # t => b \notin holds[u] /\ c \notin holds[u]
  BY DEF Realloc, Relist, IInv, HandleTypes, HeldIsListedOrLost, ListedOrLostIsLive, HeldByOne
<1>3. c # b => c \notin lost /\ \A u \in Tasks : c \notin listed[u] /\ c \notin holds[u]
  BY DEF Realloc, IInv, HandleTypes, HeldIsListedOrLost, ListedOrLostIsLive
<1>4. /\ listed' = [listed EXCEPT ![t] = (@ \ {b}) \cup {c}]
      /\ holds' = [holds EXCEPT ![t] = (@ \ {b}) \cup {c}]
      /\ live' = (live \ {b}) \cup {c} /\ lost' = lost \ {b} /\ place' = place
      /\ place[t] = "running"
  BY DEF Realloc, Relist, Running
<1>5. HeldIsListedOrLost' /\ HeldByOne' /\ NoListOutside'
  BY <1>2, <1>3, <1>4
  DEF IInv, HandleTypes, HeldIsListedOrLost, HeldByOne, NoListOutside
<1>6. ListedOrLostIsLive'
  BY <1>2, <1>3, <1>4
  DEF IInv, HandleTypes, HeldIsListedOrLost, ListedOrLostIsLive
<1>7. LiveIsListedOrLost'
  BY <1>2, <1>3, <1>4
  DEF IInv, HandleTypes, HeldIsListedOrLost, LiveIsListedOrLost
<1> QED BY <1>1, <1>5, <1>6, <1>7 DEF IInv

LEMMA ReallocFailsIInv ==
  ASSUME IInv, NEW t \in Tasks, NEW b \in Blocks, ReallocFails(t, b)
  PROVE  IInv'
BY DEF ReallocFails, Unlist, Running, IInv, HandleTypes, HeldIsListedOrLost, ListedOrLostIsLive,
       HeldByOne, LiveIsListedOrLost, NoListOutside

LEMMA ReallocfFailsIInv ==
  ASSUME IInv, NEW t \in Tasks, NEW b \in Blocks, ReallocfFails(t, b)
  PROVE  IInv'
<1>1. b \in listed[t] \/ b \in lost \cap holds[t]
  BY DEF ReallocfFails, IInv, HeldIsListedOrLost
<1> QED BY <1>1, ReleaseIInv DEF ReallocfFails, Handles

LEMMA ReleaseOneIInv ==
  ASSUME IInv, NEW t \in Tasks, NEW h \in Handles, ReleaseOne(t, h)
  PROVE  IInv'
<1>1. h \in listed[t] /\ lost' = lost \ {h}
  BY DEF ReleaseOne, IInv, ListedOrLostIsLive
<1> QED BY <1>1, ReleaseIInv DEF ReleaseOne

\* Descriptors, streams and blocks are all there is in a list.
LEMMA ReleasedIsEmpty ==
  ASSUME IInv, NEW t \in Tasks, Released(t)
  PROVE  listed[t] = {}
BY DEF Released, TeardownNext, IInv, HandleTypes, Handles

LEMMA ReturnIInv ==
  ASSUME IInv, NEW t \in Tasks, Return(t)
  PROVE  IInv'
<1>1. listed[t] = {} /\ listed' = listed
  <2>1. listed[t] = {}
    BY ReleasedIsEmpty DEF Return
  <2> QED BY <2>1 DEF Return, IInv, HandleTypes
<1> QED BY <1>1
  DEF Return, IInv, HandleTypes, HeldIsListedOrLost, ListedOrLostIsLive, HeldByOne,
      LiveIsListedOrLost, NoListOutside

\* Every step keeps the invariant.
LEMMA NextIInv == IInv /\ [ProgramNext]_programVars => IInv'
<1> SUFFICES ASSUME IInv, [ProgramNext]_programVars PROVE IInv'
  OBVIOUS
<1>1. ASSUME NEW t \in Tasks, Program(t) PROVE IInv'
  <2>1. CASE Call(t) \/ Leave(t)
    BY <2>1
    DEF Call, Leave, Running, IInv, HandleTypes, HeldIsListedOrLost, ListedOrLostIsLive,
        HeldByOne, LiveIsListedOrLost, NoListOutside
  <2>2. CASE \E d \in Destructors : AddDestructor(t, d) \/ RemoveDestructor(t, d)
    BY <2>2
    DEF AddDestructor, RemoveDestructor, IInv, HandleTypes, HeldIsListedOrLost,
        ListedOrLostIsLive, HeldByOne, LiveIsListedOrLost, NoListOutside
  <2> QED
    BY <1>1, <2>1, <2>2, ObtainIInv, CloseIInv, FreeIInv, ReallocIInv, ReallocFailsIInv,
       ReallocfFailsIInv
    DEF Program, Open, Fopen, Alloc
<1>2. ASSUME NEW t \in Tasks, Teardown(t) PROVE IInv'
  <2>1. CASE CallDestructor(t)
    BY <2>1
    DEF CallDestructor, IInv, HandleTypes, HeldIsListedOrLost, ListedOrLostIsLive,
        HeldByOne, LiveIsListedOrLost, NoListOutside
  <2> QED BY <1>2, <2>1, ReleaseOneIInv, ReturnIInv DEF Teardown
<1>3. CASE UNCHANGED programVars
  BY <1>3
  DEF programVars, IInv, HandleTypes, HeldIsListedOrLost, ListedOrLostIsLive, HeldByOne,
      LiveIsListedOrLost, NoListOutside
<1> QED BY <1>1, <1>2, <1>3 DEF ProgramNext

LEMMA SpecIInv == ProgramSpec => []IInv
BY InitIInv, NextIInv, PTL DEF ProgramSpec

\* The wrappers and the teardown of rtems-program.c never close or free a handle
\* twice: what a list names is live, and no two lists name the same.
THEOREM ListsAreExact == ProgramSpec => []ListedIsLiveOnce
<1>1. IInv => ListedIsLiveOnce
  BY DEF IInv, HandleTypes, HeldIsListedOrLost, ListedOrLostIsLive, HeldByOne, ListedIsLiveOnce
<1> QED BY <1>1, SpecIInv, PTL

\* No other program's close or teardown takes away what a running program holds.
THEOREM HeldAlwaysStaysLive == ProgramSpec => []HeldStaysLive
<1>1. IInv => HeldStaysLive
  BY DEF IInv, HeldIsListedOrLost, ListedOrLostIsLive, HeldStaysLive
<1> QED BY <1>1, SpecIInv, PTL

\* When all calls of rtems_bsd_program_call have returned, everything is released
\* but the blocks of failed reallocs.
THEOREM NothingEverOutlives == ProgramSpec => []NothingOutlives
<1>1. IInv => NothingOutlives
  BY DEF IInv, LiveIsListedOrLost, NoListOutside, NothingOutlives
<1> QED BY <1>1, SpecIInv, PTL

\* The accounts of all programs are exact together.
THEOREM HandlesAlwaysAccounted == ProgramSpec => []HandlesAccounted
BY ListsAreExact, HeldAlwaysStaysLive, NothingEverOutlives, PTL DEF HandlesAccounted
-----------------------------------------------------------------------------
(* The list of destructors: adding, removing and calling one keep it exact *)

Elements(seq) == {seq[i] : i \in DOMAIN seq}

\* The list of destructors names each of D once.
Lists(seq, D) ==
  /\ seq \in Seq(Destructors) /\ Elements(seq) = D
  /\ \A i, j \in DOMAIN seq : seq[i] = seq[j] => i = j
  /\ IsFiniteSet(D) /\ Len(seq) = Cardinality(D)

ListsWhatIsDue ==
  /\ place \in [Tasks -> {"outside", "running", "teardown", "asserted"}]
  /\ destructors \in [Tasks -> Seq(Destructors)]
  /\ due \in [Tasks -> SUBSET Destructors]
  /\ \A t \in Tasks : Lists(destructors[t], due[t])

LEMMA ListPushed ==
  ASSUME NEW seq, NEW D, Lists(seq, D), NEW d \in Destructors, d \notin D
  PROVE  Lists(<<d>> \o seq, D \cup {d})
<1> USE DEF Lists
<1> DEFINE new == <<d>> \o seq
<1>1. /\ new \in Seq(Destructors) /\ Len(new) = Len(seq) + 1
      /\ \A i \in 1..Len(seq) + 1 : new[i] = IF i = 1 THEN d ELSE seq[i - 1]
      /\ Len(seq) \in Nat
  OBVIOUS
<1> HIDE DEF new
<1>2. \A i \in DOMAIN seq : seq[i] = new[i + 1] /\ i + 1 \in DOMAIN new
  BY <1>1
<1>3. new[1] = d /\ 1 \in DOMAIN new
  BY <1>1
<1>4. Elements(new) = D \cup {d}
  <2>1. Elements(new) \subseteq D \cup {d}
    BY <1>1 DEF Elements
  <2>2. D \cup {d} \subseteq Elements(new)
    BY <1>2, <1>3 DEF Elements
  <2> QED BY <2>1, <2>2
<1>5. ASSUME NEW i \in DOMAIN new, NEW j \in DOMAIN new, new[i] = new[j] PROVE i = j
  <2>1. \A k \in DOMAIN new : k # 1 => new[k] \in D /\ new[k] = seq[k - 1] /\ k - 1 \in DOMAIN seq
    BY <1>1 DEF Elements
  <2> QED BY <1>1, <1>3, <1>5, <2>1
<1>6. IsFiniteSet(D \cup {d}) /\ Cardinality(D \cup {d}) = Cardinality(D) + 1
  BY FS_AddElement
<1> QED BY <1>1, <1>4, <1>5, <1>6 DEF new

LEMMA ListUnlinked ==
  ASSUME NEW seq, NEW D, Lists(seq, D), NEW d \in D
  PROVE  Lists(Unlink(seq, d), D \ {d})
<1> USE DEF Lists
<1> DEFINE where == CHOOSE i \in DOMAIN seq : seq[i] = d
           new == [i \in 1..Len(seq) - 1 |-> IF i < where THEN seq[i] ELSE seq[i + 1]]
<1>1. where \in DOMAIN seq /\ seq[where] = d /\ Len(seq) \in Nat /\ Len(seq) > 0
      /\ DOMAIN seq = 1..Len(seq)
  BY DEF Elements
<1>2. Unlink(seq, d) = new
  BY DEF Unlink
<1> HIDE DEF where
<1>3. \A i \in 1..Len(seq) - 1 : new[i] = IF i < where THEN seq[i] ELSE seq[i + 1]
  OBVIOUS
<1>4. new \in Seq(Destructors) /\ DOMAIN new = 1..Len(seq) - 1 /\ Len(new) = Len(seq) - 1
  BY <1>1
<1> HIDE DEF new
<1>5. ASSUME NEW i \in DOMAIN new
      PROVE  \E k \in DOMAIN seq : k # where /\ new[i] = seq[k] /\ k = IF i < where THEN i ELSE i + 1
  BY <1>1, <1>3, <1>4
<1>6. ASSUME NEW k \in DOMAIN seq, k # where
      PROVE  \E i \in DOMAIN new : new[i] = seq[k]
  <2>1. CASE k < where
    BY <1>1, <1>3, <1>4, <2>1
  <2>2. CASE k > where
    <3>1. k - 1 \in DOMAIN new /\ ~(k - 1 < where) /\ (k - 1) + 1 = k
      BY <1>1, <1>4, <2>2
    <3> QED BY <3>1, <1>3, <1>4
  <2> QED BY <1>1, <1>6, <2>1, <2>2
<1>7. Elements(new) = D \ {d}
  <2>1. Elements(new) \subseteq D \ {d}
    BY <1>1, <1>5 DEF Elements
  <2>2. D \ {d} \subseteq Elements(new)
    BY <1>1, <1>6 DEF Elements
  <2> QED BY <2>1, <2>2
<1>8. ASSUME NEW i \in DOMAIN new, NEW j \in DOMAIN new, new[i] = new[j] PROVE i = j
  <2>1. PICK k \in DOMAIN seq : new[i] = seq[k] /\ k = IF i < where THEN i ELSE i + 1
    BY <1>5
  <2>2. PICK l \in DOMAIN seq : new[j] = seq[l] /\ l = IF j < where THEN j ELSE j + 1
    BY <1>5
  <2>3. k = l
    BY <1>8, <2>1, <2>2
  <2> QED BY <1>1, <1>4, <2>1, <2>2, <2>3
<1>9. IsFiniteSet(D \ {d}) /\ Cardinality(D \ {d}) = Cardinality(D) - 1
  BY FS_RemoveElement
<1> QED BY <1>1, <1>2, <1>4, <1>7, <1>8, <1>9

LEMMA ListPopped ==
  ASSUME NEW seq, NEW D, Lists(seq, D), seq # <<>>
  PROVE  Lists(Rest(seq), D \ {Head(seq)})
<1> USE DEF Lists
<1> DEFINE new == Tail(seq)
           d == Head(seq)
<1>1. /\ new \in Seq(Destructors) /\ Len(new) = Len(seq) - 1 /\ Len(seq) \in Nat /\ Len(seq) > 0
      /\ \A i \in 1..Len(seq) - 1 : new[i] = seq[i + 1]
      /\ d = seq[1] /\ 1 \in DOMAIN seq
  OBVIOUS
<1> HIDE DEF new, d
<1>2. \A i \in DOMAIN new : i + 1 \in DOMAIN seq /\ new[i] = seq[i + 1] /\ i + 1 # 1
  BY <1>1
<1>3. \A k \in DOMAIN seq : k # 1 => k - 1 \in DOMAIN new /\ new[k - 1] = seq[k]
  BY <1>1
<1>4. Elements(new) = D \ {d}
  <2>1. Elements(new) \subseteq D \ {d}
    BY <1>1, <1>2 DEF Elements
  <2>2. D \ {d} \subseteq Elements(new)
    BY <1>1, <1>3 DEF Elements
  <2> QED BY <2>1, <2>2
<1>5. ASSUME NEW i \in DOMAIN new, NEW j \in DOMAIN new, new[i] = new[j] PROVE i = j
  BY <1>1, <1>2, <1>5
<1>6. d \in D
  BY <1>1 DEF Elements
<1>7. IsFiniteSet(D \ {d}) /\ Cardinality(D \ {d}) = Cardinality(D) - 1
  BY <1>6, FS_RemoveElement
<1> QED BY <1>1, <1>4, <1>5, <1>7 DEF Rest, new, d

LEMMA InitListsWhatIsDue == ProgramInit => ListsWhatIsDue
<1>1. Lists(<<>>, {})
  BY FS_EmptySet DEF Lists, Elements
<1> QED BY <1>1 DEF ProgramInit, ListsWhatIsDue

\* A wrapper or a release changes no destructors, and the three operations on the
\* list keep it exact.
LEMMA NextListsWhatIsDue == ListsWhatIsDue /\ [ProgramNext]_programVars => ListsWhatIsDue'
<1> SUFFICES ASSUME ListsWhatIsDue, [ProgramNext]_programVars PROVE ListsWhatIsDue'
  OBVIOUS
<1> USE DEF ListsWhatIsDue
<1>1. CASE UNCHANGED programVars
  BY <1>1 DEF programVars
<1>2. ASSUME NEW t \in Tasks, NEW d \in Destructors, AddDestructor(t, d) PROVE ListsWhatIsDue'
  <2>1. Lists(<<d>> \o destructors[t], due[t] \cup {d})
    BY <1>2, ListPushed DEF AddDestructor
  <2>2. \A u \in Tasks : Lists(destructors'[u], due'[u])
    BY <1>2, <2>1 DEF AddDestructor
  <2>3. destructors' \in [Tasks -> Seq(Destructors)]
    BY <1>2, <2>1 DEF AddDestructor, Lists
  <2> QED BY <1>2, <2>2, <2>3 DEF AddDestructor
<1>3. ASSUME NEW t \in Tasks, NEW d \in Destructors, RemoveDestructor(t, d) PROVE ListsWhatIsDue'
  <2>1. Lists(Unlink(destructors[t], d), due[t] \ {d})
    BY <1>3, ListUnlinked DEF RemoveDestructor
  <2>2. \A u \in Tasks : Lists(destructors'[u], due'[u])
    BY <1>3, <2>1 DEF RemoveDestructor
  <2>3. destructors' \in [Tasks -> Seq(Destructors)]
    BY <1>3, <2>1 DEF RemoveDestructor, Lists
  <2> QED BY <1>3, <2>2, <2>3 DEF RemoveDestructor
<1>4. ASSUME NEW t \in Tasks, CallDestructor(t) PROVE ListsWhatIsDue'
  <2>1. Lists(Rest(destructors[t]), due[t] \ {Head(destructors[t])})
    BY <1>4, ListPopped DEF CallDestructor
  <2>2. \A u \in Tasks : Lists(destructors'[u], due'[u])
    BY <1>4, <2>1 DEF CallDestructor
  <2>3. destructors' \in [Tasks -> Seq(Destructors)]
    BY <1>4, <2>1 DEF CallDestructor, Lists
  <2> QED BY <1>4, <2>2, <2>3 DEF CallDestructor
<1>5. ASSUME NEW t \in Tasks,
             \/ Call(t) \/ Leave(t) \/ Return(t) \/ \E h \in Handles : ReleaseOne(t, h)
             \/ \E h \in Handles : Open(t, h) \/ Fopen(t, h) \/ Alloc(t, h) \/ Close(t, h)
             \/ \E b \in Blocks : \/ Free(t, b) \/ ReallocFails(t, b) \/ ReallocfFails(t, b)
                                  \/ \E c \in Blocks : Realloc(t, b, c)
      PROVE  ListsWhatIsDue'
  <2>1. UNCHANGED <<destructors, due>>
        /\ place' \in [Tasks -> {"outside", "running", "teardown", "asserted"}]
    BY <1>5
    DEF Call, Leave, Return, ReleaseOne, Open, Fopen, Alloc, Obtain, Close, Free, ReallocFails,
        ReallocfFails, Realloc
  <2> QED BY <2>1
<1> QED BY <1>1, <1>2, <1>3, <1>4, <1>5 DEF ProgramNext, Program, Teardown

\* Every list of a control block holds what it should: destructors are called as
\* often as they were added and not removed.
THEOREM DestructorsAreCalledOnce == ProgramSpec => []DestructorsDue
<1>1. ListsWhatIsDue => DestructorsDue
  BY DEF ListsWhatIsDue, Lists, Elements, DestructorsDue
<1> QED BY <1>1, InitListsWhatIsDue, NextListsWhatIsDue, PTL DEF ProgramSpec

\* Every variable of rtems-program.c's model has its type, and the list of
\* destructors names exactly those that are due.
THEOREM ProgramTypeCorrect == ProgramSpec => []ProgramTypeOK
<1>1. IInv /\ ListsWhatIsDue => ProgramTypeOK
  BY DEF IInv, HandleTypes, ListsWhatIsDue, Lists, Elements, DestructorsDue, ProgramTypeOK
<1>2. ProgramSpec => []ListsWhatIsDue
  BY InitListsWhatIsDue, NextListsWhatIsDue, PTL DEF ProgramSpec
<1> QED BY <1>1, <1>2, SpecIInv, PTL

-----------------------------------------------------------------------------
(* NtpqSession, for any callers and commands.  The output a caller finds   *)
(* in the shared buffer is its own, because nothing else writes there      *)
(* while the mutex is held.                                                *)

\* While a query holds the mutex, the buffer has nothing in it but its output.
ContentIsOwn ==
  \A t \in Callers :
    /\ at[t] = "query" => content = None
    /\ at[t] = "handled" => content \in {None, command[t]}

SessionInv == SessionTypeOK /\ EnvironmentIsWhole /\ ContentIsOwn /\ AnswerIsOwn

LEMMA InitSessionInv == SessionInit => SessionInv
<1> SUFFICES ASSUME SessionInit PROVE SessionInv
  OBVIOUS
<1>1. \A t \in Callers : at[t] = "prompt"
  BY DEF SessionInit
<1>2. lock = {t \in Callers : at[t] \in {"query", "fault", "handled"}}
  BY <1>1 DEF SessionInit
<1>3. SessionTypeOK
  <2>1. 0 \in Commands /\ 0 \in 0..MaxCreate /\ 0 \in 0..MaxQuery
    BY BoundsAssumption DEF Commands
  <2>2. \A t, u \in lock : t = u
    BY DEF SessionInit
  <2> HIDE DEF Commands
  <2> QED BY <1>2, <2>1, <2>2 DEF SessionInit, SessionTypeOK, None
<1> QED
  BY <1>1, <1>3 DEF SessionInit, SessionInv, EnvironmentIsWhole, ContentIsOwn, AnswerIsOwn

\* A task that waits for no one takes the next number for its command.
LEMMA EnterType ==
  ASSUME SessionTypeOK, NEW t \in Callers, Enter(t)
  PROVE  /\ given + 1 \in Commands /\ given + 1 # None /\ given' \in 0..MaxQuery
         /\ command' \in [Callers -> Commands] /\ printed' \in [Callers -> Commands]
         /\ command' = [command EXCEPT ![t] = given + 1]
         /\ at[t] = "prompt"
BY BoundsAssumption DEF Enter, SessionTypeOK, Commands, None

\* Library calls that find an error change at most the buffer's content.
LEMMA ErrorSessionInv ==
  ASSUME SessionInv, NEW t \in Callers,
         \/ CreateAgain(t) \/ CreateNoMemory(t) \/ CreateNoStream(t)
         \/ QueryRefused(t) \/ QueryInvalid(t)
  PROVE  SessionInv'
<1> USE DEF SessionInv
<1>1. Enter(t) /\ lock = {} /\ Error(t)
  BY DEF CreateAgain, CreateNoMemory, CreateNoStream, QueryRefused, QueryInvalid, MutexFree
<1>2. /\ given + 1 \in Commands /\ given' \in 0..MaxQuery /\ at[t] = "prompt"
      /\ command' \in [Callers -> Commands] /\ printed' \in [Callers -> Commands]
      /\ command' = [command EXCEPT ![t] = given + 1]
  BY <1>1, EnterType
<1>3. at' = [at EXCEPT ![t] = "error"] /\ errorText' = given + 1
  BY <1>1 DEF Error, Goto
<1>4. UNCHANGED <<openStream, session, lock, answer, pointer>> /\ sized' \in BOOLEAN
  BY DEF SessionTypeOK, CreateAgain, CreateNoMemory, CreateNoStream, QueryRefused, QueryInvalid
<1>5. content' \in {content, None}
  BY DEF CreateAgain, CreateNoMemory, CreateNoStream, QueryRefused, QueryInvalid, ClearContent
<1>6. /\ created' \in 0..MaxCreate
      /\ \/ buffer' = buffer /\ outputfp' = outputfp
         \/ buffer = None /\ buffer' = None /\ outputfp' = None
  BY BoundsAssumption
  DEF CreateAgain, CreateNoMemory, CreateNoStream, QueryRefused, QueryInvalid, DropBuffer,
      SessionTypeOK
<1>7. SessionTypeOK'
  BY <1>1, <1>2, <1>3, <1>4, <1>5, <1>6, BoundsAssumption DEF SessionTypeOK, Commands, None
<1>8. EnvironmentIsWhole'
  BY <1>4, <1>6 DEF EnvironmentIsWhole
<1>9. ContentIsOwn' /\ AnswerIsOwn'
  BY <1>1, <1>2, <1>3, <1>4, <1>5 DEF ContentIsOwn, AnswerIsOwn, SessionTypeOK
<1> QED BY <1>7, <1>8, <1>9

LEMMA EnvironmentSessionInv ==
  ASSUME SessionInv, NEW t \in Callers, Create(t) \/ Destroy(t)
  PROVE  SessionInv'
<1> USE DEF SessionInv
<1>1. Enter(t) /\ lock = {} /\ UNCHANGED <<errorText, lock, at, answer, pointer>>
  BY DEF Create, Destroy, MutexFree
<1>2. /\ given' \in 0..MaxQuery /\ at[t] = "prompt"
      /\ command' \in [Callers -> Commands] /\ printed' \in [Callers -> Commands]
      /\ command' = [command EXCEPT ![t] = given + 1]
  BY <1>1, EnterType
<1>3. content' \in Commands /\ session' = {} /\ created' \in 0..MaxCreate
  BY BoundsAssumption
  DEF Create, Destroy, ForgetSession, EndSession, SessionTypeOK, Commands, None
<1>3a. sized' \in BOOLEAN
  BY Zenon DEF Create, Destroy, SessionTypeOK
<1>4. /\ buffer' \in 0..MaxCreate /\ outputfp' \in 0..MaxCreate /\ openStream' = buffer'
      /\ buffer' # None => outputfp' = buffer'
  BY BoundsAssumption DEF Create, Destroy, SessionTypeOK, EnvironmentIsWhole, None
<1>5. SessionTypeOK'
  BY <1>1, <1>2, <1>3, <1>3a, <1>4 DEF SessionTypeOK
<1>6. EnvironmentIsWhole'
  BY <1>3, <1>4 DEF EnvironmentIsWhole
<1>7. ContentIsOwn' /\ AnswerIsOwn'
  BY <1>1, <1>2 DEF ContentIsOwn, AnswerIsOwn, SessionTypeOK
<1> QED BY <1>5, <1>6, <1>7

\* The mutex keeps all others out while a query is answered.
LEMMA QuerySessionInv ==
  ASSUME SessionInv, NEW t \in Callers, QueryStarts(t) \/ QueryFaults(t) \/ Handler(t) \/ QueryReturns(t)
  PROVE  SessionInv'
<1> USE DEF SessionInv
<1>1. CASE QueryStarts(t)
  <2>1. /\ given' \in 0..MaxQuery /\ at[t] = "prompt"
        /\ command' \in [Callers -> Commands] /\ printed' \in [Callers -> Commands]
        /\ command' = [command EXCEPT ![t] = given + 1]
    BY <1>1, EnterType DEF QueryStarts
  <2>2. /\ lock = {} /\ lock' = {t} /\ at' = [at EXCEPT ![t] = "query"] /\ content' = None
        /\ UNCHANGED <<buffer, sized, outputfp, openStream, errorText, session, answer, pointer,
                       created>>
    BY <1>1 DEF QueryStarts, MutexFree, Goto, ClearContent
  <2>3. SessionTypeOK'
    BY <2>1, <2>2, BoundsAssumption DEF SessionTypeOK, Commands, None
  <2> QED
    BY <2>1, <2>2, <2>3 DEF EnvironmentIsWhole, ContentIsOwn, AnswerIsOwn, SessionTypeOK
<1>2. CASE Handler(t)
  <2>1. /\ at[t] = "query" /\ lock = {t} /\ at' = [at EXCEPT ![t] = "handled"]
        /\ session' \subseteq {buffer} /\ content' \in {None, command[t]}
        /\ UNCHANGED <<buffer, sized, outputfp, openStream, errorText, lock, command, answer,
                       pointer, printed, created, given>>
    BY <1>2 DEF Handler, Goto, ContentIsOwn, SessionTypeOK, EnvironmentIsWhole
  <2>2. SessionTypeOK'
    BY <2>1, BoundsAssumption DEF SessionTypeOK, Commands, None
  <2> QED
    BY <2>1, <2>2 DEF EnvironmentIsWhole, ContentIsOwn, AnswerIsOwn, SessionTypeOK
<1>3. CASE QueryReturns(t)
  <2>1. /\ at[t] = "handled" /\ lock = {t} /\ lock' = {} /\ at' = [at EXCEPT ![t] = "answered"]
        /\ content \in {None, command[t]} /\ answer' = [answer EXCEPT ![t] = content]
        /\ UNCHANGED <<buffer, sized, outputfp, openStream, content, errorText, session, command,
                       pointer, printed, created, given>>
    BY <1>3 DEF QueryReturns, Goto, ContentIsOwn, SessionTypeOK
  <2>2. SessionTypeOK'
    BY <2>1 DEF SessionTypeOK
  <2> QED
    BY <2>1, <2>2 DEF EnvironmentIsWhole, ContentIsOwn, AnswerIsOwn, SessionTypeOK
<1>4. CASE QueryFaults(t)
  <2>1. /\ given' \in 0..MaxQuery /\ at[t] = "prompt"
        /\ command' \in [Callers -> Commands] /\ printed' \in [Callers -> Commands]
        /\ command' = [command EXCEPT ![t] = given + 1]
    BY <1>4, EnterType DEF QueryFaults
  <2>2. /\ lock = {} /\ lock' = {t} /\ at' = [at EXCEPT ![t] = "fault"]
        /\ UNCHANGED <<buffer, sized, outputfp, openStream, content, errorText, session, answer,
                       pointer, created>>
    BY <1>4 DEF QueryFaults, MutexFree, Goto
  <2>3. SessionTypeOK'
    BY <2>1, <2>2 DEF SessionTypeOK
  <2> QED
    BY <2>1, <2>2, <2>3 DEF EnvironmentIsWhole, ContentIsOwn, AnswerIsOwn, SessionTypeOK
<1> QED BY <1>1, <1>2, <1>3, <1>4

\* The shell prints without the mutex, and changes nothing others use.
LEMMA ShellSessionInv ==
  ASSUME SessionInv, NEW t \in Callers, GetOutput(t) \/ PrintOutput(t) \/ PrintError(t)
  PROVE  SessionInv'
<1> USE DEF SessionInv
<1>1. /\ at[t] \in {"answered", "print", "error"} /\ at' = [at EXCEPT ![t] = at'[t]]
      /\ at'[t] \in {"print", "prompt"} /\ (at'[t] = "print" => at[t] = "answered")
      /\ UNCHANGED <<buffer, sized, outputfp, openStream, content, errorText, session, lock,
                     command, answer, created, given>>
  BY DEF GetOutput, PrintOutput, PrintError, Goto, SessionTypeOK
<1>2. pointer' \in [Callers -> 0..MaxCreate] /\ printed' \in [Callers -> Commands]
  BY BoundsAssumption DEF GetOutput, PrintOutput, PrintError, SessionTypeOK, Commands, None
<1>3. SessionTypeOK'
  BY <1>1, <1>2 DEF SessionTypeOK
<1> QED BY <1>1, <1>3 DEF EnvironmentIsWhole, ContentIsOwn, AnswerIsOwn, SessionTypeOK

LEMMA NextSessionInv == SessionInv /\ [SessionNext]_sessionVars => SessionInv'
<1> SUFFICES ASSUME SessionInv, [SessionNext]_sessionVars PROVE SessionInv'
  OBVIOUS
<1>1. CASE UNCHANGED sessionVars
  BY <1>1
  DEF sessionVars, SessionInv, SessionTypeOK, EnvironmentIsWhole, ContentIsOwn, AnswerIsOwn
<1> QED
  BY <1>1, ErrorSessionInv, EnvironmentSessionInv, QuerySessionInv, ShellSessionInv
  DEF SessionNext

LEMMA AlwaysSessionInv == SessionSpec => []SessionInv
BY InitSessionInv, NextSessionInv, PTL DEF SessionSpec

\* ntpq_lock is with one query at most, and only while it runs.
THEOREM SessionTypeCorrect == SessionSpec => []SessionTypeOK
BY AlwaysSessionInv, PTL DEF SessionInv

\* Whatever rtems_ntpq_create() and rtems_ntpq_destroy() do and fail to do, buffer
\* and stream are there together or not at all, and a session is never handed on
\* to an environment it was not begun in.
THEOREM EnvironmentIsAlwaysWhole == SessionSpec => []EnvironmentIsWhole
BY AlwaysSessionInv, PTL DEF SessionInv

\* rtems_ntpq_query() hands its caller nothing of another's output, with any
\* number of tasks at once.
THEOREM AnswersAreOwn == SessionSpec => []AnswerIsOwn
BY AlwaysSessionInv, PTL DEF SessionInv

-----------------------------------------------------------------------------
(* NtpqQuery, for any replies, cuts, losses, duplicates and interrupts.    *)
(* What the client has put together are octets of replies to the request   *)
(* it waits on, and the fragments it lists reach no further than them.     *)

\* Every fragment in the network is part of a reply to the request it names,
\* and one without more behind it reaches to the end of the reply.
ResponsesAreTrue ==
  \A p \in responses :
    /\ p.reply \in DOMAIN replies /\ replies[p.reply].seq = p.seq
    /\ ~p.err => /\ p.off + p.cnt <= replies[p.reply].size
                 /\ p.more \/ p.off + p.cnt = replies[p.reply].size

\* The replies to the request the client waits on, or has just been answered.
Replied == {r \in DOMAIN replies : replies[r].seq = sequence}

Assembling == phase \in {"collect", "recv"} \/ Answered

FragsFitBuffer == \A f \in frags : f.off + f.cnt <= BufSize

\* What the client has put together is out of such replies.
OctetsAreOwn ==
  Assembling => \A f \in frags : \A o \in Extent(f) : pktdata[o] \in Replied

FragsAreOwn ==
  Assembling => \A f \in frags : \E r \in Replied : f.off + f.cnt <= replies[r].size

\* The last fragment was seen unless a signal pretended it.
LastWasSeen ==
  Assembling /\ seenlastfrag /\ ~interrupted =>
    \E f \in frags, r \in Replied : f.off + f.cnt = replies[r].size

AnswerHasNoHoles ==
  Answered => seenlastfrag /\ NoHoles(frags) /\ rsize = Cardinality(Covered(frags))

QueryInv ==
  /\ QueryTypeOK
  /\ ResponsesAreTrue
  /\ FragsFitBuffer
  /\ OctetsAreOwn
  /\ FragsAreOwn
  /\ LastWasSeen
  /\ AnswerHasNoHoles

\* What has no holes is as long as the fragments reach.
LEMMA SizeOfAnswer ==
  ASSUME NEW F \in SUBSET [off : Nat, cnt : Nat], NoHoles(F),
         NEW bound \in Nat, \A f \in F : f.off + f.cnt <= bound
  PROVE  /\ Cardinality(Covered(F)) \in 0 .. bound
         /\ Covered(F) = 0 .. Cardinality(Covered(F)) - 1
         /\ \A f \in F : f.off + f.cnt <= Cardinality(Covered(F))
<1> DEFINE size == Cardinality(Covered(F))
<1>1. Covered(F) \subseteq 0 .. bound - 1
  BY DEF Covered, Extent
<1>2. size \in Nat
  <2>1. IsFiniteSet(0 .. bound - 1)
    BY FS_Interval
  <2> QED BY <1>1, <2>1, FS_Subset, FS_CardinalityType
<1>3. Covered(F) = 0 .. size - 1 /\ \A f \in F : f.off <= size
  BY DEF NoHoles
<1> HIDE DEF size
<1>4. size <= bound
  <2>1. CASE size > bound
    <3>1. bound \in 0 .. size - 1
      BY <1>2, <2>1
    <3> QED BY <3>1, <1>1, <1>3
  <2> QED BY <1>2, <2>1
<1>5. ASSUME NEW f \in F PROVE f.off + f.cnt <= size
  <2>1. f.off \in Nat /\ f.cnt \in Nat /\ f.off <= size
    BY <1>3
  <2>2. CASE f.cnt = 0
    BY <2>1, <2>2, <1>2
  <2>3. CASE f.cnt > 0
    <3>1. f.off + f.cnt - 1 \in Extent(f)
      BY <2>1, <2>3 DEF Extent
    <3>2. f.off + f.cnt - 1 \in 0 .. size - 1
      BY <3>1, <1>3 DEF Covered
    <3> QED BY <3>2, <2>1, <1>2
  <2> QED BY <2>1, <2>2, <2>3
<1> QED BY <1>2, <1>3, <1>4, <1>5 DEF size

\* An element of a sequence is of the sequence's kind.
LEMMA ElementType ==
  ASSUME NEW S, NEW s \in Seq(S), NEW n \in DOMAIN s
  PROVE  s[n] \in S
OBVIOUS

LEMMA QueryBounds == BufSize \in Nat \ {0} /\ MaxQueries \in Nat /\ MaxInterrupts \in Nat
BY QueryAssumption

LEMMA InitQueryInv == QueryInit => QueryInv
BY QueryAssumption
DEF QueryInit, QueryInv, QueryTypeOK, ResponsesAreTrue, FragsFitBuffer, OctetsAreOwn,
    FragsAreOwn, LastWasSeen, AnswerHasNoHoles, Assembling, Answered, Outcome, Offset

Packet == [seq : Nat, reply : Nat, off : Nat, cnt : Nat, more : BOOLEAN, err : BOOLEAN]

\* A fragment ctl_flushpkt() sends lies in its reply, and the last ends it.
LEMMA FragmentInReply ==
  ASSUME NEW r \in Nat, NEW seq \in Nat, NEW cut \in Layouts, NEW i \in DOMAIN cut,
         NEW p, p = Fragment(r, seq, cut, i)
  PROVE  /\ p \in Packet
         /\ p.seq = seq /\ p.reply = r
         /\ p.off + p.cnt <= cut[Len(cut)]
         /\ p.more \/ p.off + p.cnt = cut[Len(cut)]
<1>1. cut \in Seq(Nat) /\ Len(cut) \in DOMAIN cut /\ i \in 1 .. Len(cut)
  BY QueryAssumption
<1>2. cut[i] \in Nat /\ cut[Len(cut)] \in Nat /\ cut[i] <= cut[Len(cut)]
  BY <1>1, QueryAssumption
<1> DEFINE off == IF i = 1 THEN 0 ELSE cut[i - 1]
<1>3. off \in Nat /\ cut[i] - off \in Nat
  <2>1. CASE i = 1
    BY <2>1, <1>2
  <2>2. CASE i # 1
    <3>1. i - 1 \in DOMAIN cut /\ i - 1 <= i
      BY <2>2, <1>1
    <3>2. cut[i - 1] \in Nat /\ cut[i - 1] <= cut[i]
      BY <3>1, <1>1, QueryAssumption
    <3> QED BY <2>2, <3>2, <1>2
  <2> QED BY <2>1, <2>2
<1>4. off + (cut[i] - off) = cut[i]
  BY <1>2, <1>3
<1>5. i < Len(cut) \/ i = Len(cut)
  BY <1>1
<1> HIDE DEF off
<1>6. p = [seq |-> seq, reply |-> r, off |-> off, cnt |-> cut[i] - off,
           more |-> i < Len(cut), err |-> FALSE]
  BY DEF Fragment, off
<1>7. /\ p.seq = seq /\ p.reply = r /\ p.off = off /\ p.cnt = cut[i] - off
      /\ p.more = (i < Len(cut)) /\ p.err = FALSE
  BY <1>6
<1>8. p \in Packet
  BY <1>3, <1>6 DEF Packet
<1>9. p.off + p.cnt <= cut[Len(cut)]
  BY <1>2, <1>4, <1>7
<1>10. p.more \/ p.off + p.cnt = cut[Len(cut)]
  BY <1>4, <1>5, <1>7
<1> QED BY <1>7, <1>8, <1>9, <1>10

LEMMA ServeQueryInv ==
  ASSUME QueryInv, NEW seq \in requests, Serve(seq)
  PROVE  QueryInv'
<1> USE DEF QueryInv
<1>0. seq \in Nat /\ replies \in Seq([seq : Nat, size : Nat])
  BY DEF QueryTypeOK
<1>r. PICK r \in Nat : r = Len(replies) + 1
  BY <1>0
<1>1. seq \in Nat /\ r \in Nat /\ replies \in Seq([seq : Nat, size : Nat])
  BY <1>0
<1>2. PICK size \in Nat, sent \in SUBSET Packet :
        /\ replies' = Append(replies, [seq |-> seq, size |-> size])
        /\ responses' = responses \cup sent
        /\ \A p \in sent : /\ p.seq = seq /\ p.reply = r
                           /\ ~p.err => /\ p.off + p.cnt <= size
                                        /\ p.more \/ p.off + p.cnt = size
  <2>1. ASSUME NEW cut \in Layouts,
               responses' = responses \cup {Fragment(r, seq, cut, i) : i \in DOMAIN cut},
               replies' = Append(replies, [seq |-> seq, size |-> cut[Len(cut)]])
        PROVE  \E size \in Nat, sent \in SUBSET Packet :
                 /\ replies' = Append(replies, [seq |-> seq, size |-> size])
                 /\ responses' = responses \cup sent
                 /\ \A p \in sent : /\ p.seq = seq /\ p.reply = r
                                    /\ ~p.err => /\ p.off + p.cnt <= size
                                                 /\ p.more \/ p.off + p.cnt = size
    <3>1. cut[Len(cut)] \in Nat
      BY QueryAssumption
    <3> DEFINE sent == {Fragment(r, seq, cut, i) : i \in DOMAIN cut}
    <3>2. ASSUME NEW p \in sent
          PROVE  /\ p \in Packet /\ p.seq = seq /\ p.reply = r
                 /\ p.off + p.cnt <= cut[Len(cut)]
                 /\ p.more \/ p.off + p.cnt = cut[Len(cut)]
      <4>1. PICK i \in DOMAIN cut : p = Fragment(r, seq, cut, i)
        OBVIOUS
      <4>2. r \in Nat /\ seq \in Nat
        BY <1>1
      <4> QED BY <4>1, <4>2, FragmentInReply
    <3>3. /\ sent \in SUBSET Packet
          /\ \A p \in sent : /\ p.seq = seq /\ p.reply = r
                             /\ p.off + p.cnt <= cut[Len(cut)]
                             /\ p.more \/ p.off + p.cnt = cut[Len(cut)]
      BY <3>2
    <3> HIDE DEF sent
    <3>4. responses' = responses \cup sent
      BY <2>1 DEF sent
    <3> QED BY <2>1, <3>1, <3>3, <3>4
  <2>2. ASSUME responses' = responses \cup {ErrorPacket(r, seq)},
               replies' = Append(replies, [seq |-> seq, size |-> 0])
        PROVE  \E size \in Nat, sent \in SUBSET Packet :
                 /\ replies' = Append(replies, [seq |-> seq, size |-> size])
                 /\ responses' = responses \cup sent
                 /\ \A p \in sent : /\ p.seq = seq /\ p.reply = r
                                    /\ ~p.err => /\ p.off + p.cnt <= size
                                                 /\ p.more \/ p.off + p.cnt = size
    <3> DEFINE p == ErrorPacket(r, seq)
    <3>1. {p} \in SUBSET Packet
      BY <1>1 DEF ErrorPacket, Packet
    <3>2. p.seq = seq /\ p.reply = r /\ p.err
      BY DEF ErrorPacket
    <3> HIDE DEF p
    <3> QED BY <2>2, <3>1, <3>2 DEF p
  <2>3. CASE \E cut \in Layouts :
               /\ responses' = responses \cup {Fragment(r, seq, cut, i) : i \in DOMAIN cut}
               /\ replies' = Append(replies, [seq |-> seq, size |-> cut[Len(cut)]])
    BY <2>1, <2>3
  <2>4. CASE /\ responses' = responses \cup {ErrorPacket(r, seq)}
             /\ replies' = Append(replies, [seq |-> seq, size |-> 0])
    BY <2>2, <2>4
  <2>5. \/ \E cut \in Layouts :
             /\ responses' = responses \cup {Fragment(r, seq, cut, i) : i \in DOMAIN cut}
             /\ replies' = Append(replies, [seq |-> seq, size |-> cut[Len(cut)]])
        \/ /\ responses' = responses \cup {ErrorPacket(r, seq)}
           /\ replies' = Append(replies, [seq |-> seq, size |-> 0])
    BY <1>r DEF Serve
  <2> QED BY <2>3, <2>4, <2>5
<1>3. /\ replies' \in Seq([seq : Nat, size : Nat])
      /\ DOMAIN replies \subseteq DOMAIN replies' /\ r \in DOMAIN replies'
      /\ replies'[r] = [seq |-> seq, size |-> size]
      /\ \A q \in DOMAIN replies : replies'[q] = replies[q]
  BY <1>r, <1>1, <1>2
<1>4. QueryTypeOK'
  BY <1>1, <1>2, <1>3 DEF Serve, QueryTypeOK, Packet, client, counts
<1>5. ResponsesAreTrue'
  <2>1. ASSUME NEW p \in responses
        PROVE  /\ p.reply \in DOMAIN replies' /\ replies'[p.reply].seq = p.seq
               /\ ~p.err => /\ p.off + p.cnt <= replies'[p.reply].size
                            /\ p.more \/ p.off + p.cnt = replies'[p.reply].size
    BY <1>3 DEF ResponsesAreTrue
  <2>2. ASSUME NEW p \in sent
        PROVE  /\ p.reply \in DOMAIN replies' /\ replies'[p.reply].seq = p.seq
               /\ ~p.err => /\ p.off + p.cnt <= replies'[p.reply].size
                            /\ p.more \/ p.off + p.cnt = replies'[p.reply].size
    <3>1. replies'[r].seq = seq /\ replies'[r].size = size
      BY <1>3
    <3> QED BY <1>2, <1>3, <3>1
  <2> QED BY <1>2, <2>1, <2>2 DEF ResponsesAreTrue
<1>6. /\ Replied \subseteq Replied'
      /\ \A q \in Replied : replies'[q] = replies[q]
  BY <1>3 DEF Serve, client, Replied
<1>7. FragsFitBuffer' /\ AnswerHasNoHoles' /\ (Assembling' = Assembling)
  BY DEF Serve, client, counts, FragsFitBuffer, AnswerHasNoHoles, Assembling, Answered,
         NoHoles, Covered, Extent
<1>8. OctetsAreOwn' /\ FragsAreOwn' /\ LastWasSeen'
  BY <1>6, <1>7 DEF Serve, client, counts, OctetsAreOwn, FragsAreOwn, LastWasSeen, Extent
<1> QED BY <1>4, <1>5, <1>7, <1>8
\* getresponse() that fails takes the client out of the response, for another
\* attempt or for good.
LEMMA FinishReturns ==
  ASSUME QueryTypeOK, NEW res \in Outcome \ {"ok"}, Finish(res)
  PROVE  /\ phase' = "send" \/ (phase' = "idle" /\ result' # "ok")
         /\ sequence' \in Nat /\ done' \in BOOLEAN /\ result' \in Outcome
<1>1. sequence \in Nat /\ done \in BOOLEAN /\ result \in Outcome
  BY DEF QueryTypeOK
<1>2. CASE ~done /\ res \in {"timeout", "incomplete"}
  <2>1. /\ sequence' = IF res = "incomplete" THEN sequence + 1 ELSE sequence
        /\ done' = TRUE /\ phase' = "send" /\ result' = result
    BY <1>2 DEF Finish
  <2>2. sequence' \in Nat
    BY <1>1, <2>1
  <2> QED BY <1>1, <2>1, <2>2
<1>3. CASE ~(~done /\ res \in {"timeout", "incomplete"})
  BY <1>1, <1>3 DEF Finish, ReturnResult
<1> QED BY <1>2, <1>3

\* Steps outside the response: nothing of it is kept, or nothing changes.
LEMMA ClientQueryInv ==
  ASSUME QueryInv,
         Ask \/ Send \/ SendFails \/ SelectTimesOut \/ SelectReady \/ SelectFails \/ TimePasses
  PROVE  QueryInv'
<1> USE DEF QueryInv
<1>1. CASE Ask
  <2>1. queries' \in 0 .. MaxQueries /\ sequence' \in Nat /\ done' = FALSE /\ phase' = "send"
        /\ sends' = 0
    BY <1>1, QueryBounds DEF Ask, QueryTypeOK
  <2>2. UNCHANGED <<frags, seenlastfrag, late, pktdata, rsize, result, network, replies,
                    interrupts, interrupted>>
    BY <1>1 DEF Ask
  <2>3. QueryTypeOK'
    BY <2>1, <2>2 DEF network, QueryTypeOK
  <2> QED
    BY <2>1, <2>2, <2>3
    DEF network, ResponsesAreTrue, FragsFitBuffer, OctetsAreOwn, FragsAreOwn, LastWasSeen,
        AnswerHasNoHoles, Assembling, Answered
<1>5. CASE Send
  <2>1. QueryTypeOK'
    <3>1. sequence \in Nat /\ sends \in Nat /\ requests \subseteq Nat
      BY DEF QueryTypeOK
    <3>2. /\ phase' = "collect" /\ sends' \in Nat /\ requests' \subseteq Nat /\ frags' = {}
          /\ seenlastfrag' = FALSE /\ late' = FALSE /\ interrupted' = FALSE
          /\ rsize' \in 0 .. BufSize
      BY <1>5, <3>1, QueryBounds DEF Send
    <3>3. UNCHANGED <<sequence, done, pktdata, result, responses, replies, queries, interrupts>>
      BY <1>5 DEF Send
    <3> QED BY <3>2, <3>3 DEF QueryTypeOK
  <2>2. /\ frags' = {} /\ seenlastfrag' = FALSE /\ phase' = "collect"
        /\ UNCHANGED <<responses, replies>>
    BY <1>5 DEF Send
  <2> QED
    BY <2>1, <2>2
    DEF ResponsesAreTrue, FragsFitBuffer, OctetsAreOwn, FragsAreOwn, LastWasSeen,
        AnswerHasNoHoles, Answered
<1>2. CASE SendFails \/ SelectFails
  BY <1>2
  DEF SendFails, SelectFails, ReturnResult, network, counts, QueryTypeOK, ResponsesAreTrue,
      FragsFitBuffer, OctetsAreOwn, FragsAreOwn, LastWasSeen, AnswerHasNoHoles, Assembling,
      Answered, Outcome
<1>3. CASE SelectTimesOut
  <2>1. /\ phase' = "send" \/ (phase' = "idle" /\ result' # "ok")
        /\ sequence' \in Nat /\ done' \in BOOLEAN /\ result' \in Outcome
    BY <1>3, FinishReturns DEF SelectTimesOut, TimedOut, Outcome
  <2>2. UNCHANGED <<frags, seenlastfrag, late, pktdata, rsize, network, replies, counts>>
    BY <1>3 DEF SelectTimesOut
  <2>3. QueryTypeOK'
    BY <2>1, <2>2 DEF network, counts, QueryTypeOK
  <2> QED
    BY <2>1, <2>2, <2>3
    DEF network, ResponsesAreTrue, FragsFitBuffer, OctetsAreOwn, FragsAreOwn, LastWasSeen,
        AnswerHasNoHoles, Assembling, Answered
<1>4. CASE SelectReady \/ TimePasses
  <2>1. /\ phase \in {"collect", "recv"} /\ phase' \in {"collect", "recv"} /\ late' \in BOOLEAN
        /\ UNCHANGED <<sequence, done, frags, seenlastfrag, pktdata, rsize, result, network,
                       replies, counts>>
    BY <1>4 DEF SelectReady, TimePasses, QueryTypeOK
  <2>2. QueryTypeOK' /\ Replied' = Replied
    BY <2>1 DEF network, counts, QueryTypeOK, Replied
  <2> QED
    BY <2>1, <2>2
    DEF network, counts, ResponsesAreTrue, FragsFitBuffer, OctetsAreOwn, FragsAreOwn,
        LastWasSeen, AnswerHasNoHoles, Assembling, Answered, Extent
<1> QED BY <1>1, <1>2, <1>3, <1>4, <1>5

\* A packet too many, too late, ignored or in error ends the attempt, or leaves
\* what was put together as it is.
LEMMA DropQueryInv ==
  ASSUME QueryInv, NEW p \in responses, ReceiveLate(p) \/ ReceiveIgnored(p) \/ ReceiveError(p)
  PROVE  QueryInv'
<1> USE DEF QueryInv
<1>1. responses' \subseteq responses
  BY DEF ReceiveLate, ReceiveIgnored, ReceiveError, Taken
<1>2. ResponsesAreTrue'
  BY <1>1 DEF ReceiveLate, ReceiveIgnored, ReceiveError, ResponsesAreTrue
<1>3. CASE ReceiveIgnored(p)
  <2>1. /\ phase = "recv" /\ phase' = "collect"
        /\ UNCHANGED <<sequence, done, frags, seenlastfrag, late, pktdata, rsize, result,
                       requests, replies, counts>>
    BY <1>3 DEF ReceiveIgnored
  <2>2. QueryTypeOK' /\ Replied' = Replied
    BY <1>1, <2>1 DEF counts, QueryTypeOK, Replied
  <2> QED
    BY <1>2, <2>1, <2>2
    DEF counts, FragsFitBuffer, OctetsAreOwn, FragsAreOwn, LastWasSeen, AnswerHasNoHoles,
        Assembling, Answered, Extent
<1>4. CASE ReceiveLate(p) \/ ReceiveError(p)
  <2>1. /\ phase' = "send" \/ (phase' = "idle" /\ result' # "ok")
        /\ sequence' \in Nat /\ done' \in BOOLEAN /\ result' \in Outcome
    BY <1>4, FinishReturns DEF ReceiveLate, ReceiveError, TimedOut, Outcome
  <2>2. QueryTypeOK'
    BY <1>1, <1>4, <2>1 DEF ReceiveLate, ReceiveError, counts, QueryTypeOK
  <2> QED
    BY <1>2, <1>4, <2>1, <2>2
    DEF ReceiveLate, ReceiveError, FragsFitBuffer, OctetsAreOwn, FragsAreOwn, LastWasSeen,
        AnswerHasNoHoles, Assembling, Answered
<1> QED BY <1>3, <1>4

\* The label maybe_final, of any fragments that fit the buffer.
LEMMA MaybeFinalReturns ==
  ASSUME QueryTypeOK, FragsFitBuffer, phase # "idle",
         NEW F \in SUBSET [off : Nat, cnt : Nat], \A f \in F : f.off + f.cnt <= BufSize,
         NEW last \in BOOLEAN, MaybeFinal(F, last)
  PROVE  /\ phase' \in {"idle", "collect"} /\ sequence' = sequence /\ done' = done
         /\ rsize' \in 0 .. BufSize /\ result' \in Outcome
         /\ Answered' => last /\ NoHoles(F) /\ rsize' = Cardinality(Covered(F))
<1>1. CASE last /\ NoHoles(F)
  <2>1. Cardinality(Covered(F)) \in 0 .. BufSize
    BY <1>1, SizeOfAnswer, QueryAssumption
  <2> QED BY <1>1, <2>1 DEF MaybeFinal, Finish, ReturnResult, Outcome
<1>2. CASE ~(last /\ NoHoles(F))
  BY <1>2 DEF MaybeFinal, QueryTypeOK, Answered
<1> QED BY <1>1, <1>2

LEMMA ReceiveFragmentQueryInv ==
  ASSUME QueryInv, NEW p \in responses, ReceiveFragment(p)
  PROVE  QueryInv'
<1> USE DEF QueryInv
<1> DEFINE frag == [off |-> p.off, cnt |-> p.cnt]
<1>1. /\ p.off \in Nat /\ p.cnt \in Nat /\ p.reply \in Nat /\ p.more \in BOOLEAN
      /\ p.seq = sequence /\ ~p.err /\ p.off + p.cnt <= BufSize
      /\ phase = "recv"
  <2>1. p \in Packet
    BY DEF QueryTypeOK, Packet
  <2>2. Wanted(p) /\ ~p.err /\ ~(p.off + p.cnt > BufSize) /\ phase = "recv"
    BY DEF ReceiveFragment, Ignored, TooMuch
  <2> QED BY <2>1, <2>2, QueryAssumption DEF Wanted, Packet
<1>2. /\ p.reply \in Replied
      /\ p.off + p.cnt <= replies[p.reply].size
      /\ p.more \/ p.off + p.cnt = replies[p.reply].size
  BY <1>1 DEF ResponsesAreTrue, Replied
<1>3. /\ frags' = frags \cup {frag} /\ frag \in [off : Nat, cnt : Nat]
      /\ frags' \in SUBSET [off : Nat, cnt : Nat]
      /\ \A f \in frags' : f.off + f.cnt <= BufSize
      /\ seenlastfrag' \in BOOLEAN
  BY <1>1 DEF ReceiveFragment, QueryTypeOK, FragsFitBuffer
<1>4. /\ phase' \in {"idle", "collect"} /\ sequence' = sequence /\ done' = done
      /\ rsize' \in 0 .. BufSize /\ result' \in Outcome
      /\ Answered' => seenlastfrag' /\ NoHoles(frags') /\ rsize' = Cardinality(Covered(frags'))
  BY <1>1, <1>3, MaybeFinalReturns DEF ReceiveFragment
<1>5. responses' \subseteq responses /\ replies' = replies /\ Replied' = Replied
  BY <1>4 DEF ReceiveFragment, Taken, Replied
<1>6. QueryTypeOK'
  BY <1>1, <1>3, <1>4, <1>5 DEF ReceiveFragment, QueryTypeOK, counts
<1>7. ResponsesAreTrue' /\ FragsFitBuffer' /\ AnswerHasNoHoles'
  BY <1>3, <1>4, <1>5 DEF ResponsesAreTrue, FragsFitBuffer, AnswerHasNoHoles
<1>8. OctetsAreOwn'
  <2> SUFFICES ASSUME NEW f \in frags', NEW o \in Extent(f) PROVE pktdata'[o] \in Replied'
    BY DEF OctetsAreOwn, Extent
  <2>1. o \in Offset
    BY <1>3, QueryAssumption DEF Extent, Offset
  <2>2. CASE o \in Extent(p)
    BY <1>2, <1>5, <2>1, <2>2 DEF ReceiveFragment
  <2>3. CASE o \notin Extent(p)
    <3>1. f \in frags
      BY <1>3, <2>3 DEF Extent
    <3>2. pktdata[o] \in Replied
      BY <3>1, <1>1 DEF OctetsAreOwn, Assembling
    <3> QED BY <1>5, <2>1, <2>3, <3>2 DEF ReceiveFragment
  <2> QED BY <2>2, <2>3
<1>9. FragsAreOwn'
  BY <1>1, <1>2, <1>3, <1>5 DEF FragsAreOwn, Assembling
<1>10. LastWasSeen'
  <2> SUFFICES ASSUME seenlastfrag', ~interrupted'
               PROVE  \E f \in frags', r \in Replied' : f.off + f.cnt = replies'[r].size
    BY DEF LastWasSeen
  <2>1. CASE p.more
    <3>1. seenlastfrag /\ ~interrupted
      BY <2>1 DEF ReceiveFragment, counts
    <3>2. PICK f \in frags, r \in Replied : f.off + f.cnt = replies[r].size
      BY <3>1, <1>1 DEF LastWasSeen, Assembling
    <3> QED BY <3>2, <1>3, <1>5
  <2>2. CASE ~p.more
    <3>1. frag \in frags' /\ frag.off = p.off /\ frag.cnt = p.cnt
      BY <1>3
    <3>2. p.off + p.cnt = replies'[p.reply].size /\ p.reply \in Replied'
      BY <2>2, <1>2, <1>5
    <3> QED BY <3>1, <3>2
  <2> QED BY <2>1, <2>2
<1> QED BY <1>6, <1>7, <1>8, <1>9, <1>10

LEMMA InterruptedQueryInv ==
  ASSUME QueryInv, SelectInterrupted
  PROVE  QueryInv'
<1> USE DEF QueryInv
<1>1. /\ phase' \in {"idle", "collect"} /\ sequence' = sequence /\ done' = done
      /\ rsize' \in 0 .. BufSize /\ result' \in Outcome
      /\ Answered' => NoHoles(frags) /\ rsize' = Cardinality(Covered(frags))
  <2>1. phase # "idle" /\ frags \in SUBSET [off : Nat, cnt : Nat] /\ MaybeFinal(frags, TRUE)
    BY DEF SelectInterrupted, QueryTypeOK
  <2> QED BY <2>1, MaybeFinalReturns DEF FragsFitBuffer
<1>2. /\ frags' = frags /\ pktdata' = pktdata /\ replies' = replies /\ responses' = responses
      /\ seenlastfrag' = TRUE /\ interrupted' = TRUE
      /\ Replied' = Replied /\ Assembling
  BY <1>1 DEF SelectInterrupted, network, Replied, Assembling
<1>3. QueryTypeOK'
  <2>1. /\ interrupts' \in 0 .. MaxInterrupts
        /\ UNCHANGED <<late, network, queries, sends>>
    BY QueryAssumption DEF SelectInterrupted, QueryTypeOK
  <2> QED BY <1>1, <1>2, <2>1 DEF network, QueryTypeOK
<1>4. ResponsesAreTrue' /\ FragsFitBuffer' /\ AnswerHasNoHoles'
  BY <1>1, <1>2 DEF ResponsesAreTrue, FragsFitBuffer, AnswerHasNoHoles
<1>5. OctetsAreOwn' /\ FragsAreOwn' /\ LastWasSeen'
  BY <1>2 DEF OctetsAreOwn, FragsAreOwn, LastWasSeen, Extent
<1> QED BY <1>3, <1>4, <1>5

LEMMA NextQueryInv == QueryInv /\ [QueryNext]_queryVars => QueryInv'
<1> SUFFICES ASSUME QueryInv, [QueryNext]_queryVars PROVE QueryInv'
  OBVIOUS
<1>1. CASE UNCHANGED queryVars
  BY <1>1
  DEF queryVars, client, network, counts, QueryInv, QueryTypeOK, ResponsesAreTrue, FragsFitBuffer,
      OctetsAreOwn, FragsAreOwn, LastWasSeen, AnswerHasNoHoles, Assembling, Answered, Replied,
      NoHoles, Covered, Extent
<1>2. CASE Receive
  BY <1>2, DropQueryInv, ReceiveFragmentQueryInv DEF Receive
<1> QED
  BY <1>1, <1>2, ServeQueryInv, ClientQueryInv, InterruptedQueryInv DEF QueryNext

LEMMA AlwaysQueryInv == QuerySpec => []QueryInv
BY InitQueryInv, NextQueryInv, PTL DEF QuerySpec

\* doqueryex() and getresponse() keep their buffers in bounds: what was received
\* is never longer than pktdata, whatever the server sends.
THEOREM QueryTypeCorrect == QuerySpec => []QueryTypeOK
BY AlwaysQueryInv, PTL DEF QueryInv

\* What doqueryex() returns was sent as an answer to its last request, octet for
\* octet, however the network and signals treat the fragments.
THEOREM AnswerIsToThisRequest == QuerySpec => []AnswersThisRequest
<1>1. QueryInv => AnswersThisRequest
  <2> SUFFICES ASSUME QueryInv, Answered, NEW o \in 0 .. rsize - 1
               PROVE  pktdata[o] \in Replied
    BY DEF AnswersThisRequest, Origins, Replied
  <2>1. NoHoles(frags) /\ rsize = Cardinality(Covered(frags))
    BY DEF QueryInv, AnswerHasNoHoles
  <2>2. o \in Covered(frags)
    BY <2>1 DEF NoHoles
  <2> QED BY <2>2 DEF QueryInv, OctetsAreOwn, Assembling, Covered
<1> QED BY <1>1, AlwaysQueryInv, PTL

\* A reply that is the only one to the request is handed over whole.
THEOREM OneReplyIsAlwaysWhole == QuerySpec => []OneReplyIsWhole
<1>1. QueryInv => OneReplyIsWhole
  <2> SUFFICES ASSUME QueryInv, NEW r \in DOMAIN replies, Answered, ~interrupted,
                      replies[r].seq = sequence,
                      \A q \in DOMAIN replies : replies[q].seq = sequence => q = r
               PROVE  rsize = replies[r].size
    BY DEF OneReplyIsWhole
  <2> USE DEF QueryInv
  <2>1. Replied = {r} /\ Assembling
    BY DEF Replied, Assembling
  <2>2. replies[r].size \in Nat /\ frags \in SUBSET [off : Nat, cnt : Nat] /\ rsize \in Nat
    <3>1. replies \in Seq([seq : Nat, size : Nat]) /\ rsize \in 0 .. BufSize
      BY DEF QueryTypeOK
    <3>2. replies[r] \in [seq : Nat, size : Nat]
      BY <3>1, ElementType
    <3> QED BY <3>1, <3>2, QueryBounds DEF QueryTypeOK
  <2>3. \A f \in frags : f.off + f.cnt <= replies[r].size
    BY <2>1 DEF FragsAreOwn
  <2>4. \E f \in frags : f.off + f.cnt = replies[r].size
    BY <2>1 DEF LastWasSeen, AnswerHasNoHoles
  <2>5. NoHoles(frags) /\ rsize = Cardinality(Covered(frags))
    BY DEF AnswerHasNoHoles
  <2> QED BY <2>2, <2>3, <2>4, <2>5, SizeOfAnswer
<1> QED BY <1>1, AlwaysQueryInv, PTL
=============================================================================
