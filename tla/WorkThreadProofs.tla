-------------------------- MODULE WorkThreadProofs --------------------------
(***************************************************************************)
(* Proofs about WorkThread, for any number of lookups and any array        *)
(* increments: every state has its type, accesslock excludes the threads   *)
(* from each other, no thread uses a semaphore that is gone, no request    *)
(* and no answer is left unsignalled, and the worker implements            *)
(* BlockingService.                                                        *)
(*                                                                         *)
(* The heart of the argument: cleanup_after_child destroys the semaphores  *)
(* when it takes CHILD_GONE_RESP out of the response ring.  That response  *)
(* is in at most one slot, and while it is in one the worker has given     *)
(* back accesslock for the last time; so no worker is left to use them.    *)
(* The main thread comes back to them only if select() saw an octet in the *)
(* response pipe, which the cleanup has closed.                            *)
(*                                                                         *)
(* The second part follows each request from place to place: it is at one  *)
(* place at most and only while it is due, so taking an answer takes one   *)
(* off intres_req_pending; and the units of workitems_pending, the pipe    *)
(* and the ready counters cover what the sequencers count.  The third part *)
(* needs that the worker is told to leave only when nothing is pending,    *)
(* and that leftovers in a ring, which make an INSIST fail, come only from *)
(* a worker that has left.                                                 *)
(***************************************************************************)
EXTENDS WorkThread, FiniteSetTheorems, WellFoundedInduction, TLAPS

-----------------------------------------------------------------------------
(* The rings of WorkRing: each operation keeps a ring a ring, whatever the *)
(* sizes and the items, and changes what it holds by what it is given or   *)
(* gives.                                                                  *)

\* Every non-empty set of numbers up to a bound has a least element: by the
\* well-founded ordering of the sets of the numbers below each of them.
LEMMA LeastElement ==
  ASSUME NEW n \in Nat, NEW S \in SUBSET (0..n), S # {}
  PROVE  \E k \in S : \A j \in S : k <= j
<1> DEFINE Below(k) == {j \in 0..n : j < k}
           T == {Below(k) : k \in S}
<1>1. IsFiniteSet(0..n)
  BY FS_Interval
<1>2. IsWellFoundedOn(StrictSubsetOrdering(0..n), FiniteSubsetsOf(0..n))
  BY FS_StrictSubsetOrderingWellFounded
<1>3. T \subseteq FiniteSubsetsOf(0..n)
  BY <1>1, FS_Subset DEF FiniteSubsetsOf
<1>4. T # {}
  OBVIOUS
<1>5. PICK x \in T : \A y \in T : <<y, x>> \notin StrictSubsetOrdering(0..n)
  <2> HIDE DEF T
  <2> QED BY <1>2, <1>3, <1>4, WFMin
<1>6. PICK k \in S : x = Below(k)
  OBVIOUS
<1>7. ASSUME NEW j \in S, j < k PROVE FALSE
  <2>1. Below(j) \subseteq Below(k) /\ j \in Below(k) /\ j \notin Below(j)
    BY <1>7
  <2>2. Below(j) \in SUBSET (0..n) /\ Below(k) \in SUBSET (0..n)
    OBVIOUS
  <2>3. Below(j) \in T
    OBVIOUS
  <2> HIDE DEF Below, T
  <2>4. <<Below(j), Below(k)>> \in StrictSubsetOrdering(0..n)
    BY <2>1, <2>2 DEF StrictSubsetOrdering
  <2> QED BY <2>3, <2>4, <1>5, <1>6
<1> QED BY <1>7

\* The zeroed queue is a ring.
LEMMA NewRingIsRing ==
  ASSUME NEW S
  PROVE  IsRing(NewRing, S)
BY DEF IsRing, NewRing

\* Enlarging leaves a ring with room for one item.
LEMMA EnsureEmptySlotIsRing ==
  ASSUME NEW S, NEW q, IsRing(q, S), NEW inc \in Nat \ {0}
  PROVE  /\ IsRing(EnsureEmptySlot(q, inc), S)
         /\ HasRoom(EnsureEmptySlot(q, inc))
<1>1. CASE HasRoom(q)
  BY <1>1 DEF EnsureEmptySlot
<1>2. CASE ~HasRoom(q)
  <2> DEFINE e == EnsureEmptySlot(q, inc)
  <2>1. e = [alloc |-> q.alloc + inc,
             slot  |-> [i \in 0..(q.alloc + inc - 1) |->
                          IF i < q.alloc THEN q.slot[i] ELSE NULL],
             head  |-> q.alloc,
             tail  |-> 0]
    BY <1>2 DEF EnsureEmptySlot
  <2>2. q.alloc \in Nat /\ q.slot \in [0..(q.alloc - 1) -> S \cup {NULL}]
    BY DEF IsRing
  <2>3. e.slot \in [0..(e.alloc - 1) -> S \cup {NULL}]
    BY <2>1, <2>2
  <2> QED BY <2>1, <2>2, <2>3 DEF IsRing, HasRoom
<1> QED BY <1>1, <1>2

\* Storing an item where there is room leaves a ring.
LEMMA PutAtHeadIsRing ==
  ASSUME NEW S, NEW q, IsRing(q, S), HasRoom(q), NEW x \in S
  PROVE  IsRing(PutAtHead(q, x), S)
<1> DEFINE p == PutAtHead(q, x)
<1>1. q.alloc \in Nat /\ q.head \in Nat /\ q.tail \in Nat
      /\ q.tail <= q.head /\ q.head - q.tail < q.alloc
      /\ q.slot \in [0..(q.alloc - 1) -> S \cup {NULL}]
  BY DEF IsRing, HasRoom
<1>2. [q.slot EXCEPT ![HeadSlot(q)] = x] \in [0..(q.alloc - 1) -> S \cup {NULL}]
  BY <1>1
<1> QED BY <1>1, <1>2 DEF IsRing, PutAtHead

\* The sequence numbers of the items are in range, and First picks the least.
LEMMA FirstIsOccupied ==
  ASSUME NEW S, NEW q, IsRing(q, S), ~IsEmpty(q)
  PROVE  /\ First(q) \in Occupied(q)
         /\ \A j \in Occupied(q) : First(q) <= j
         /\ First(q) \in Nat /\ q.tail <= First(q) /\ First(q) < q.head
<1>1. Occupied(q) \in SUBSET (0..q.head) /\ q.head \in Nat
  BY DEF Occupied, IsRing
<1>2. \E k \in Occupied(q) : \A j \in Occupied(q) : k <= j
  BY <1>1, LeastElement DEF IsEmpty
<1>3. First(q) \in Occupied(q) /\ \A j \in Occupied(q) : First(q) <= j
  BY <1>2 DEF First
<1> QED BY <1>3 DEF Occupied, IsRing

\* The slot of an occupied sequence number is one of the array.
LEMMA OccupiedSlot ==
  ASSUME NEW S, NEW q, IsRing(q, S), NEW k \in Occupied(q)
  PROVE  /\ k % q.alloc \in 0..(q.alloc - 1)
         /\ q.slot[k % q.alloc] \in S /\ q.slot[k % q.alloc] # NULL
<1>1. k \in Nat /\ q.alloc \in Nat /\ q.alloc > 0
  BY DEF Occupied, IsRing
<1>2. k % q.alloc \in 0..(q.alloc - 1)
  BY <1>1
<1> QED BY <1>2 DEF Occupied, IsRing

\* What a consumer is given is an item, or NULL from an empty ring.
LEMMA TakenType ==
  ASSUME NEW S, NEW q, IsRing(q, S)
  PROVE  Taken(q) \in S \cup {NULL}
BY FirstIsOccupied, OccupiedSlot DEF Taken

\* Taking leaves a ring.
LEMMA AfterTakeIsRing ==
  ASSUME NEW S, NEW q, IsRing(q, S)
  PROVE  IsRing(AfterTake(q), S)
<1>1. q.alloc \in Nat /\ q.head \in Nat /\ q.tail \in Nat
      /\ q.tail <= q.head /\ q.head - q.tail <= q.alloc
      /\ q.slot \in [0..(q.alloc - 1) -> S \cup {NULL}]
  BY DEF IsRing
<1>2. CASE IsEmpty(q)
  BY <1>1, <1>2 DEF AfterTake, IsRing
<1>3. CASE ~IsEmpty(q)
  <2>1. [q.slot EXCEPT ![First(q) % q.alloc] = NULL]
          \in [0..(q.alloc - 1) -> S \cup {NULL}]
    BY <1>1
  <2>2. First(q) \in Nat /\ q.tail <= First(q) /\ First(q) < q.head
    BY <1>3, FirstIsOccupied
  <2> QED BY <1>1, <1>3, <2>1, <2>2 DEF AfterTake, IsRing
<1> QED BY <1>2, <1>3

\* Restarting the sequencers leaves a ring.
LEMMA ResetIndicesIsRing ==
  ASSUME NEW S, NEW q, IsRing(q, S)
  PROVE  IsRing(ResetIndices(q), S)
<1>1. q.alloc \in Nat /\ q.slot \in [0..(q.alloc - 1) -> S \cup {NULL}]
  BY DEF IsRing
<1> QED BY <1>1 DEF ResetIndices, IsRing

\* The slots after each operation: enlarging adds empty slots behind the others ...
LEMMA EnsureEmptySlotSlots ==
  ASSUME NEW S, NEW q, IsRing(q, S), NEW inc \in Nat \ {0},
         NEW i \in 0..(EnsureEmptySlot(q, inc).alloc - 1)
  PROVE  \/ EnsureEmptySlot(q, inc).slot[i] = NULL
         \/ i \in 0..(q.alloc - 1) /\ EnsureEmptySlot(q, inc).slot[i] = q.slot[i]
<1>1. q.alloc \in Nat
  BY DEF IsRing
<1> QED BY <1>1 DEF EnsureEmptySlot

\* ... storing changes the head slot, ...
LEMMA PutAtHeadSlots ==
  ASSUME NEW S, NEW q, IsRing(q, S), HasRoom(q), NEW x,
         NEW i \in 0..(PutAtHead(q, x).alloc - 1)
  PROVE  PutAtHead(q, x).slot[i] = IF i = HeadSlot(q) THEN x ELSE q.slot[i]
<1>1. DOMAIN q.slot = 0..(q.alloc - 1)
  BY DEF IsRing
<1> QED BY <1>1 DEF PutAtHead

\* ... and taking an item empties its slot.
LEMMA AfterTakeSlots ==
  ASSUME NEW S, NEW q, IsRing(q, S), ~IsEmpty(q)
  PROVE  /\ AfterTake(q).alloc = q.alloc
         /\ \A i \in 0..(q.alloc - 1) :
              AfterTake(q).slot[i]
                = IF i = First(q) % q.alloc THEN NULL ELSE q.slot[i]
<1>1. DOMAIN q.slot = 0..(q.alloc - 1)
  BY DEF IsRing
<1> QED BY <1>1 DEF AfterTake

\* What makes room in a ring keeps the number of items it counts.
LEMMA EnsureEmptySlotCount ==
  ASSUME NEW S, NEW q, IsRing(q, S), NEW inc \in Nat \ {0}
  PROVE  LET e == EnsureEmptySlot(q, inc) IN e.head - e.tail = q.head - q.tail
BY DEF EnsureEmptySlot, HasRoom, IsRing

\* A consumer that is given something emptied one slot and moved the tail.
LEMMA SomethingTaken ==
  ASSUME NEW S, NEW q, IsRing(q, S), Taken(q) # NULL
  PROVE  LET t == AfterTake(q) IN
         /\ t.alloc = q.alloc /\ t.head = q.head /\ q.tail < t.tail /\ t.tail <= t.head
         /\ \E f \in 0..(q.alloc - 1) :
              /\ q.slot[f] = Taken(q)
              /\ \A i \in 0..(q.alloc - 1) :
                   t.slot[i] = IF i = f THEN NULL ELSE q.slot[i]
<1>1. ~IsEmpty(q)
  BY DEF Taken
<1>2. /\ First(q) \in Occupied(q) /\ First(q) \in Nat
      /\ q.tail <= First(q) /\ First(q) < q.head
  BY <1>1, FirstIsOccupied
<1>3. First(q) % q.alloc \in 0..(q.alloc - 1)
  BY <1>2, OccupiedSlot
<1>4. q.slot[First(q) % q.alloc] = Taken(q)
  BY <1>1 DEF Taken
<1>5. AfterTake(q).alloc = q.alloc /\ AfterTake(q).head = q.head
      /\ AfterTake(q).tail = First(q) + 1
  BY <1>1 DEF AfterTake
<1>6. q.tail \in Nat /\ q.head \in Nat
  BY DEF IsRing
<1> QED BY <1>1, <1>2, <1>3, <1>4, <1>5, <1>6, AfterTakeSlots

\* A consumer that is given nothing leaves a ring that counts as empty.
LEMMA NothingTaken ==
  ASSUME NEW S, NEW q, IsRing(q, S), Taken(q) = NULL
  PROVE  /\ AfterTake(q).alloc = q.alloc /\ AfterTake(q).slot = q.slot
         /\ AfterTake(q).head = q.head /\ AfterTake(q).tail = q.head
<1>1. IsEmpty(q)
  <2>1. SUFFICES ASSUME ~IsEmpty(q) PROVE FALSE
    OBVIOUS
  <2>2. q.slot[First(q) % q.alloc] # NULL
    BY <2>1, FirstIsOccupied, OccupiedSlot
  <2> QED BY <2>1, <2>2 DEF Taken
<1> QED BY <1>1 DEF AfterTake

\* Sequencers that count nothing leave nothing to be taken.
LEMMA NothingCounted ==
  ASSUME NEW S, NEW q, IsRing(q, S), q.head = q.tail
  PROVE  IsEmpty(q)
<1>1. q.head \in Nat
  BY DEF IsRing
<1> QED BY <1>1 DEF IsEmpty, Occupied

\* A number has one quotient and one remainder.
LEMMA DivisionIsUnique ==
  ASSUME NEW a \in Nat \ {0}, NEW e \in Int, NEW i \in 0..(a - 1), NEW k \in Nat,
         k = a * e + i
  PROVE  k % a = i
<1> DEFINE d == k \div a
           m == k % a
<1>1. d \in Int /\ m \in 0..(a - 1) /\ k = a * d + m
  OBVIOUS
<1> HIDE DEF d, m
<1>2. a * (e - d) = m - i
  BY <1>1
<1>3. CASE e > d
  <2>1. a * (e - d) >= a
    BY <1>1, <1>3
  <2> QED BY <1>1, <1>2, <2>1
<1>4. CASE e < d
  <2>1. a * (d - e) >= a
    BY <1>1, <1>4
  <2>2. a * (d - e) = i - m
    BY <1>1
  <2> QED BY <1>1, <2>1, <2>2
<1>5. CASE e = d
  BY <1>1, <1>5 DEF m
<1> QED BY <1>1, <1>3, <1>4, <1>5

\* As many numbers in a row as the array has slots use each slot once: each slot
\* is used, ...
LEMMA SlotIsCounted ==
  ASSUME NEW a \in Nat \ {0}, NEW t \in Nat, NEW i \in 0..(a - 1)
  PROVE  \E k \in t..(t + a - 1) : k % a = i
<1> DEFINE d == t \div a
           m == t % a
<1>1. d \in Nat /\ m \in 0..(a - 1) /\ t = a * d + m
  OBVIOUS
<1> HIDE DEF d, m
<1>2. a * d \in Nat /\ a * (d + 1) = a * d + a
  BY <1>1
<1>3. CASE i >= m
  <2> DEFINE k == a * d + i
  <2>1. k \in Nat /\ k \in t..(t + a - 1)
    BY <1>1, <1>2, <1>3
  <2> HIDE DEF k
  <2>2. k % a = i
    BY <1>1, <2>1, DivisionIsUnique DEF k
  <2> QED BY <2>1, <2>2
<1>4. CASE i < m
  <2> DEFINE k == a * (d + 1) + i
  <2>1. d + 1 \in Int /\ k \in Nat /\ k \in t..(t + a - 1)
    BY <1>1, <1>2, <1>4
  <2> HIDE DEF k
  <2>2. k % a = i
    BY <1>1, <2>1, DivisionIsUnique DEF k
  <2> QED BY <2>1, <2>2
<1> QED BY <1>1, <1>3, <1>4

\* ... and no slot twice.
LEMMA SlotIsCountedOnce ==
  ASSUME NEW a \in Nat \ {0}, NEW k \in Nat, NEW l \in Nat, k < l, l < k + a
  PROVE  k % a # l % a
<1> DEFINE d == k \div a
           m == k % a
           e == l \div a
           n == l % a
<1>1. d \in Int /\ m \in 0..(a - 1) /\ k = a * d + m
  OBVIOUS
<1>2. e \in Int /\ n \in 0..(a - 1) /\ l = a * e + n
  OBVIOUS
<1>3. SUFFICES ASSUME m = n PROVE FALSE
  OBVIOUS
<1> HIDE DEF d, m, e, n
<1>4. l - k = a * (e - d)
  BY <1>1, <1>2, <1>3
<1>5. e > d
  <2>1. CASE e <= d
    <3>1. a * (e - d) <= 0
      BY <1>1, <1>2, <2>1
    <3> QED BY <1>4, <3>1
  <2> QED BY <1>1, <1>2, <2>1
<1>6. a * (e - d) >= a
  BY <1>1, <1>2, <1>5
<1> QED BY <1>4, <1>6

\* A value is in the ring when the slot of a counted number holds it.
LEMMA InContents ==
  ASSUME NEW q, NEW x
  PROVE  x \in Contents(q) <=>
           x # NULL /\ \E k \in q.tail..(q.head - 1) : q.slot[k % q.alloc] = x
BY DEF Contents, Occupied

\* Sequencers that count nothing hold nothing.
LEMMA NothingCountedHoldsNothing ==
  ASSUME NEW q, q.head \in Nat, q.tail = q.head
  PROVE  Contents(q) = {}
BY DEF Contents, Occupied

\* A larger array holds what the smaller one held.
LEMMA EnsureEmptySlotContents ==
  ASSUME NEW S, NEW q, IsRing(q, S), NEW inc \in Nat \ {0}
  PROVE  Contents(EnsureEmptySlot(q, inc)) = Contents(q)
<1> DEFINE e == EnsureEmptySlot(q, inc)
<1>1. CASE HasRoom(q)
  BY <1>1 DEF EnsureEmptySlot
<1>2. CASE ~HasRoom(q)
  <2>1. q.alloc \in Nat /\ q.head \in Nat /\ q.tail \in Nat /\ q.head = q.tail + q.alloc
    BY <1>2 DEF IsRing, HasRoom
  <2>2. e = [alloc |-> q.alloc + inc,
             slot  |-> [i \in 0..(q.alloc + inc - 1) |->
                          IF i < q.alloc THEN q.slot[i] ELSE NULL],
             head  |-> q.alloc,
             tail  |-> 0]
    BY <1>2 DEF EnsureEmptySlot
  <2> HIDE DEF e
  <2>3. /\ e.alloc = q.alloc + inc /\ e.head = q.alloc /\ e.tail = 0
        /\ e.slot = [i \in 0..(q.alloc + inc - 1) |->
                       IF i < q.alloc THEN q.slot[i] ELSE NULL]
    BY <2>2
  <2>4. /\ e.alloc = q.alloc + inc /\ e.head = q.alloc /\ e.tail = 0
        /\ \A i \in 0..(q.alloc - 1) : e.slot[i] = q.slot[i]
    <3>1. ASSUME NEW i \in 0..(q.alloc - 1) PROVE e.slot[i] = q.slot[i]
      <4>1. i \in 0..(q.alloc + inc - 1) /\ i < q.alloc
        BY <2>1
      <4> QED BY <2>3, <4>1
    <3> QED BY <2>3, <3>1
  <2>5. \A k \in 0..(q.alloc - 1) : k % e.alloc = k
    <3>1. SUFFICES ASSUME NEW k \in 0..(q.alloc - 1) PROVE k % e.alloc = k
      OBVIOUS
    <3>2. e.alloc \in Nat \ {0} /\ k \in 0..(e.alloc - 1) /\ k = e.alloc * 0 + k
          /\ k \in Nat
      BY <2>1, <2>4
    <3> QED BY <3>2, DivisionIsUnique
  <2>6. ASSUME NEW x, x \in Contents(e) PROVE x \in Contents(q)
    <3>1. PICK i \in 0..(q.alloc - 1) : x # NULL /\ q.slot[i] = x
      BY <2>4, <2>5, <2>6, InContents
    <3>2. PICK k \in q.tail..(q.tail + q.alloc - 1) : k % q.alloc = i
      <4>1. q.alloc \in Nat \ {0}
        BY <2>1, <3>1
      <4> QED BY <2>1, <4>1, SlotIsCounted
    <3>3. k \in q.tail..(q.head - 1)
      BY <2>1, <3>2
    <3> QED BY <3>1, <3>2, <3>3, InContents
  <2>7. ASSUME NEW x, x \in Contents(q) PROVE x \in Contents(e)
    <3>1. PICK k \in q.tail..(q.head - 1) : x # NULL /\ q.slot[k % q.alloc] = x
      BY <2>7, InContents
    <3>2. k % q.alloc \in 0..(q.alloc - 1)
      BY <2>1, <3>1
    <3> QED BY <2>4, <2>5, <3>1, <3>2, InContents
  <2> QED BY <2>6, <2>7 DEF e
<1> QED BY <1>1, <1>2

\* Storing in an empty slot adds the item and loses none.
LEMMA PutAtHeadContents ==
  ASSUME NEW S, NEW q, IsRing(q, S), HasRoom(q), HeadSlotIsEmpty(q), NEW x, x # NULL
  PROVE  Contents(PutAtHead(q, x)) = Contents(q) \cup {x}
<1> DEFINE p == PutAtHead(q, x)
<1>1. /\ q.alloc \in Nat \ {0} /\ q.head \in Nat /\ q.tail \in Nat /\ q.tail <= q.head
      /\ p.alloc = q.alloc /\ p.head = q.head + 1 /\ p.tail = q.tail
  BY DEF IsRing, HasRoom, PutAtHead
<1>2. \A k \in Nat : k % q.alloc \in 0..(q.alloc - 1)
  BY <1>1
<1>3. \A i \in 0..(q.alloc - 1) : p.slot[i] = IF i = HeadSlot(q) THEN x ELSE q.slot[i]
  BY <1>1, PutAtHeadSlots
<1>4. q.slot[HeadSlot(q)] = NULL /\ HeadSlot(q) = q.head % q.alloc
  BY DEF HeadSlotIsEmpty, HeadSlot
<1> HIDE DEF p
<1>5. ASSUME NEW y, y \in Contents(p) PROVE y \in Contents(q) \cup {x}
  <2>1. PICK k \in q.tail..q.head : y # NULL /\ p.slot[k % q.alloc] = y
    BY <1>1, <1>5, InContents
  <2>2. CASE k = q.head
    BY <1>1, <1>2, <1>3, <1>4, <2>1, <2>2
  <2>3. CASE k # q.head
    <3>1. k \in q.tail..(q.head - 1) /\ k \in Nat
      BY <1>1, <2>3
    <3> QED BY <1>2, <1>3, <2>1, <3>1, InContents
  <2> QED BY <2>2, <2>3
<1>6. x \in Contents(p)
  <2>1. q.head \in p.tail..(p.head - 1)
    BY <1>1
  <2> QED BY <1>1, <1>2, <1>3, <1>4, <2>1, InContents
<1>7. ASSUME NEW y, y \in Contents(q) PROVE y \in Contents(p)
  <2>1. PICK k \in q.tail..(q.head - 1) : y # NULL /\ q.slot[k % q.alloc] = y
    BY <1>7, InContents
  <2>2. k \in Nat /\ k \in p.tail..(p.head - 1)
    BY <1>1, <2>1
  <2> QED BY <1>1, <1>2, <1>3, <1>4, <2>1, <2>2, InContents
<1> QED BY <1>5, <1>6, <1>7 DEF p

\* Taking an item gives one that was there and keeps all others.
LEMMA AfterTakeContents ==
  ASSUME NEW S, NEW q, IsRing(q, S), Taken(q) # NULL
  PROVE  /\ Taken(q) \in Contents(q)
         /\ Contents(AfterTake(q)) \subseteq Contents(q)
         /\ Contents(q) \ {Taken(q)} \subseteq Contents(AfterTake(q))
<1> DEFINE t == AfterTake(q)
           f == First(q)
<1>1. ~IsEmpty(q)
  BY DEF Taken
<1>2. /\ f \in Occupied(q) /\ f \in Nat /\ q.tail <= f /\ f < q.head
      /\ \A j \in Occupied(q) : f <= j
  BY <1>1, FirstIsOccupied
<1>3. /\ q.alloc \in Nat \ {0} /\ q.head \in Nat /\ q.tail \in Nat
      /\ t.alloc = q.alloc /\ t.head = q.head /\ t.tail = f + 1
      /\ Taken(q) = q.slot[f % q.alloc]
  BY <1>1, <1>2 DEF IsRing, AfterTake, Taken
<1>4. \A i \in 0..(q.alloc - 1) :
        t.slot[i] = IF i = f % q.alloc THEN NULL ELSE q.slot[i]
  BY <1>1, AfterTakeSlots
<1>5. \A k \in Nat : k % q.alloc \in 0..(q.alloc - 1)
  BY <1>3
<1> HIDE DEF t, f
<1>6. Taken(q) \in Contents(q)
  BY <1>2, <1>3 DEF Contents
<1>7. ASSUME NEW y, y \in Contents(t) PROVE y \in Contents(q)
  <2>1. PICK k \in (f + 1)..(q.head - 1) : y # NULL /\ t.slot[k % q.alloc] = y
    BY <1>3, <1>7, InContents
  <2>2. k \in Nat /\ k \in q.tail..(q.head - 1)
    BY <1>2, <1>3, <2>1
  <2>3. q.slot[k % q.alloc] = y
    BY <1>4, <1>5, <2>1, <2>2
  <2> QED BY <2>1, <2>2, <2>3, InContents
<1>8. ASSUME NEW y, y \in Contents(q), y # Taken(q) PROVE y \in Contents(t)
  <2>1. PICK k \in q.tail..(q.head - 1) : y # NULL /\ q.slot[k % q.alloc] = y
    BY <1>8, InContents
  <2>2. k \in Occupied(q) /\ k # f /\ k \in Nat
    BY <1>3, <1>8, <2>1 DEF Occupied
  <2>3. k \in t.tail..(t.head - 1)
    BY <1>2, <1>3, <2>1, <2>2
  <2>4. k % q.alloc # f % q.alloc
    BY <1>3, <1>8, <2>1
  <2>5. t.slot[k % q.alloc] = y
    BY <1>4, <1>5, <2>1, <2>2, <2>4
  <2> QED BY <1>3, <2>1, <2>3, <2>5, InContents
<1> QED BY <1>6, <1>7, <1>8 DEF t

\* A ring without leftovers: no slot outside the sequencers holds anything.
NoLeftovers(q) ==
  \A i \in 0..(q.alloc - 1) :
    q.slot[i] # NULL => \E k \in q.tail..(q.head - 1) : k % q.alloc = i

\* In such a ring the slot for the next item is empty, ...
LEMMA NoLeftoverAtHead ==
  ASSUME NEW S, NEW q, IsRing(q, S), NoLeftovers(q), HasRoom(q)
  PROVE  HeadSlotIsEmpty(q)
<1>1. q.alloc \in Nat \ {0} /\ q.head \in Nat /\ q.tail \in Nat /\ q.tail <= q.head
      /\ q.head - q.tail < q.alloc
  BY DEF IsRing, HasRoom
<1>2. SUFFICES ASSUME q.slot[q.head % q.alloc] # NULL PROVE FALSE
  BY DEF HeadSlotIsEmpty, HeadSlot
<1>3. q.head % q.alloc \in 0..(q.alloc - 1)
  BY <1>1
<1>4. PICK k \in q.tail..(q.head - 1) : k % q.alloc = q.head % q.alloc
  BY <1>2, <1>3 DEF NoLeftovers
<1>5. k \in Nat /\ k < q.head /\ q.head < k + q.alloc
  BY <1>1, <1>4
<1> QED BY <1>1, <1>4, <1>5, SlotIsCountedOnce

\* ... and each operation leaves such a ring.
LEMMA EnsureEmptySlotLeftovers ==
  ASSUME NEW S, NEW q, IsRing(q, S), NoLeftovers(q), NEW inc \in Nat \ {0}
  PROVE  NoLeftovers(EnsureEmptySlot(q, inc))
<1> DEFINE e == EnsureEmptySlot(q, inc)
<1>1. CASE HasRoom(q)
  BY <1>1 DEF EnsureEmptySlot
<1>2. CASE ~HasRoom(q)
  <2>1. q.alloc \in Nat
    BY DEF IsRing
  <2>2. e = [alloc |-> q.alloc + inc,
             slot  |-> [i \in 0..(q.alloc + inc - 1) |->
                          IF i < q.alloc THEN q.slot[i] ELSE NULL],
             head  |-> q.alloc,
             tail  |-> 0]
    BY <1>2 DEF EnsureEmptySlot
  <2> HIDE DEF e
  <2>3. /\ e.alloc = q.alloc + inc /\ e.head = q.alloc /\ e.tail = 0
        /\ e.slot = [i \in 0..(q.alloc + inc - 1) |->
                       IF i < q.alloc THEN q.slot[i] ELSE NULL]
    BY <2>2
  <2>4. /\ e.alloc = q.alloc + inc /\ e.head = q.alloc /\ e.tail = 0
        /\ \A i \in 0..(e.alloc - 1) : i >= q.alloc => e.slot[i] = NULL
    <3> DEFINE n == q.alloc + inc - 1
    <3>1. ASSUME NEW i \in 0..n, i >= q.alloc PROVE e.slot[i] = NULL
      <4>1. ~(i < q.alloc)
        BY <2>1, <3>1
      <4> QED BY <2>3, <4>1
    <3>2. e.alloc - 1 = n
      BY <2>1, <2>3
    <3> HIDE DEF n
    <3> QED BY <2>3, <3>1, <3>2
  <2>5. SUFFICES ASSUME NEW i \in 0..(e.alloc - 1), e.slot[i] # NULL
                 PROVE  i \in e.tail..(e.head - 1) /\ i % e.alloc = i
    BY DEF NoLeftovers, e
  <2>6. i \in 0..(q.alloc - 1)
    BY <2>1, <2>4, <2>5
  <2>7. e.alloc \in Nat \ {0} /\ i = e.alloc * 0 + i /\ i \in Nat
    BY <2>1, <2>4, <2>6
  <2> QED BY <2>4, <2>6, <2>7, DivisionIsUnique
<1> QED BY <1>1, <1>2

LEMMA PutAtHeadLeftovers ==
  ASSUME NEW S, NEW q, IsRing(q, S), NoLeftovers(q), HasRoom(q), NEW x
  PROVE  NoLeftovers(PutAtHead(q, x))
<1> DEFINE p == PutAtHead(q, x)
<1>1. /\ q.alloc \in Nat /\ q.head \in Nat /\ q.tail \in Nat /\ q.tail <= q.head
      /\ p.alloc = q.alloc /\ p.head = q.head + 1 /\ p.tail = q.tail
  BY DEF IsRing, PutAtHead
<1>2. \A i \in 0..(q.alloc - 1) : p.slot[i] = IF i = HeadSlot(q) THEN x ELSE q.slot[i]
  BY <1>1, PutAtHeadSlots
<1> HIDE DEF p
<1>3. SUFFICES ASSUME NEW i \in 0..(q.alloc - 1), p.slot[i] # NULL
               PROVE  \E k \in q.tail..q.head : k % q.alloc = i
  BY <1>1 DEF NoLeftovers, p
<1>4. CASE i = HeadSlot(q)
  BY <1>1, <1>4 DEF HeadSlot
<1>5. CASE i # HeadSlot(q)
  <2>1. PICK k \in q.tail..(q.head - 1) : k % q.alloc = i
    BY <1>2, <1>3, <1>5 DEF NoLeftovers
  <2> QED BY <1>1, <2>1
<1> QED BY <1>4, <1>5

LEMMA AfterTakeLeftovers ==
  ASSUME NEW S, NEW q, IsRing(q, S), NoLeftovers(q)
  PROVE  NoLeftovers(AfterTake(q))
<1> DEFINE t == AfterTake(q)
<1>1. q.alloc \in Nat /\ q.head \in Nat /\ q.tail \in Nat
  BY DEF IsRing
<1>2. ASSUME NEW i \in 0..(q.alloc - 1), q.slot[i] # NULL
      PROVE  \E k \in Occupied(q) : k % q.alloc = i
  <2>1. PICK k \in q.tail..(q.head - 1) : k % q.alloc = i
    BY <1>2 DEF NoLeftovers
  <2> QED BY <1>2, <2>1 DEF Occupied
<1>3. CASE IsEmpty(q)
  <2>1. \A i \in 0..(q.alloc - 1) : q.slot[i] = NULL
    BY <1>2, <1>3 DEF IsEmpty
  <2> QED BY <1>3, <2>1 DEF AfterTake, NoLeftovers
<1>4. CASE ~IsEmpty(q)
  <2> DEFINE f == First(q)
  <2>1. f \in Nat /\ \A j \in Occupied(q) : f <= j
    BY <1>4, FirstIsOccupied
  <2>2. /\ t.alloc = q.alloc /\ t.head = q.head /\ t.tail = f + 1
    BY <1>4 DEF AfterTake
  <2>3. \A i \in 0..(q.alloc - 1) :
          t.slot[i] = IF i = f % q.alloc THEN NULL ELSE q.slot[i]
    BY <1>4, AfterTakeSlots
  <2> HIDE DEF t, f
  <2>4. SUFFICES ASSUME NEW i \in 0..(q.alloc - 1), t.slot[i] # NULL
                 PROVE  \E k \in (f + 1)..(q.head - 1) : k % q.alloc = i
    BY <2>2 DEF NoLeftovers, t
  <2>5. i # f % q.alloc /\ q.slot[i] # NULL
    BY <2>3, <2>4
  <2>6. PICK k \in Occupied(q) : k % q.alloc = i
    BY <1>2, <2>5
  <2>7. k \in (f + 1)..(q.head - 1)
    BY <1>1, <2>1, <2>5, <2>6 DEF Occupied
  <2> QED BY <2>6, <2>7
<1> QED BY <1>3, <1>4

\* What is in a ring is in one of its slots.
LEMMA ContentsSlot ==
  ASSUME NEW S, NEW q, IsRing(q, S), NEW x, x \in Contents(q)
  PROVE  x # NULL /\ \E i \in 0..(q.alloc - 1) : q.slot[i] = x
<1>1. PICK k \in q.tail..(q.head - 1) : x # NULL /\ q.slot[k % q.alloc] = x
  BY InContents
<1>2. k \in Nat /\ q.alloc \in Nat /\ q.alloc > 0
  BY <1>1 DEF IsRing
<1>3. k % q.alloc \in 0..(q.alloc - 1)
  BY <1>2
<1> QED BY <1>1, <1>3

\* A consumer that finds nothing leaves a ring that holds nothing, as it did before.
LEMMA NothingTakenContents ==
  ASSUME NEW S, NEW q, IsRing(q, S), Taken(q) = NULL
  PROVE  Contents(q) = {} /\ Contents(AfterTake(q)) = {}
<1>1. IsEmpty(q)
  <2>1. SUFFICES ASSUME ~IsEmpty(q) PROVE FALSE
    OBVIOUS
  <2>2. q.slot[First(q) % q.alloc] # NULL
    BY <2>1, FirstIsOccupied, OccupiedSlot
  <2> QED BY <2>1, <2>2 DEF Taken
<1>2. Contents(q) = {}
  BY <1>1 DEF Contents, IsEmpty
<1>3. AfterTake(q).head \in Nat /\ AfterTake(q).tail = AfterTake(q).head
  BY <1>1 DEF AfterTake, IsRing
<1> QED BY <1>2, <1>3, NothingCountedHoldsNothing

-----------------------------------------------------------------------------
(* The threads                                                             *)

\* The main thread is in process_blocking_resp, or in a call nested in it.
Processing ==
  \/ ppc \in {"drainPipe", "lockResps", "takeResp", "callback", "processed"}
  \/ back = "drainPipe" /\ ppc \in {"lockItems", "putItem", "postItem"}

\* What the two threads carry has the type of the ring it is put into.
CarriedOK ==
  /\ ppc \in {"lockItems", "putItem"} => arg \in Items
  /\ wpc \in {"resolve", "lockResps", "putResp", "notify"} => warg \in Responses

\* A failed INSIST ends both threads.
AbortEndsBoth == ppc = "aborted" => wpc = "aborted"

\* The semaphores exist exactly while the child is in use and has a worker;
\* without them the pipe is closed.
LifeTime ==
  /\ accesslock = "none" <=> child # "used"
  /\ accesslock = "none" <=> wpc = "none"
  /\ accesslock = "none" => pipe = 0
  /\ child = "freed" => ppc = "done"
  /\ ppc \in {"finiPoll", "processed"} => child # "absent"

\* The main thread is at a place that needs the semaphores, or the reports of
\* select() will bring it there: then they exist.
ParentNeeds ==
  /\ ppc \in {"lockItems", "putItem", "postItem", "drainPipe", "lockResps",
              "takeResp", "callback"} => accesslock # "none"
  /\ Processing /\ after # "finiPoll" => ~ready
  /\ ready /\ accesslock = "none" =>
       ppc \in {"finiPoll", "done"} \/ (ppc = "processed" /\ after = "finiPoll")

IsGone(i) == i \in 0..(resps.alloc - 1) /\ resps.slot[i] = GONE

\* The farewell of a worker is in one slot, and the worker is done with the lock.
OneFarewell ==
  /\ \A i, j : IsGone(i) /\ IsGone(j) => i = j
  /\ \A i : IsGone(i) => wpc = "exited" \/ (wpc = "notify" /\ warg = GONE)

\* The inductive invariant.
IInv ==
  /\ TypeOK
  /\ CarriedOK
  /\ AbortEndsBoth
  /\ ppc # "aborted" =>
       AccessLockExcludes /\ LifeTime /\ ParentNeeds /\ OneFarewell

USE RequestsAssumption, IncAssumption

LEMMA InitIInv == Init => IInv
<1> SUFFICES ASSUME Init PROVE IInv
  OBVIOUS
<1>1. IsRing(items, Items) /\ IsRing(resps, Responses)
  BY NewRingIsRing DEF Init
<1>2. TypeOK
  <2>1. idleTimer \in BOOLEAN /\ signalled \in BOOLEAN /\ ready \in BOOLEAN
    BY Zenon DEF Init
  <2> QED BY <1>1, <2>1 DEF Init, TypeOK, ParentPlaces, WorkerPlaces
<1>3. CarriedOK /\ AbortEndsBoth /\ AccessLockExcludes /\ LifeTime /\ ParentNeeds
  BY DEF Init, CarriedOK, AbortEndsBoth, AccessLockExcludes, LifeTime, ParentNeeds,
         Processing, ParentInside, WorkerInside
<1>4. OneFarewell
  BY DEF Init, NewRing, OneFarewell, IsGone
<1> QED
  BY <1>2, <1>3, <1>4 DEF IInv

\* The steps of the daemon outside its queues keep the invariant.
LEMMA LoopIInv ==
  ASSUME IInv, \/ Top \/ SelectInput \/ SelectTimeout \/ TimerEnds \/ IdleTimerFires
               \/ RecvEnds \/ FiniWait \/ FiniExit \/ FiniPoll \/ Stop
  PROVE  IInv'
<1>1. CASE Top
  <2> USE DEF Top, Harvest, Process, parentVars, childVars, workerVars, history
  <2>1. TypeOK'
    <3>1. idleTimer' \in BOOLEAN /\ signalled' \in BOOLEAN /\ ready' \in BOOLEAN
      BY <1>1, Zenon DEF IInv, TypeOK
    <3> QED BY <1>1, <3>1 DEF IInv, TypeOK, ParentPlaces, WorkerPlaces, Items
  <2>2. CarriedOK'
    BY <1>1 DEF IInv, CarriedOK, TypeOK, Items, Responses
  <2>3. AbortEndsBoth'
    BY <1>1 DEF IInv, AbortEndsBoth
  <2>4. SUFFICES ASSUME ppc' # "aborted"
        PROVE  (AccessLockExcludes /\ LifeTime /\ ParentNeeds /\ OneFarewell)'
    BY <2>1, <2>2, <2>3 DEF IInv
  <2>5. AccessLockExcludes /\ LifeTime /\ ParentNeeds /\ OneFarewell
    BY <1>1, <2>4 DEF IInv, AbortEndsBoth
  <2>6. AccessLockExcludes'
    BY <1>1, <2>4, <2>5 DEF AccessLockExcludes, ParentInside, WorkerInside, TypeOK
  <2>7. LifeTime'
    BY <1>1, <2>4, <2>5 DEF LifeTime, ParentNeeds
  <2>8. ParentNeeds'
    BY <1>1, <2>4, <2>5 DEF ParentNeeds, Processing, LifeTime
  <2>9. OneFarewell'
    BY <1>1, <2>4, <2>5 DEF OneFarewell, IsGone
  <2> QED BY <2>6, <2>7, <2>8, <2>9
<1>2. CASE SelectInput
  BY <1>2
  DEF SelectInput, ScanPipe,
      IInv, TypeOK, CarriedOK, AbortEndsBoth, AccessLockExcludes, LifeTime,
      ParentNeeds, OneFarewell, IsGone, Processing, ParentInside, WorkerInside,
      ParentPlaces, WorkerPlaces, Items, Responses, parentVars, childVars,
      workerVars, history
<1>3. CASE SelectTimeout
  BY <1>3
  DEF SelectTimeout,
      IInv, TypeOK, CarriedOK, AbortEndsBoth, AccessLockExcludes, LifeTime,
      ParentNeeds, OneFarewell, IsGone, Processing, ParentInside, WorkerInside,
      ParentPlaces, WorkerPlaces, Items, Responses, parentVars, childVars,
      workerVars, history
<1>4. CASE TimerEnds
  BY <1>4
  DEF TimerEnds,
      IInv, TypeOK, CarriedOK, AbortEndsBoth, AccessLockExcludes, LifeTime,
      ParentNeeds, OneFarewell, IsGone, Processing, ParentInside, WorkerInside,
      ParentPlaces, WorkerPlaces, Items, Responses, parentVars, childVars,
      workerVars, history
<1>5. CASE IdleTimerFires
  <2> USE DEF IdleTimerFires, IdleTimerDue, RequestExit, parentVars, childVars, workerVars, history
  <2>1. TypeOK'
    <3>1. idleTimer' \in BOOLEAN /\ signalled' \in BOOLEAN /\ ready' \in BOOLEAN
      BY <1>5, Zenon DEF IInv, TypeOK
    <3> QED BY <1>5, <3>1 DEF IInv, TypeOK, ParentPlaces, WorkerPlaces, Items
  <2>2. CarriedOK'
    BY <1>5 DEF IInv, CarriedOK, TypeOK, Items, Responses
  <2>3. AbortEndsBoth'
    BY <1>5 DEF IInv, AbortEndsBoth
  <2>4. SUFFICES ASSUME ppc' # "aborted"
        PROVE  (AccessLockExcludes /\ LifeTime /\ ParentNeeds /\ OneFarewell)'
    BY <2>1, <2>2, <2>3 DEF IInv
  <2>5. AccessLockExcludes /\ LifeTime /\ ParentNeeds /\ OneFarewell
    BY <1>5, <2>4 DEF IInv, AbortEndsBoth
  <2>6. AccessLockExcludes'
    BY <1>5, <2>4, <2>5 DEF AccessLockExcludes, ParentInside, WorkerInside, TypeOK
  <2>7. LifeTime'
    BY <1>5, <2>4, <2>5 DEF LifeTime, ParentNeeds
  <2>8. ParentNeeds'
    BY <1>5, <2>4, <2>5 DEF ParentNeeds, Processing, LifeTime
  <2>9. OneFarewell'
    BY <1>5, <2>4, <2>5 DEF OneFarewell, IsGone
  <2> QED BY <2>6, <2>7, <2>8, <2>9
<1>6. CASE RecvEnds
  BY <1>6
  DEF RecvEnds,
      IInv, TypeOK, CarriedOK, AbortEndsBoth, AccessLockExcludes, LifeTime,
      ParentNeeds, OneFarewell, IsGone, Processing, ParentInside, WorkerInside,
      ParentPlaces, WorkerPlaces, Items, Responses, parentVars, childVars,
      workerVars, history
<1>7. CASE FiniWait
  <2> USE DEF FiniWait, Harvest, Process, parentVars, childVars, workerVars, history
  <2>1. TypeOK'
    <3>1. idleTimer' \in BOOLEAN /\ signalled' \in BOOLEAN /\ ready' \in BOOLEAN
      BY <1>7, Zenon DEF IInv, TypeOK
    <3> QED BY <1>7, <3>1 DEF IInv, TypeOK, ParentPlaces, WorkerPlaces, Items
  <2>2. CarriedOK'
    BY <1>7 DEF IInv, CarriedOK, TypeOK, Items, Responses
  <2>3. AbortEndsBoth'
    BY <1>7 DEF IInv, AbortEndsBoth
  <2>4. SUFFICES ASSUME ppc' # "aborted"
        PROVE  (AccessLockExcludes /\ LifeTime /\ ParentNeeds /\ OneFarewell)'
    BY <2>1, <2>2, <2>3 DEF IInv
  <2>5. AccessLockExcludes /\ LifeTime /\ ParentNeeds /\ OneFarewell
    BY <1>7, <2>4 DEF IInv, AbortEndsBoth
  <2>6. AccessLockExcludes'
    BY <1>7, <2>4, <2>5 DEF AccessLockExcludes, ParentInside, WorkerInside, TypeOK
  <2>7. LifeTime'
    BY <1>7, <2>4, <2>5 DEF LifeTime, ParentNeeds
  <2>8. ParentNeeds'
    BY <1>7, <2>4, <2>5 DEF ParentNeeds, Processing, LifeTime
  <2>9. OneFarewell'
    BY <1>7, <2>4, <2>5 DEF OneFarewell, IsGone
  <2> QED BY <2>6, <2>7, <2>8, <2>9
<1>8. CASE FiniExit
  BY <1>8
  DEF FiniExit, RequestExit,
      IInv, TypeOK, CarriedOK, AbortEndsBoth, AccessLockExcludes, LifeTime,
      ParentNeeds, OneFarewell, IsGone, Processing, ParentInside, WorkerInside,
      ParentPlaces, WorkerPlaces, Items, Responses, parentVars, childVars,
      workerVars, history
<1>9. CASE FiniPoll
  BY <1>9
  DEF FiniPoll, Poll, Process,
      IInv, TypeOK, CarriedOK, AbortEndsBoth, AccessLockExcludes, LifeTime,
      ParentNeeds, OneFarewell, IsGone, Processing, ParentInside, WorkerInside,
      ParentPlaces, WorkerPlaces, Items, Responses, parentVars, childVars,
      workerVars, history
<1>10. CASE Stop
  BY <1>10
  DEF Stop,
      IInv, TypeOK, CarriedOK, AbortEndsBoth, AccessLockExcludes, LifeTime,
      ParentNeeds, OneFarewell, IsGone, Processing, ParentInside, WorkerInside,
      ParentPlaces, WorkerPlaces, Items, Responses, parentVars, childVars,
      workerVars, history
<1> QED BY <1>1, <1>2, <1>3, <1>4, <1>5, <1>6, <1>7, <1>8, <1>9, <1>10

\* So do the steps around the queues that leave both rings alone.
LEMMA QueueIInv ==
  ASSUME IInv, \/ LockItems \/ PostItem \/ DrainPipe \/ LockResps \/ CallbackReturns
               \/ Processed \/ WaitItem \/ WorkerLocks \/ Resolve \/ Notify
               \/ LateNotify
  PROVE  IInv'
<1>1. CASE LockItems
  BY <1>1
  DEF LockItems, TakeLock,
      IInv, TypeOK, CarriedOK, AbortEndsBoth, AccessLockExcludes, LifeTime,
      ParentNeeds, OneFarewell, IsGone, Processing, ParentInside, WorkerInside,
      ParentPlaces, WorkerPlaces, Items, Responses, parentVars, childVars,
      workerVars, history
<1>2. CASE PostItem
  BY <1>2
  DEF PostItem, PostUnit,
      IInv, TypeOK, CarriedOK, AbortEndsBoth, AccessLockExcludes, LifeTime,
      ParentNeeds, OneFarewell, IsGone, Processing, ParentInside, WorkerInside,
      ParentPlaces, WorkerPlaces, Items, Responses, parentVars, childVars,
      workerVars, history
<1>3. CASE DrainPipe
  BY <1>3
  DEF DrainPipe, AfterRead, ScratchSize,
      IInv, TypeOK, CarriedOK, AbortEndsBoth, AccessLockExcludes, LifeTime,
      ParentNeeds, OneFarewell, IsGone, Processing, ParentInside, WorkerInside,
      ParentPlaces, WorkerPlaces, Items, Responses, parentVars, childVars,
      workerVars, history
<1>4. CASE LockResps
  BY <1>4
  DEF LockResps, TakeLock,
      IInv, TypeOK, CarriedOK, AbortEndsBoth, AccessLockExcludes, LifeTime,
      ParentNeeds, OneFarewell, IsGone, Processing, ParentInside, WorkerInside,
      ParentPlaces, WorkerPlaces, Items, Responses, parentVars, childVars,
      workerVars, history
<1>5. CASE CallbackReturns
  BY <1>5
  DEF CallbackReturns,
      IInv, TypeOK, CarriedOK, AbortEndsBoth, AccessLockExcludes, LifeTime,
      ParentNeeds, OneFarewell, IsGone, Processing, ParentInside, WorkerInside,
      ParentPlaces, WorkerPlaces, Items, Responses, parentVars, childVars,
      workerVars, history
<1>6. CASE Processed
  BY <1>6
  DEF Processed,
      IInv, TypeOK, CarriedOK, AbortEndsBoth, AccessLockExcludes, LifeTime,
      ParentNeeds, OneFarewell, IsGone, Processing, ParentInside, WorkerInside,
      ParentPlaces, WorkerPlaces, Items, Responses, parentVars, childVars,
      workerVars, history
<1>7. CASE WaitItem
  BY <1>7
  DEF WaitItem,
      IInv, TypeOK, CarriedOK, AbortEndsBoth, AccessLockExcludes, LifeTime,
      ParentNeeds, OneFarewell, IsGone, Processing, ParentInside, WorkerInside,
      ParentPlaces, WorkerPlaces, Items, Responses, parentVars, childVars,
      workerVars, history
<1>8. CASE WorkerLocks
  BY <1>8
  DEF WorkerLocks, TakeLock,
      IInv, TypeOK, CarriedOK, AbortEndsBoth, AccessLockExcludes, LifeTime,
      ParentNeeds, OneFarewell, IsGone, Processing, ParentInside, WorkerInside,
      ParentPlaces, WorkerPlaces, Items, Responses, parentVars, childVars,
      workerVars, history
<1>9. CASE Resolve
  BY <1>9
  DEF Resolve,
      IInv, TypeOK, CarriedOK, AbortEndsBoth, AccessLockExcludes, LifeTime,
      ParentNeeds, OneFarewell, IsGone, Processing, ParentInside, WorkerInside,
      ParentPlaces, WorkerPlaces, Items, Responses, parentVars, childVars,
      workerVars, history
<1>10. CASE Notify
  BY <1>10
  DEF Notify, WorkerGoesOn,
      IInv, TypeOK, CarriedOK, AbortEndsBoth, AccessLockExcludes, LifeTime,
      ParentNeeds, OneFarewell, IsGone, Processing, ParentInside, WorkerInside,
      ParentPlaces, WorkerPlaces, Items, Responses, parentVars, childVars,
      workerVars, history
<1>11. CASE LateNotify
  BY <1>11
  DEF LateNotify,
      IInv, TypeOK, CarriedOK, AbortEndsBoth, AccessLockExcludes, LifeTime,
      ParentNeeds, OneFarewell, IsGone, Processing, ParentInside, WorkerInside,
      ParentPlaces, WorkerPlaces, Items, Responses, parentVars, childVars,
      workerVars, history
<1> QED BY <1>1, <1>2, <1>3, <1>4, <1>5, <1>6, <1>7, <1>8, <1>9, <1>10, <1>11

\* Queueing a request, which may give the child a new worker ...
LEMMA QueueRequestIInv ==
  ASSUME IInv, NEW r \in Requests, NEW from \in {"timer", "recv", "drainPipe"},
         ppc \in {"timer", "recv", "callback"}, from = "drainPipe" <=> ppc = "callback",
         QueueRequest(r, from)
  PROVE  IInv'
<1> USE DEF QueueRequest, ClearIdleTimer, CountRequest, StartThread
<1>1. TypeOK'
  <2>1. idleTimer' \in BOOLEAN
    BY Zenon DEF IInv, TypeOK
  <2> QED BY <2>1 DEF IInv, TypeOK, ParentPlaces, WorkerPlaces, Items
<1>2. CarriedOK'
  BY DEF IInv, CarriedOK, TypeOK, Items, Responses
<1>3. AbortEndsBoth'
  BY DEF AbortEndsBoth
<1>4. AccessLockExcludes /\ LifeTime /\ ParentNeeds /\ OneFarewell
  BY DEF IInv
<1>5. AccessLockExcludes'
  BY <1>4 DEF IInv, TypeOK, AccessLockExcludes, ParentInside, WorkerInside
<1>6. LifeTime'
  BY <1>4 DEF IInv, TypeOK, LifeTime
<1>7. ParentNeeds'
  BY <1>4 DEF ParentNeeds, Processing, LifeTime
<1>8. OneFarewell'
  BY <1>4 DEF OneFarewell, IsGone, LifeTime
<1> QED BY <1>1, <1>2, <1>3, <1>5, <1>6, <1>7, <1>8 DEF IInv

\* ... storing the item, ...
LEMMA PutItemIInv ==
  ASSUME IInv, PutItem
  PROVE  IInv'
<1> DEFINE q == EnsureEmptySlot(items, ItemsInc)
<1>1. IsRing(items, Items) /\ arg \in Items
  BY DEF IInv, TypeOK, CarriedOK, PutItem
<1>2. IsRing(q, Items) /\ HasRoom(q)
  BY <1>1, EnsureEmptySlotIsRing
<1>3. IsRing(PutAtHead(q, arg), Items)
  BY <1>1, <1>2, PutAtHeadIsRing
<1> HIDE DEF q
<1>4. IsRing(items, Items)'
  BY <1>1, <1>3 DEF PutItem, q
<1>5. CASE HeadSlotIsEmpty(q)
  BY <1>4, <1>5
  DEF PutItem, q,
      IInv, TypeOK, CarriedOK, AbortEndsBoth, AccessLockExcludes, LifeTime,
      ParentNeeds, OneFarewell, IsGone, Processing, ParentInside, WorkerInside,
      ParentPlaces, WorkerPlaces, Items, Responses, parentVars, childVars,
      workerVars, history
<1>6. CASE ~HeadSlotIsEmpty(q)
  BY <1>4, <1>6
  DEF PutItem, Abort, q,
      IInv, TypeOK, CarriedOK, AbortEndsBoth, AccessLockExcludes, LifeTime,
      ParentNeeds, OneFarewell, IsGone, Processing, ParentInside, WorkerInside,
      ParentPlaces, WorkerPlaces, Items, Responses, parentVars, childVars,
      workerVars, history
<1> QED BY <1>5, <1>6

\* ... and taking it out again.
LEMMA TakeItemIInv ==
  ASSUME IInv, TakeItem
  PROVE  IInv'
<1>1. IsRing(items, Items)'
  BY AfterTakeIsRing DEF IInv, TypeOK, TakeItem
<1> QED BY <1>1
  DEF TakeItem,
      IInv, TypeOK, CarriedOK, AbortEndsBoth, AccessLockExcludes, LifeTime,
      ParentNeeds, OneFarewell, IsGone, Processing, ParentInside, WorkerInside,
      ParentPlaces, WorkerPlaces, Items, Responses, parentVars, childVars,
      workerVars, history

\* The worker stores a response: it is the only farewell there is.
LEMMA PutResponseIInv ==
  ASSUME IInv, PutResponse
  PROVE  IInv'
<1> DEFINE q == EnsureEmptySlot(resps, ResponsesInc)
           p == PutAtHead(q, warg)
<1>1. IsRing(resps, Responses) /\ warg \in Responses /\ wpc = "putResp"
  BY DEF IInv, TypeOK, CarriedOK, PutResponse
<1>2. IsRing(q, Responses) /\ HasRoom(q)
  BY <1>1, EnsureEmptySlotIsRing
<1>3. IsRing(p, Responses)
  BY <1>1, <1>2, PutAtHeadIsRing
<1>4. ppc # "aborted"
  BY <1>1 DEF IInv, AbortEndsBoth
<1>5. \A i : ~IsGone(i)
  BY <1>1, <1>4 DEF IInv, OneFarewell
<1>6. ASSUME NEW i \in 0..(p.alloc - 1), p.slot[i] = GONE
      PROVE  i = HeadSlot(q) /\ warg = GONE
  <2>1. p.slot[i] = IF i = HeadSlot(q) THEN warg ELSE q.slot[i]
    BY <1>2, PutAtHeadSlots
  <2>2. i \in 0..(q.alloc - 1)
    BY DEF PutAtHead
  <2>3. q.slot[i] # GONE
    BY <1>1, <1>5, <2>2, EnsureEmptySlotSlots DEF IsGone
  <2> QED BY <1>6, <2>1, <2>3
<1> HIDE DEF q, p
<1>7. CASE HeadSlotIsEmpty(q)
  <2>1. resps' = p /\ wpc' \in {"notify", "exited", "wait"} /\ ppc' = ppc
        /\ (warg = GONE => wpc' = "exited" \/ (wpc' = "notify" /\ warg' = GONE))
    BY <1>7 DEF PutResponse, WorkerGoesOn, q, p
  <2>2. OneFarewell'
    BY <2>1, <1>6 DEF OneFarewell, IsGone
  <2>3. TypeOK' /\ CarriedOK' /\ AbortEndsBoth'
    BY <1>1, <1>3, <1>4, <1>7, <2>1
    DEF PutResponse, WorkerGoesOn, IInv, TypeOK, CarriedOK, AbortEndsBoth, WorkerPlaces,
        history, q, p
  <2>4. AccessLockExcludes' /\ LifeTime' /\ ParentNeeds'
    BY <1>1, <1>4, <1>7, <2>1
    DEF PutResponse, IInv, AccessLockExcludes, LifeTime, ParentNeeds, ParentInside,
        WorkerInside, Processing, q
  <2> QED BY <2>2, <2>3, <2>4 DEF IInv
<1>8. CASE ~HeadSlotIsEmpty(q)
  BY <1>8
  DEF PutResponse, Abort, q,
      IInv, TypeOK, CarriedOK, AbortEndsBoth, AccessLockExcludes, LifeTime,
      ParentNeeds, OneFarewell, IsGone, Processing, ParentInside, WorkerInside,
      ParentPlaces, WorkerPlaces, Items, Responses, parentVars, childVars,
      workerVars, history
<1> QED BY <1>7, <1>8

\* The main thread takes a response: with the farewell everything goes.
LEMMA TakeResponseIInv ==
  ASSUME IInv, TakeResponse
  PROVE  IInv'
<1> DEFINE resp == Taken(resps)
           q == AfterTake(resps)
<1>1. IsRing(resps, Responses) /\ ppc = "takeResp" /\ resp \in Responses \cup {NULL}
  BY TakenType DEF IInv, TypeOK, TakeResponse
<1>2. IsRing(q, Responses)
  BY <1>1, AfterTakeIsRing
<1>3. pending' \in Int /\ calls' \in [Requests -> Nat]
  BY DEF IInv, TypeOK, TakeResponse, CountAnswer
<1>4. ASSUME NEW i \in 0..(q.alloc - 1), q.slot[i] = GONE
      PROVE  IsGone(i) /\ resp # GONE
  <2>1. CASE IsEmpty(resps)
    BY <1>4, <2>1 DEF AfterTake, IsGone, Taken
  <2>2. CASE ~IsEmpty(resps)
    <3>1. q.alloc = resps.alloc
          /\ q.slot[i] = IF i = First(resps) % resps.alloc THEN NULL ELSE resps.slot[i]
      BY <1>1, <2>2, AfterTakeSlots
    <3>2. IsGone(i) /\ i # First(resps) % resps.alloc
      BY <1>4, <3>1 DEF IsGone
    <3>3. First(resps) % resps.alloc \in 0..(resps.alloc - 1)
      BY <1>1, <2>2, FirstIsOccupied, OccupiedSlot
    <3> QED BY <1>1, <2>2, <3>2, <3>3 DEF IInv, OneFarewell, IsGone, Taken
  <2> QED BY <2>1, <2>2
<1>5. CASE resp = GONE
  <2>1. wpc \in {"exited", "notify"}
    <3>1. ~IsEmpty(resps)
      BY <1>5 DEF Taken
    <3>2. IsGone(First(resps) % resps.alloc)
      BY <1>1, <1>5, <3>1, FirstIsOccupied, OccupiedSlot DEF IsGone, Taken
    <3> QED BY <1>1, <3>2 DEF IInv, OneFarewell
  <2> HIDE DEF resp, q
  <2>2. ResetIndices(q).alloc = q.alloc /\ ResetIndices(q).slot = q.slot
    BY DEF ResetIndices
  <2>3. IsRing(items, Items)' /\ IsRing(resps, Responses)'
    BY <1>2, <1>5, ResetIndicesIsRing DEF IInv, TypeOK, TakeResponse, Cleanup, resp, q
  <2>4. OneFarewell'
    BY <1>4, <1>5, <2>2 DEF TakeResponse, Cleanup, OneFarewell, IsGone, resp, q
  <2>5. TypeOK' /\ CarriedOK' /\ AbortEndsBoth'
    BY <1>1, <1>3, <1>5, <2>3
    DEF TakeResponse, Cleanup, IInv, TypeOK, CarriedOK, AbortEndsBoth, ParentPlaces,
        WorkerPlaces, resp
  <2>6. AccessLockExcludes' /\ LifeTime' /\ ParentNeeds'
    BY <1>1, <1>5, <2>1
    DEF TakeResponse, Cleanup, IInv, AccessLockExcludes, LifeTime, ParentNeeds,
        ParentInside, WorkerInside, Processing, resp
  <2> QED BY <2>4, <2>5, <2>6 DEF IInv
<1>6. CASE resp # GONE
  <2> HIDE DEF resp, q
  <2>1. IsRing(items, Items)' /\ IsRing(resps, Responses)'
    BY <1>2, <1>6 DEF IInv, TypeOK, TakeResponse, resp, q
  <2>2. OneFarewell'
    BY <1>1, <1>4, <1>6
    DEF TakeResponse, IInv, OneFarewell, IsGone, workerVars, resp, q
  <2>3. TypeOK' /\ CarriedOK' /\ AbortEndsBoth'
    BY <1>1, <1>3, <1>6, <2>1
    DEF TakeResponse, IInv, TypeOK, CarriedOK, AbortEndsBoth, ParentPlaces,
        WorkerPlaces, workerVars, resp
  <2>4. AccessLockExcludes' /\ LifeTime' /\ ParentNeeds'
    BY <1>1, <1>6
    DEF TakeResponse, IInv, AccessLockExcludes, LifeTime, ParentNeeds, ParentInside,
        WorkerInside, Processing, workerVars, resp
  <2> QED BY <2>2, <2>3, <2>4 DEF IInv
<1> QED BY <1>5, <1>6

\* Every step keeps the invariant.
LEMMA NextIInv == IInv /\ [Next]_vars => IInv'
<1> SUFFICES ASSUME IInv, [Next]_vars PROVE IInv'
  OBVIOUS
<1>1. ASSUME NEW r \in Requests, CallbackAsks(r) PROVE IInv'
  BY <1>1, QueueRequestIInv DEF CallbackAsks
<1>2. ASSUME NEW r \in Requests, Ask(r) PROVE IInv'
  BY <1>2, QueueRequestIInv DEF Ask
<1>3. CASE UNCHANGED vars
  BY <1>3
  DEF vars,
      IInv, TypeOK, CarriedOK, AbortEndsBoth, AccessLockExcludes, LifeTime,
      ParentNeeds, OneFarewell, IsGone, Processing, ParentInside, WorkerInside,
      ParentPlaces, WorkerPlaces, Items, Responses, parentVars, childVars,
      workerVars, history
<1> QED
  BY <1>1, <1>2, <1>3, LoopIInv, QueueIInv, PutItemIInv, TakeItemIInv, PutResponseIInv,
     TakeResponseIInv
  DEF Next, Parent, Worker, Ended

LEMMA SpecIInv == Spec => []IInv
<1> QED BY InitIInv, NextIInv, PTL DEF Spec

\* Every reachable state is well typed, however many requests there are and in
\* whatever steps the arrays grow: blocking_child, ntp_worker.h.
THEOREM TypeCorrect == Spec => []TypeOK
<1>1. IInv => TypeOK
  BY DEF IInv
<1> QED BY <1>1, SpecIInv, PTL

\* accesslock, given out and back by wait_for_sem and tickle_sem in both threads,
\* always excludes them from each other.
THEOREM AccessLockAlwaysExcludes == Spec => []AccessLockExcludes
<1>1. IInv => AccessLockExcludes
  BY DEF IInv, AccessLockExcludes
<1> QED BY <1>1, SpecIInv, PTL

\* cleanup_after_child never destroys a semaphore a thread waits for or is about
\* to use.
THEOREM SemaphoresAlwaysExistInUse == Spec => []SemaphoresExistInUse
<1>1. IInv => SemaphoresExistInUse
  BY DEF IInv, SemaphoresExistInUse, AbortEndsBoth, LifeTime, ParentNeeds
<1> QED BY <1>1, SpecIInv, PTL

-----------------------------------------------------------------------------
(* Nothing is forgotten: where each request is, and who is told about it.  *)

\* The places a request can be at: the hands of either thread, or slot i of a
\* ring.
At(r, kind, i) ==
  \/ kind = "arg" /\ i = 0 /\ ppc \in {"lockItems", "putItem"} /\ arg = r
  \/ kind = "warg" /\ i = 0 /\ wpc \in {"resolve", "lockResps", "putResp"} /\ warg = r
  \/ kind = "items" /\ i \in 0..(items.alloc - 1) /\ items.slot[i] = r
  \/ kind = "resps" /\ i \in 0..(resps.alloc - 1) /\ resps.slot[i] = r

\* A request is at one place at most, slots outside the sequencers included ...
OnePlace ==
  \A r \in Requests : \A k1, k2, i1, i2 :
    At(r, k1, i1) /\ At(r, k2, i2) => k1 = k2 /\ i1 = i2

\* ... and only from queue_blocking_request to its done_func.
PlacedIsDue ==
  \A r \in Requests :
    /\ \A k, i : At(r, k, i) => r \in asked /\ calls[r] = 0
    /\ r \notin asked => calls[r] = 0

\* Units of workitems_pending given, taken or about to be for every item.
ItemUnits ==
  ppc # "aborted" =>
    items.head - items.tail <=
      itemsPending + (IF ppc = "postItem" THEN 1 ELSE 0)
                   + (IF wpc \in {"lockItems", "takeItem"} THEN 1 ELSE 0)

\* A response counted by the sequencers has been signalled, or will be.
ResponseSignal ==
  resps.head # resps.tail =>
    \/ wpc = "notify" \/ pipe > 0 \/ ready
    \/ ppc \in {"drainPipe", "lockResps", "takeResp", "callback", "finiPoll",
               "aborted"}
    \/ back = "drainPipe" /\ ppc \in {"lockItems", "putItem", "postItem"}

\* Without a worker both rings count as empty.
NothingQueuedWithout ==
  ppc # "aborted" /\ accesslock = "none" =>
    items.head = items.tail /\ resps.head = resps.tail

\* Inductive together with IInv.
JInv ==
  /\ OnePlace /\ PlacedIsDue
  /\ ItemUnits /\ ResponseSignal /\ NothingQueuedWithout
  /\ PendingCountsUnanswered

LEMMA InitJInv == Init => JInv
<1> SUFFICES ASSUME Init PROVE JInv
  OBVIOUS
<1>1. OnePlace /\ PlacedIsDue
  BY DEF Init, NewRing, OnePlace, PlacedIsDue, At
<1>2. ItemUnits /\ ResponseSignal /\ NothingQueuedWithout
  BY DEF Init, NewRing, ItemUnits, ResponseSignal, NothingQueuedWithout
<1>3. Unanswered = {}
  BY DEF Init, Unanswered
<1>4. PendingCountsUnanswered
  BY <1>3, FS_EmptySet DEF Init, PendingCountsUnanswered
<1> QED BY <1>1, <1>2, <1>4 DEF JInv

\* The actions after which no request is anywhere it was not before.
Idle ==
  \/ Top \/ SelectInput \/ SelectTimeout \/ TimerEnds \/ IdleTimerFires
  \/ RecvEnds \/ FiniWait \/ FiniExit \/ FiniPoll \/ Stop
  \/ LockItems \/ PostItem \/ DrainPipe \/ LockResps \/ CallbackReturns
  \/ Processed \/ WaitItem \/ WorkerLocks \/ Resolve \/ Notify
  \/ LateNotify \/ UNCHANGED vars

LEMMA IdlePlaces ==
  ASSUME IInv, Idle, NEW r \in Requests, NEW k, NEW i, At(r, k, i)'
  PROVE  At(r, k, i) /\ asked' = asked /\ calls' = calls
<1> USE DEF parentVars, childVars, workerVars, history
<1>1. CASE Top \/ SelectInput \/ SelectTimeout \/ TimerEnds \/ RecvEnds \/ FiniWait
  BY <1>1 DEF Top, Harvest, Process, SelectInput, SelectTimeout, TimerEnds, RecvEnds,
              FiniWait, At
<1>2. CASE IdleTimerFires \/ FiniExit \/ FiniPoll \/ Stop
  BY <1>2 DEF IdleTimerFires, RequestExit, FiniExit, FiniPoll, Poll, Process, Stop, At
<1>3. CASE LockItems \/ PostItem \/ DrainPipe \/ LockResps \/ CallbackReturns \/ Processed
  BY <1>3 DEF LockItems, PostItem, DrainPipe, LockResps, CallbackReturns, Processed, At,
              IInv, TypeOK
<1>4. CASE WaitItem \/ WorkerLocks \/ Resolve \/ Notify \/ LateNotify \/ UNCHANGED vars
  BY <1>4 DEF WaitItem, WorkerLocks, Resolve, Notify, WorkerGoesOn, LateNotify, vars, At
<1> QED BY <1>1, <1>2, <1>3, <1>4 DEF Idle

LEMMA IdleHistory ==
  ASSUME Idle
  PROVE  asked' = asked /\ calls' = calls /\ pending' = pending
         /\ items' = items /\ resps' = resps
BY DEF Idle, Top, Harvest, SelectInput, SelectTimeout, TimerEnds, IdleTimerFires,
       RecvEnds, FiniWait, FiniExit, FiniPoll, Stop, LockItems, PostItem, DrainPipe,
       LockResps, CallbackReturns, Processed, WaitItem, WorkerLocks, Resolve, Notify,
       LateNotify, vars, parentVars, childVars, workerVars, history

LEMMA IdleJInv ==
  ASSUME IInv, JInv, Idle
  PROVE  JInv'
<1> USE DEF parentVars, childVars, workerVars, history
<1>1. OnePlace' /\ PlacedIsDue'
  BY IdlePlaces, IdleHistory DEF JInv, OnePlace, PlacedIsDue
<1>2. PendingCountsUnanswered'
  BY IdleHistory DEF JInv, PendingCountsUnanswered, Unanswered
<1>3. /\ items.head \in Nat /\ items.tail \in Nat /\ resps.head \in Nat /\ resps.tail \in Nat
      /\ itemsPending \in Nat /\ pipe \in Nat /\ late \in Nat
      /\ ppc = "aborted" => wpc = "aborted"
      /\ ppc # "aborted" => LifeTime /\ ParentNeeds
  BY DEF IInv, TypeOK, IsRing, AbortEndsBoth
<1>4. ItemUnits /\ ResponseSignal /\ NothingQueuedWithout
  BY DEF JInv
<1> DEFINE Told == ItemUnits' /\ ResponseSignal' /\ NothingQueuedWithout'
<1> USE DEF ItemUnits, ResponseSignal, NothingQueuedWithout
<1>5. ASSUME Top PROVE Told
  BY <1>3, <1>4, <1>5 DEF Top, Harvest, Process
<1>6. ASSUME SelectInput PROVE Told
  BY <1>3, <1>4, <1>6 DEF SelectInput, ScanPipe
<1>7. ASSUME SelectTimeout PROVE Told
  BY <1>3, <1>4, <1>7 DEF SelectTimeout
<1>8. ASSUME TimerEnds PROVE Told
  BY <1>3, <1>4, <1>8 DEF TimerEnds
<1>9. ASSUME IdleTimerFires PROVE Told
  BY <1>3, <1>4, <1>9 DEF IdleTimerFires, RequestExit
<1>10. ASSUME RecvEnds PROVE Told
  BY <1>3, <1>4, <1>10 DEF RecvEnds
<1>11. ASSUME FiniWait PROVE Told
  BY <1>3, <1>4, <1>11 DEF FiniWait, Harvest, Process
<1>12. ASSUME FiniExit PROVE Told
  BY <1>3, <1>4, <1>12 DEF FiniExit, RequestExit, LifeTime, ParentNeeds
<1>13. ASSUME FiniPoll PROVE Told
  BY <1>3, <1>4, <1>13 DEF FiniPoll, Poll, Process, LifeTime
<1>14. ASSUME Stop PROVE Told
  BY <1>3, <1>4, <1>14 DEF Stop
<1>15. ASSUME LockItems PROVE Told
  BY <1>3, <1>4, <1>15 DEF LockItems, TakeLock
<1>16. ASSUME PostItem PROVE Told
  BY <1>3, <1>4, <1>16 DEF PostItem, PostUnit
<1>17. ASSUME DrainPipe PROVE Told
  BY <1>3, <1>4, <1>17 DEF DrainPipe
<1>18. ASSUME LockResps PROVE Told
  BY <1>3, <1>4, <1>18 DEF LockResps, TakeLock
<1>19. ASSUME CallbackReturns PROVE Told
  BY <1>3, <1>4, <1>19 DEF CallbackReturns
<1>20. ASSUME Processed PROVE Told
  BY <1>3, <1>4, <1>20 DEF Processed
<1>21. ASSUME WaitItem PROVE Told
  BY <1>3, <1>4, <1>21 DEF WaitItem
<1>22. ASSUME WorkerLocks PROVE Told
  BY <1>3, <1>4, <1>22 DEF WorkerLocks, TakeLock
<1>23. ASSUME Resolve PROVE Told
  BY <1>3, <1>4, <1>23 DEF Resolve
<1>24. ASSUME Notify PROVE Told
  BY <1>3, <1>4, <1>24 DEF Notify, WorkerGoesOn, LifeTime
<1>25. ASSUME LateNotify PROVE Told
  BY <1>3, <1>4, <1>25 DEF LateNotify, LifeTime
<1>26. ASSUME UNCHANGED vars PROVE Told
  BY <1>3, <1>4, <1>26 DEF vars
<1> HIDE DEF Told
<1>27. Told
  BY <1>5, <1>6, <1>7, <1>8, <1>9, <1>10, <1>11, <1>12, <1>13, <1>14, <1>15, <1>16, <1>17, <1>18, <1>19, <1>20, <1>21, <1>22, <1>23, <1>24, <1>25, <1>26 DEF Idle
<1> QED BY <1>1, <1>2, <1>27 DEF JInv, Told

\* A request that is asked for is at one new place, in the main thread's hands.
LEMMA QueueRequestJInv ==
  ASSUME IInv, JInv, NEW r \in Requests, NEW from \in {"timer", "recv", "drainPipe"},
         ppc \in {"timer", "recv", "callback"}, from = "drainPipe" <=> ppc = "callback",
         QueueRequest(r, from)
  PROVE  JInv'
<1>1. /\ r \notin asked /\ calls' = calls /\ asked' = asked \cup {r}
      /\ pending' = pending + 1 /\ items' = items /\ resps' = resps
      /\ ppc' = "lockItems" /\ arg' = r
  BY DEF QueueRequest, CountRequest
<1>2. IsRing(items, Items) /\ IsRing(resps, Responses) /\ itemsPending \in Nat
      /\ pipe \in Nat /\ LifeTime
  BY DEF QueueRequest, IInv, TypeOK
<1>3. \A k, i : ~At(r, k, i)
  BY <1>1 DEF JInv, PlacedIsDue
<1>4. ASSUME NEW s \in Requests, NEW k, NEW i, At(s, k, i)'
      PROVE  At(s, k, i) \/ (s = r /\ k = "arg" /\ i = 0)
  BY <1>1, <1>4 DEF QueueRequest, StartThread, At
<1>5. OnePlace' /\ PlacedIsDue'
  BY <1>1, <1>3, <1>4 DEF JInv, OnePlace, PlacedIsDue
<1>6. PendingCountsUnanswered'
  <2>1. calls[r] = 0
    BY <1>1 DEF JInv, PlacedIsDue
  <2>2. Unanswered' = Unanswered \cup {r} /\ r \notin Unanswered
    BY <1>1, <2>1 DEF Unanswered
  <2>3. Unanswered \in SUBSET Requests
    BY DEF Unanswered, IInv, TypeOK
  <2>4. IsFiniteSet(Unanswered)
    BY <2>3, FS_Subset
  <2> QED BY <1>1, <2>2, <2>4, FS_AddElement DEF JInv, PendingCountsUnanswered
<1>7. ItemUnits'
  BY <1>1, <1>2 DEF QueueRequest, StartThread, IsRing, JInv, ItemUnits, NothingQueuedWithout,
                    LifeTime
<1>8. ResponseSignal'
  BY <1>1, <1>2 DEF QueueRequest, StartThread, IsRing, JInv, ResponseSignal,
                    NothingQueuedWithout, LifeTime
<1>9. NothingQueuedWithout'
  BY <1>1 DEF QueueRequest, StartThread, JInv, NothingQueuedWithout
<1> QED BY <1>5, <1>6, <1>7, <1>8, <1>9 DEF JInv

\* A request moves from the main thread's hands to the item ring.
LEMMA PutItemJInv ==
  ASSUME IInv, JInv, PutItem
  PROVE  JInv'
<1> DEFINE q == EnsureEmptySlot(items, ItemsInc)
           p == PutAtHead(q, arg)
<1>1. IsRing(items, Items) /\ arg \in Items /\ ppc = "putItem"
      /\ itemsPending \in Nat /\ resps.head \in Nat
  BY DEF IInv, TypeOK, CarriedOK, PutItem, IsRing
<1>2. IsRing(q, Items) /\ HasRoom(q)
  BY <1>1, EnsureEmptySlotIsRing
<1>3. q.head - q.tail = items.head - items.tail
  BY <1>1, EnsureEmptySlotCount
<1>4. p.alloc = q.alloc /\ p.head = q.head + 1 /\ p.tail = q.tail
  BY DEF PutAtHead
<1>5. ASSUME NEW s \in Requests, NEW i \in 0..(p.alloc - 1), p.slot[i] = s
      PROVE  At(s, "items", i) \/ (At(s, "arg", 0) /\ i = HeadSlot(q))
  <2>1. p.slot[i] = IF i = HeadSlot(q) THEN arg ELSE q.slot[i]
    BY <1>2, PutAtHeadSlots
  <2>2. s # NULL
    OBVIOUS
  <2> QED BY <1>1, <1>5, <2>1, <2>2, <1>4, EnsureEmptySlotSlots DEF At
<1>6. /\ asked' = asked /\ calls' = calls /\ pending' = pending
      /\ resps' = resps /\ warg' = warg /\ back' = back /\ pipe' = pipe
      /\ ready' = ready /\ itemsPending' = itemsPending
  BY DEF PutItem, history
<1>7. PendingCountsUnanswered'
  BY <1>6 DEF JInv, PendingCountsUnanswered, Unanswered
<1> HIDE DEF q, p
<1>8. CASE HeadSlotIsEmpty(q)
  <2>1. items' = p /\ ppc' = "postItem" /\ wpc' = wpc /\ accesslock' = "free"
    BY <1>8 DEF PutItem, p, q
  <2>2. ASSUME NEW s \in Requests, NEW k, NEW i, At(s, k, i)'
        PROVE  \/ At(s, k, i) /\ k # "arg"
               \/ At(s, "arg", 0) /\ k = "items" /\ i = HeadSlot(q)
    BY <1>5, <1>6, <2>1, <2>2 DEF At
  <2>3. OnePlace' /\ PlacedIsDue'
    BY <1>6, <2>2 DEF JInv, OnePlace, PlacedIsDue
  <2>4. ResponseSignal' /\ NothingQueuedWithout'
    BY <1>1, <1>6, <2>1 DEF JInv, ResponseSignal, NothingQueuedWithout
  <2>5. ItemUnits'
    <3>1. /\ items'.head - items'.tail = items.head - items.tail + 1
          /\ items.head \in Nat /\ items.tail \in Nat
      BY <1>1, <1>2, <1>3, <1>4, <2>1 DEF IsRing
    <3>2. items.head - items.tail <= itemsPending + (IF wpc \in {"lockItems", "takeItem"} THEN 1 ELSE 0)
      BY <1>1 DEF JInv, ItemUnits
    <3> QED BY <1>1, <1>6, <2>1, <3>1, <3>2 DEF ItemUnits
  <2> QED BY <1>7, <2>3, <2>4, <2>5 DEF JInv
<1>9. CASE ~HeadSlotIsEmpty(q)
  <2>1. ppc' = "aborted" /\ wpc' = "aborted" /\ items' = items
    BY <1>9 DEF PutItem, Abort, q
  <2>2. OnePlace' /\ PlacedIsDue'
    BY <1>6, <2>1 DEF JInv, OnePlace, PlacedIsDue, At
  <2>3. ItemUnits' /\ ResponseSignal' /\ NothingQueuedWithout'
    BY <2>1 DEF ItemUnits, ResponseSignal, NothingQueuedWithout
  <2> QED BY <1>7, <2>2, <2>3 DEF JInv
<1> QED BY <1>8, <1>9

\* A request moves from the item ring to the worker's hands.
LEMMA TakeItemJInv ==
  ASSUME IInv, JInv, TakeItem
  PROVE  JInv'
<1>1. IsRing(items, Items) /\ wpc = "takeItem" /\ itemsPending \in Nat
  BY DEF IInv, TypeOK, TakeItem
<1>2. /\ ppc' = ppc /\ arg' = arg /\ asked' = asked /\ calls' = calls
      /\ pending' = pending /\ resps' = resps /\ back' = back /\ pipe' = pipe
      /\ ready' = ready /\ itemsPending' = itemsPending /\ accesslock' = "free"
      /\ items' = AfterTake(items)
  BY DEF TakeItem, parentVars, history
<1>3. PendingCountsUnanswered'
  BY <1>2 DEF JInv, PendingCountsUnanswered, Unanswered
<1>4. IsRing(items, Items)'
  BY <1>1, <1>2, AfterTakeIsRing
<1>5. ResponseSignal' /\ NothingQueuedWithout'
  BY <1>1, <1>2 DEF TakeItem, JInv, ResponseSignal, NothingQueuedWithout
<1>6. CASE Taken(items) = NULL
  <2>1. wpc' = "wait" /\ warg' = warg
    BY <1>6 DEF TakeItem
  <2>2. /\ items'.alloc = items.alloc /\ items'.slot = items.slot
        /\ items'.head = items.head /\ items'.tail = items.head
    BY <1>1, <1>2, <1>6, NothingTaken
  <2>3. ASSUME NEW s \in Requests, NEW k, NEW i, At(s, k, i)'
      PROVE  At(s, k, i)
    BY <1>1, <1>2, <2>3, <2>1, <2>2 DEF At
  <2>4. OnePlace' /\ PlacedIsDue'
    BY <1>2, <2>3 DEF JInv, OnePlace, PlacedIsDue
  <2>5. ItemUnits'
    BY <1>1, <1>2, <2>1, <2>2 DEF IsRing, ItemUnits
  <2> QED BY <1>3, <1>5, <2>4, <2>5 DEF JInv
<1>7. CASE Taken(items) # NULL
  <2> DEFINE item == Taken(items)
             t == AfterTake(items)
  <2>1. PICK f \in 0..(items.alloc - 1) :
          /\ items.slot[f] = item
          /\ \A i \in 0..(items.alloc - 1) :
               t.slot[i] = IF i = f THEN NULL ELSE items.slot[i]
    BY <1>1, <1>7, SomethingTaken
  <2>2. t.alloc = items.alloc /\ t.head = items.head /\ items.tail < t.tail
    BY <1>1, <1>7, SomethingTaken
  <2>3. \/ item = EXIT /\ wpc' = "lockResps" /\ warg' = GONE
        \/ item \in Requests /\ wpc' = "resolve" /\ warg' = item
    BY <1>7 DEF TakeItem
  <2> HIDE DEF item, t
  <2>4. ASSUME NEW s \in Requests, NEW k, NEW i, At(s, k, i)'
        PROVE  \/ At(s, k, i) /\ k # "warg" /\ (k = "items" => i # f)
               \/ At(s, "items", f) /\ k = "warg" /\ i = 0
    BY <1>2, <2>1, <2>2, <2>3, <2>4 DEF At, t
  <2>5. OnePlace' /\ PlacedIsDue'
    BY <1>2, <2>4 DEF JInv, OnePlace, PlacedIsDue
  <2>6. ItemUnits'
    BY <1>1, <1>2, <1>4, <2>2, <2>3 DEF IsRing, JInv, ItemUnits, t
  <2> QED BY <1>3, <1>5, <2>5, <2>6 DEF JInv
<1> QED BY <1>6, <1>7

\* A request moves from the worker's hands to the response ring.
LEMMA PutResponseJInv ==
  ASSUME IInv, JInv, PutResponse
  PROVE  JInv'
<1> DEFINE q == EnsureEmptySlot(resps, ResponsesInc)
           p == PutAtHead(q, warg)
<1>1. IsRing(resps, Responses) /\ warg \in Responses /\ wpc = "putResp"
      /\ itemsPending \in Nat /\ items.head \in Nat /\ ppc # "aborted"
  BY DEF IInv, TypeOK, CarriedOK, AbortEndsBoth, PutResponse, IsRing
<1>2. IsRing(q, Responses) /\ HasRoom(q)
  BY <1>1, EnsureEmptySlotIsRing
<1>3. p.alloc = q.alloc
  BY DEF PutAtHead
<1>4. ASSUME NEW s \in Requests, NEW i \in 0..(p.alloc - 1), p.slot[i] = s
      PROVE  At(s, "resps", i) \/ (At(s, "warg", 0) /\ i = HeadSlot(q))
  <2>1. p.slot[i] = IF i = HeadSlot(q) THEN warg ELSE q.slot[i]
    BY <1>2, PutAtHeadSlots
  <2>2. s # NULL
    OBVIOUS
  <2> QED BY <1>1, <1>4, <2>1, <2>2, <1>3, EnsureEmptySlotSlots DEF At
<1>5. /\ asked' = asked /\ calls' = calls /\ pending' = pending
      /\ items' = items /\ arg' = arg /\ back' = back /\ pipe' = pipe
      /\ ready' = ready /\ itemsPending' = itemsPending
  BY DEF PutResponse, history
<1>6. PendingCountsUnanswered'
  BY <1>5 DEF JInv, PendingCountsUnanswered, Unanswered
<1> HIDE DEF q, p
<1>7. CASE HeadSlotIsEmpty(q)
  <2>1. /\ resps' = p /\ ppc' = ppc /\ accesslock' = "free"
        /\ wpc' \in {"notify", "exited", "wait"}
        /\ resps.head = resps.tail => wpc' = "notify"
    BY <1>7 DEF PutResponse, NeedsSignal, WorkerGoesOn, p, q
  <2>2. ASSUME NEW s \in Requests, NEW k, NEW i, At(s, k, i)'
        PROVE  \/ At(s, k, i) /\ k # "warg"
               \/ At(s, "warg", 0) /\ k = "resps" /\ i = HeadSlot(q)
    BY <1>4, <1>5, <2>1, <2>2 DEF At
  <2>3. OnePlace' /\ PlacedIsDue'
    BY <1>5, <2>2 DEF JInv, OnePlace, PlacedIsDue
  <2>4. ItemUnits' /\ NothingQueuedWithout'
    BY <1>1, <1>5, <2>1 DEF JInv, ItemUnits, NothingQueuedWithout
  <2>5. ResponseSignal'
    BY <1>1, <1>5, <2>1 DEF JInv, ResponseSignal
  <2> QED BY <1>6, <2>3, <2>4, <2>5 DEF JInv
<1>8. CASE ~HeadSlotIsEmpty(q)
  <2>1. ppc' = "aborted" /\ wpc' = "aborted" /\ resps' = resps
    BY <1>8 DEF PutResponse, Abort, q
  <2>2. ASSUME NEW s \in Requests, NEW k, NEW i, At(s, k, i)'
        PROVE  At(s, k, i)
    BY <1>5, <2>2, <2>1 DEF At
  <2>3. OnePlace' /\ PlacedIsDue'
    BY <1>5, <2>2 DEF JInv, OnePlace, PlacedIsDue
  <2>4. ItemUnits' /\ ResponseSignal' /\ NothingQueuedWithout'
    BY <2>1 DEF ItemUnits, ResponseSignal, NothingQueuedWithout
  <2> QED BY <1>6, <2>3, <2>4 DEF JInv
<1> QED BY <1>7, <1>8

\* The main thread takes a response: an answered request is nowhere any more.
LEMMA TakeResponseJInv ==
  ASSUME IInv, JInv, TakeResponse
  PROVE  JInv'
<1> DEFINE resp == Taken(resps)
           t == AfterTake(resps)
<1>1. IsRing(resps, Responses) /\ IsRing(items, Items) /\ ppc = "takeResp"
      /\ itemsPending \in Nat /\ resp \in Responses \cup {NULL}
  BY TakenType DEF IInv, TypeOK, TakeResponse
<1>2. IsRing(t, Responses)
  BY <1>1, AfterTakeIsRing
<1>3. /\ arg' = arg /\ asked' = asked
      /\ ppc' = IF resp \in Requests THEN "callback" ELSE "processed"
      /\ calls' = IF resp \in Requests THEN [calls EXCEPT ![resp] = @ + 1] ELSE calls
      /\ pending' = IF resp \in Requests THEN pending - 1 ELSE pending
  BY DEF TakeResponse, CountAnswer
<1>4. t.alloc = resps.alloc
      /\ \A s \in Requests : \A i \in 0..(t.alloc - 1) : t.slot[i] = s => resps.slot[i] = s
  <2>1. CASE resp = NULL
    BY <1>1, <2>1, NothingTaken
  <2>2. CASE resp # NULL
    <3>1. PICK f \in 0..(resps.alloc - 1) :
            /\ resps.slot[f] = resp
            /\ \A i \in 0..(resps.alloc - 1) :
                 t.slot[i] = IF i = f THEN NULL ELSE resps.slot[i]
      BY <1>1, <2>2, SomethingTaken
    <3>2. t.alloc = resps.alloc
      BY <1>1, <2>2, SomethingTaken
    <3> HIDE DEF t, resp
    <3> QED BY <3>1, <3>2
  <2> QED BY <2>1, <2>2
<1>5. \/ /\ resp = GONE
         /\ resps'.alloc = t.alloc /\ resps'.slot = t.slot
         /\ items'.alloc = items.alloc /\ items'.slot = items.slot
         /\ items'.head = 0 /\ items'.tail = 0 /\ resps'.head = 0 /\ resps'.tail = 0
         /\ itemsPending' = 0 /\ wpc' = "none"
      \/ /\ resp # GONE
         /\ resps' = t /\ items' = items /\ itemsPending' = itemsPending
         /\ wpc' = wpc /\ warg' = warg /\ accesslock' = "free"
  BY DEF TakeResponse, Cleanup, ResetIndices, workerVars
<1>6. resp = NULL => t.head = t.tail
  BY <1>1, NothingTaken
<1>7. ItemUnits' /\ ResponseSignal' /\ NothingQueuedWithout'
  <2> HIDE DEF resp, t
  <2> QED BY <1>1, <1>3, <1>5, <1>6
          DEF JInv, ItemUnits, ResponseSignal, NothingQueuedWithout, Responses
<1>8. ASSUME NEW s \in Requests, NEW k, NEW i, At(s, k, i)'
      PROVE  At(s, k, i)
  <2> HIDE DEF resp, t
  <2> QED BY <1>1, <1>3, <1>4, <1>5, <1>8 DEF At
<1>9. CASE resp \in Requests
  <2>1. resp # NULL
    BY <1>9
  <2>2. PICK f \in 0..(resps.alloc - 1) :
          /\ resps.slot[f] = resp
          /\ \A i \in 0..(resps.alloc - 1) :
               t.slot[i] = IF i = f THEN NULL ELSE resps.slot[i]
    BY <1>1, <2>1, SomethingTaken
  <2> HIDE DEF resp, t
  <2>3. PICK r \in Requests : r = resp
    BY <1>9
  <2>4. At(r, "resps", f)
    BY <2>2, <2>3 DEF At
  <2>5. \A k, i : ~At(r, k, i)'
    <3>1. SUFFICES ASSUME NEW k, NEW i, At(r, k, i)' PROVE FALSE
      OBVIOUS
    <3>2. k = "resps" /\ i = f
      BY <1>8, <2>4, <3>1 DEF JInv, OnePlace
    <3>3. resps'.slot[f] = r
      BY <3>1, <3>2 DEF At
    <3>4. resps' = t
      BY <1>5, <1>9
    <3> QED BY <2>1, <2>2, <2>3, <3>3, <3>4 DEF Responses
  <2>6. r \in asked /\ calls[r] = 0
    BY <2>4 DEF JInv, PlacedIsDue
  <2>7. calls \in [Requests -> Nat] /\ asked \in SUBSET Requests
    BY DEF IInv, TypeOK
  <2>8. OnePlace' /\ PlacedIsDue'
    BY <1>3, <1>8, <1>9, <2>5, <2>6, <2>7, <2>3 DEF JInv, OnePlace, PlacedIsDue
  <2>9. Unanswered' = Unanswered \ {r} /\ r \in Unanswered
    BY <1>3, <1>9, <2>6, <2>7, <2>3 DEF Unanswered
  <2>10. IsFiniteSet(Unanswered)
    BY <2>7, FS_Subset DEF Unanswered
  <2>11. PendingCountsUnanswered'
    BY <1>3, <1>9, <2>9, <2>10, FS_RemoveElement DEF JInv, PendingCountsUnanswered
  <2> QED BY <1>7, <2>8, <2>11 DEF JInv
<1>10. CASE resp \notin Requests
  <2> HIDE DEF resp, t
  <2>1. OnePlace' /\ PlacedIsDue'
    BY <1>3, <1>8, <1>10 DEF JInv, OnePlace, PlacedIsDue
  <2>2. PendingCountsUnanswered'
    BY <1>3, <1>10 DEF JInv, PendingCountsUnanswered, Unanswered
  <2> QED BY <1>7, <2>1, <2>2 DEF JInv
<1> QED BY <1>9, <1>10

\* Every step keeps both invariants.
LEMMA NextJInv == IInv /\ JInv /\ [Next]_vars => JInv'
<1> SUFFICES ASSUME IInv, JInv, [Next]_vars PROVE JInv'
  OBVIOUS
<1>1. ASSUME NEW r \in Requests, CallbackAsks(r) PROVE JInv'
  BY <1>1, QueueRequestJInv DEF CallbackAsks
<1>2. ASSUME NEW r \in Requests, Ask(r) PROVE JInv'
  BY <1>2, QueueRequestJInv DEF Ask
<1> QED
  BY <1>1, <1>2, IdleJInv, PutItemJInv, TakeItemJInv, PutResponseJInv, TakeResponseJInv
  DEF Next, Parent, Worker, Ended, Idle

\* intres_req_pending counts exactly the unanswered requests, no worker sleeps on
\* a request and no answer lies in the response queue without a signal, whatever
\* the order of the steps of both threads: work_thread.c, ntp_worker.c.
THEOREM NothingEverForgotten == Spec => []NothingForgotten
<1>1. IInv /\ JInv => NothingForgotten
  <2> SUFFICES ASSUME IInv, JInv PROVE NothingForgotten
    OBVIOUS
  <2>1. IsRing(items, Items) /\ IsRing(resps, Responses) /\ itemsPending \in Nat
        /\ (ppc = "aborted" => wpc = "aborted")
    BY DEF IInv, TypeOK, AbortEndsBoth
  <2>2. ResponseIsSignalled
    BY <2>1, NothingCounted DEF JInv, ResponseSignal, ResponseIsSignalled
  <2>3. ItemIsSignalled
    <3>1. SUFFICES ASSUME wpc = "wait", ~IsEmpty(items)
                   PROVE  itemsPending > 0 \/ ppc = "postItem"
      BY DEF ItemIsSignalled
    <3>2. items.head # items.tail
      BY <2>1, <3>1, NothingCounted
    <3>3. items.head \in Nat /\ items.tail \in Nat /\ items.tail <= items.head
      BY <2>1 DEF IsRing
    <3> QED BY <2>1, <3>1, <3>2, <3>3 DEF JInv, ItemUnits
  <2> QED BY <2>2, <2>3 DEF JInv, NothingForgotten
<1>2. Spec => []JInv
  BY InitJInv, NextJInv, SpecIInv, PTL DEF Spec
<1> QED BY <1>1, <1>2, SpecIInv, PTL

-----------------------------------------------------------------------------
(* The worker implements BlockingService.                                  *)

Fresh == \A r \in Requests : calls[r] = 0

\* The idle timer runs, and the stop goes on, with nothing pending.
TimerIdle == (idleTimer => pending = 0) /\ (ppc = "finiExit" => pending = 0)

\* Before the first request there is no worker and nothing to process.
NothingAsked ==
  asked = {} =>
    /\ child = "absent" /\ ~ready
    /\ ppc \in {"top", "select", "timer", "recv", "finiWait", "finiExit", "done"}

\* Before the first answer no worker was told to leave and no ring holds a leftover.
FirstLife ==
  Fresh =>
    /\ ~idleTimer
    /\ ppc \in {"lockItems", "putItem"} => arg # EXIT
    /\ \A i \in 0..(items.alloc - 1) : items.slot[i] # EXIT
    /\ wpc \in {"resolve", "lockResps", "putResp"} => warg # GONE
    /\ \A i \in 0..(resps.alloc - 1) : resps.slot[i] # GONE
    /\ NoLeftovers(items) /\ NoLeftovers(resps)
    /\ ppc # "aborted"

\* CHILD_GONE_RESP is never looked up.
ResolvesRequests == wpc = "resolve" => warg \in Requests

\* Inductive together with IInv and JInv.
KInv == TimerIdle /\ NothingAsked /\ FirstLife /\ ResolvesRequests

LEMMA InitKInv == Init => KInv
BY DEF Init, KInv, TimerIdle, NothingAsked, FirstLife, ResolvesRequests, Fresh, NewRing,
       NoLeftovers

\* What is in the worker's hands waits for its done_func.
LEMMA InFlightIsDue ==
  ASSUME IInv, JInv, NEW r \in Requests, InFlight(r)
  PROVE  r \in asked /\ calls[r] = 0
<1>1. IsRing(items, Items) /\ IsRing(resps, Responses)
  BY DEF IInv, TypeOK
<1>2. \E k, i : At(r, k, i)
  <2>1. CASE r \in Contents(items)
    <3>1. PICK i \in 0..(items.alloc - 1) : items.slot[i] = r
      BY <1>1, <2>1, ContentsSlot
    <3>2. At(r, "items", i)
      BY <3>1 DEF At
    <3> QED BY <3>2
  <2>2. CASE r \in Contents(resps)
    <3>1. PICK i \in 0..(resps.alloc - 1) : resps.slot[i] = r
      BY <1>1, <2>2, ContentsSlot
    <3>2. At(r, "resps", i)
      BY <3>1 DEF At
    <3> QED BY <3>2
  <2>3. CASE ppc \in {"lockItems", "putItem"} /\ arg = r
    <3>1. At(r, "arg", 0)
      BY <2>3 DEF At
    <3> QED BY <3>1
  <2>4. CASE wpc \in {"resolve", "lockResps", "putResp"} /\ warg = r
    <3>1. At(r, "warg", 0)
      BY <2>4 DEF At
    <3> QED BY <3>1
  <2> QED BY <2>1, <2>2, <2>3, <2>4 DEF InFlight
<1> QED BY <1>2 DEF JInv, PlacedIsDue

\* A request that is not answered keeps intres_req_pending above zero.
LEMMA DueIsPending ==
  ASSUME IInv, JInv, NEW r \in Requests, r \in asked, calls[r] = 0
  PROVE  pending # 0
<1>1. Unanswered \in SUBSET Requests /\ r \in Unanswered
  BY DEF IInv, TypeOK, Unanswered
<1>2. IsFiniteSet(Unanswered)
  BY <1>1, FS_Subset
<1>3. Cardinality(Unanswered) # 0
  BY <1>1, <1>2, FS_EmptySet
<1> QED BY <1>3 DEF JInv, PendingCountsUnanswered

\* The response the main thread takes is that of a request it waits for.
LEMMA TakenIsDue ==
  ASSUME IInv, JInv, ppc = "takeResp", Taken(resps) \in Requests
  PROVE  InFlight(Taken(resps))
<1>1. IsRing(resps, Responses) /\ Taken(resps) # NULL
  BY DEF IInv, TypeOK
<1> QED BY <1>1, AfterTakeContents DEF InFlight

LEMMA TimerIdleNext ==
  ASSUME IInv, JInv, TimerIdle, [Next]_vars
  PROVE  TimerIdle'
<1> USE DEF TimerIdle
<1>0. pending \in Nat /\ idleTimer \in BOOLEAN
  <2>1. Unanswered \in SUBSET Requests
    BY DEF IInv, TypeOK, Unanswered
  <2>2. Cardinality(Unanswered) \in Nat
    BY <2>1, FS_Subset, FS_CardinalityType
  <2> QED BY <2>2 DEF IInv, TypeOK, JInv, PendingCountsUnanswered
<1>1. ASSUME NEW r \in Requests, NEW from \in {"timer", "recv", "drainPipe"},
             QueueRequest(r, from)
      PROVE  TimerIdle'
  BY <1>0, <1>1 DEF QueueRequest, ClearIdleTimer
<1>2. CASE TakeResponse
  <2>1. idleTimer' = idleTimer /\ ppc' # "finiExit" /\ ppc = "takeResp"
    BY <1>2 DEF TakeResponse
  <2>2. CASE Taken(resps) \in Requests
    <3>1. PICK r \in Requests : r = Taken(resps)
      BY <2>2
    <3>2. pending # 0
      BY <2>1, <2>2, <3>1, TakenIsDue, InFlightIsDue, DueIsPending
    <3> QED BY <2>1, <3>2
  <2>3. CASE Taken(resps) \notin Requests
    BY <1>2, <2>1, <2>3 DEF TakeResponse, CountAnswer
  <2> QED BY <2>2, <2>3
<1> USE DEF parentVars, childVars, workerVars, history
<1>3. CASE LockItems \/ PutItem \/ PostItem \/ DrainPipe \/ LockResps \/ CallbackReturns
  BY <1>3 DEF LockItems, PutItem, PostItem, Abort, DrainPipe, LockResps, CallbackReturns,
              IInv, TypeOK
<1>4. CASE Processed \/ Top \/ SelectInput \/ SelectTimeout \/ TimerEnds \/ IdleTimerFires
  <2>1. CASE Processed
    <3>1. ppc' # "finiExit" /\ pending' = pending
      BY <2>1 DEF Processed, IInv, TypeOK
    <3>2. idleTimer' = (idleTimer \/ pending = 0)
      BY <2>1 DEF Processed
    <3> QED BY <1>0, <3>1, <3>2
  <2>2. CASE Top \/ SelectInput \/ SelectTimeout \/ TimerEnds
    BY <1>0, <2>2 DEF Top, Harvest, Process, SelectInput, SelectTimeout, TimerEnds
  <2>3. CASE IdleTimerFires
    BY <2>3 DEF IdleTimerFires, RequestExit
  <2> QED BY <1>4, <2>1, <2>2, <2>3
<1>5. CASE RecvEnds \/ FiniWait \/ FiniExit \/ FiniPoll \/ Stop \/ UNCHANGED vars
  BY <1>0, <1>5 DEF RecvEnds, FiniWait, Harvest, Process, FiniExit, RequestExit, FiniPoll,
              Poll, Stop, vars
<1>6. CASE Worker \/ LateNotify
  BY <1>0, <1>6 DEF Worker, WaitItem, WorkerLocks, TakeItem, Resolve, PutResponse, Abort, Notify,
              LateNotify
<1> QED
  BY <1>1, <1>2, <1>3, <1>4, <1>5, <1>6 DEF Next, Parent, CallbackAsks, Ask, Ended

LEMMA NothingAskedNext ==
  ASSUME IInv, NothingAsked, [Next]_vars
  PROVE  NothingAsked'
<1>1. SUFFICES ASSUME asked' = {}
               PROVE  /\ child' = "absent" /\ ~ready'
                      /\ ppc' \in {"top", "select", "timer", "recv", "finiWait",
                                   "finiExit", "done"}
  BY DEF NothingAsked
<1>2. asked = {}
  <2>1. ASSUME NEW r \in Requests, NEW from, QueueRequest(r, from) PROVE FALSE
    BY <1>1, <2>1 DEF QueueRequest
  <2>2. ASSUME NEW r \in Requests, CallbackAsks(r) \/ Ask(r) PROVE FALSE
    BY <2>1, <2>2 DEF CallbackAsks, Ask
  <2> QED
    BY <1>1, <2>2
    DEF Next, Parent, Worker, LockItems, PutItem, PostItem, DrainPipe, LockResps,
        TakeResponse, CallbackReturns, Processed, Top, SelectInput, SelectTimeout,
        TimerEnds, IdleTimerFires, RecvEnds, FiniWait, FiniExit, FiniPoll, Stop,
        WaitItem, WorkerLocks, TakeItem, Resolve, PutResponse, Notify, LateNotify, Ended,
        vars, parentVars, childVars, workerVars, history
<1>3. /\ child = "absent" /\ ~ready /\ wpc = "none" /\ accesslock = "none" /\ pipe = 0
      /\ ppc \in {"top", "select", "timer", "recv", "finiWait", "finiExit", "done"}
  BY <1>2 DEF NothingAsked, IInv, LifeTime
<1>4. ASSUME NEW r \in Requests, CallbackAsks(r) \/ Ask(r) PROVE FALSE
  BY <1>1, <1>4 DEF CallbackAsks, Ask, QueueRequest
<1> USE DEF parentVars, childVars, workerVars, history
<1> DEFINE Goal == /\ child' = "absent" /\ ~ready'
                   /\ ppc' \in {"top", "select", "timer", "recv", "finiWait",
                                "finiExit", "done"}
<1>5. ASSUME Top \/ SelectInput \/ SelectTimeout \/ TimerEnds \/ IdleTimerFires
      PROVE  Goal
  <2>1. CASE Top \/ SelectTimeout \/ TimerEnds
    BY <1>3, <2>1 DEF Top, Harvest, Process, SelectTimeout, TimerEnds
  <2>2. CASE SelectInput
    <3>1. ~(pipe > 0)
      BY <1>3
    <3>2. ready' = (ready \/ pipe > 0) /\ child' = child /\ ppc' = "recv"
      BY <2>2 DEF SelectInput, ScanPipe
    <3>3. ~ready'
      BY <1>3, <3>1, <3>2, Zenon
    <3> QED BY <1>3, <3>2, <3>3
  <2>3. CASE IdleTimerFires
    BY <1>3, <2>3 DEF IdleTimerFires, RequestExit
  <2> QED BY <1>5, <2>1, <2>2, <2>3
<1>6. ASSUME RecvEnds \/ FiniWait \/ FiniExit \/ FiniPoll \/ Stop \/ LateNotify
             \/ UNCHANGED vars
      PROVE  Goal
  BY <1>3, <1>6 DEF RecvEnds, FiniWait, Harvest, Process, FiniExit, FiniPoll, Stop,
                    LateNotify, vars
<1>7. ASSUME LockItems \/ PutItem \/ PostItem \/ DrainPipe \/ LockResps \/ TakeResponse
             \/ CallbackReturns \/ Processed \/ Worker
      PROVE  FALSE
  BY <1>3, <1>7 DEF LockItems, PutItem, PostItem, DrainPipe, LockResps, TakeResponse,
                    CallbackReturns, Processed, Worker, WaitItem, WorkerLocks, TakeItem,
                    Resolve, PutResponse, Notify
<1> HIDE DEF Goal
<1>8. Goal
  BY <1>4, <1>5, <1>6, <1>7 DEF Next, Parent, Ended
<1> QED BY <1>8 DEF Goal

\* Only receive_blocking_resp_internal calls a done_func.
LEMMA OtherStepsCallNobody ==
  ASSUME [Next]_vars, ~TakeResponse
  PROVE  calls' = calls
<1> USE DEF history
<1>1. ASSUME NEW r \in Requests, CallbackAsks(r) \/ Ask(r) PROVE calls' = calls
  BY <1>1 DEF CallbackAsks, Ask, QueueRequest
<1>2. CASE Idle
  BY <1>2, IdleHistory
<1>3. CASE PutItem \/ TakeItem \/ PutResponse
  BY <1>3 DEF PutItem, TakeItem, PutResponse
<1> QED BY <1>1, <1>2, <1>3 DEF Next, Parent, Worker, Ended, Idle

LEMMA FirstLifeNext ==
  ASSUME IInv, JInv, KInv, [Next]_vars
  PROVE  FirstLife'
<1>1. SUFFICES ASSUME Fresh' PROVE FirstLife'
  BY DEF FirstLife
<1>2. calls' = calls /\ Fresh
  <2>1. CASE TakeResponse /\ Taken(resps) \in Requests
    <3>1. PICK r \in Requests : r = Taken(resps)
      BY <2>1
    <3>2. calls' = [calls EXCEPT ![r] = @ + 1] /\ calls \in [Requests -> Nat]
      BY <2>1, <3>1 DEF TakeResponse, IInv, TypeOK
    <3>3. calls'[r] = 0
      BY <1>1 DEF Fresh
    <3> QED BY <3>2, <3>3
  <2>2. CASE TakeResponse /\ Taken(resps) \notin Requests
    BY <1>1, <2>2 DEF TakeResponse, Fresh
  <2>3. CASE ~TakeResponse
    BY <1>1, <2>3, OtherStepsCallNobody DEF Fresh
  <2> QED BY <2>1, <2>2, <2>3
<1>3. /\ ~idleTimer
      /\ ppc \in {"lockItems", "putItem"} => arg # EXIT
      /\ \A i \in 0..(items.alloc - 1) : items.slot[i] # EXIT
      /\ wpc \in {"resolve", "lockResps", "putResp"} => warg # GONE
      /\ \A i \in 0..(resps.alloc - 1) : resps.slot[i] # GONE
      /\ NoLeftovers(items) /\ NoLeftovers(resps)
      /\ ppc # "aborted"
  BY <1>2 DEF KInv, FirstLife
<1>4. /\ IsRing(items, Items) /\ IsRing(resps, Responses)
      /\ back \in {"top", "timer", "recv", "drainPipe", "finiPoll"}
      /\ after \in {"select", "finiWait", "finiPoll"}
      /\ (ppc \in {"lockItems", "putItem"} => arg \in Items)
      /\ (wpc \in {"resolve", "lockResps", "putResp"} => warg \in Responses)
  BY DEF IInv, TypeOK, CarriedOK
<1>5. pending = 0 => asked = {}
  <2>1. SUFFICES ASSUME NEW r \in asked PROVE pending # 0
    OBVIOUS
  <2>2. r \in Requests /\ calls[r] = 0
    BY <1>2 DEF IInv, TypeOK, Fresh
  <2> QED BY <2>2, DueIsPending
<1> DEFINE Rings == /\ \A i \in 0..(items'.alloc - 1) : items'.slot[i] # EXIT
                    /\ \A i \in 0..(resps'.alloc - 1) : resps'.slot[i] # GONE
                    /\ NoLeftovers(items') /\ NoLeftovers(resps')
           Rest == /\ ~idleTimer'
                   /\ ppc' \in {"lockItems", "putItem"} => arg' # EXIT
                   /\ wpc' \in {"resolve", "lockResps", "putResp"} => warg' # GONE
                   /\ ppc' # "aborted"
<1>6. SUFFICES Rings /\ Rest
  BY DEF FirstLife, NoLeftovers
<1>7. CASE Idle
  <2>1. Rings
    BY <1>3, <1>7, IdleHistory
  <2> HIDE DEF Rings
  <2> USE DEF parentVars, childVars, workerVars, history
  <2>2. ASSUME Processed PROVE Rest
    <3>1. pending # 0
      BY <1>5, <2>2 DEF Processed, KInv, NothingAsked
    <3>2. idleTimer' = (idleTimer \/ pending = 0)
      BY <2>2 DEF Processed
    <3>3. ~idleTimer'
      BY <1>3, <3>1, <3>2, Zenon
    <3> QED BY <1>3, <1>4, <2>2, <3>3 DEF Processed
  <2>3. ASSUME FiniExit PROVE Rest
    <3>1. child = "absent"
      BY <1>5, <2>3 DEF FiniExit, KInv, TimerIdle, NothingAsked
    <3> QED BY <1>3, <2>3, <3>1 DEF FiniExit
  <2>4. ASSUME Top \/ SelectInput \/ SelectTimeout \/ TimerEnds \/ IdleTimerFires
               \/ RecvEnds
        PROVE  Rest
    BY <1>3, <2>4 DEF Top, Harvest, Process, SelectInput, SelectTimeout, TimerEnds,
                      IdleTimerFires, IdleTimerDue, RecvEnds
  <2>5. ASSUME FiniWait \/ FiniPoll \/ Stop \/ LockItems \/ PostItem PROVE Rest
    BY <1>3, <1>4, <2>5 DEF FiniWait, Harvest, Process, FiniPoll, Poll, Stop, LockItems,
                            PostItem
  <2>6. ASSUME DrainPipe \/ LockResps \/ CallbackReturns \/ UNCHANGED vars PROVE Rest
    BY <1>3, <2>6 DEF DrainPipe, LockResps, CallbackReturns, vars
  <2>7. ASSUME WaitItem \/ WorkerLocks \/ Resolve \/ Notify \/ LateNotify PROVE Rest
    BY <1>3, <2>7 DEF WaitItem, WorkerLocks, Resolve, Notify, WorkerGoesOn, LateNotify
  <2> HIDE DEF Rest
  <2>8. Rest
    BY <1>7, <2>2, <2>3, <2>4, <2>5, <2>6, <2>7 DEF Idle
  <2> QED BY <2>1, <2>8
<1>8. ASSUME NEW r \in Requests, NEW from \in {"timer", "recv", "drainPipe"},
             QueueRequest(r, from)
      PROVE  Rings /\ Rest
  BY <1>3, <1>8 DEF QueueRequest, ClearIdleTimer, StartThread
<1>9. CASE PutItem
  <2> DEFINE q == EnsureEmptySlot(items, ItemsInc)
             p == PutAtHead(q, arg)
  <2>1. IsRing(q, Items) /\ HasRoom(q)
    BY <1>4, EnsureEmptySlotIsRing
  <2>2. NoLeftovers(q)
    BY <1>3, <1>4, EnsureEmptySlotLeftovers
  <2>3. HeadSlotIsEmpty(q)
    BY <2>1, <2>2, NoLeftoverAtHead
  <2>4. NoLeftovers(p)
    BY <2>1, <2>2, PutAtHeadLeftovers
  <2>5. items' = p /\ ppc' = "postItem" /\ wpc' = wpc /\ ppc = "putItem"
        /\ resps' = resps /\ idleTimer' = idleTimer /\ warg' = warg
    BY <1>9, <2>3 DEF PutItem
  <2>6. ASSUME NEW i \in 0..(p.alloc - 1) PROVE p.slot[i] # EXIT
    <3>1. p.alloc = q.alloc
      BY DEF PutAtHead
    <3>2. p.slot[i] = IF i = HeadSlot(q) THEN arg ELSE q.slot[i]
      BY <2>1, PutAtHeadSlots
    <3> HIDE DEF p, q
    <3> QED BY <1>3, <1>4, <2>5, <3>1, <3>2, EnsureEmptySlotSlots DEF q
  <2> HIDE DEF p, q
  <2> QED BY <1>3, <2>4, <2>5, <2>6
<1>10. CASE PutResponse
  <2> DEFINE q == EnsureEmptySlot(resps, ResponsesInc)
             p == PutAtHead(q, warg)
  <2>1. IsRing(q, Responses) /\ HasRoom(q)
    BY <1>4, EnsureEmptySlotIsRing
  <2>2. NoLeftovers(q)
    BY <1>3, <1>4, EnsureEmptySlotLeftovers
  <2>3. HeadSlotIsEmpty(q)
    BY <2>1, <2>2, NoLeftoverAtHead
  <2>4. NoLeftovers(p)
    BY <2>1, <2>2, PutAtHeadLeftovers
  <2>5. resps' = p /\ ppc' = ppc /\ wpc = "putResp" /\ arg' = arg
        /\ wpc' \in {"notify", "exited", "wait"}
        /\ items' = items /\ idleTimer' = idleTimer
    BY <1>10, <2>3 DEF PutResponse, WorkerGoesOn
  <2>6. ASSUME NEW i \in 0..(p.alloc - 1) PROVE p.slot[i] # GONE
    <3>1. p.alloc = q.alloc
      BY DEF PutAtHead
    <3>2. p.slot[i] = IF i = HeadSlot(q) THEN warg ELSE q.slot[i]
      BY <2>1, PutAtHeadSlots
    <3> HIDE DEF p, q
    <3> QED BY <1>3, <1>4, <2>5, <3>1, <3>2, EnsureEmptySlotSlots DEF q
  <2> HIDE DEF p, q
  <2> QED BY <1>3, <2>4, <2>5, <2>6
<1>11. CASE TakeItem
  <2> DEFINE t == AfterTake(items)
  <2>1. items' = t /\ resps' = resps /\ idleTimer' = idleTimer /\ ppc' = ppc /\ arg' = arg
    BY <1>11 DEF TakeItem, parentVars
  <2>2. NoLeftovers(t)
    BY <1>3, <1>4, AfterTakeLeftovers
  <2>3. Taken(items) # EXIT /\ \A i \in 0..(t.alloc - 1) : t.slot[i] # EXIT
    <3>1. CASE Taken(items) = NULL
      BY <1>3, <1>4, <3>1, NothingTaken
    <3>2. CASE Taken(items) # NULL
      BY <1>3, <1>4, <3>2, SomethingTaken
    <3> QED BY <3>1, <3>2
  <2>4. wpc' = "wait" \/ (wpc' = "resolve" /\ warg' \in Requests)
    BY <1>11, <2>3 DEF TakeItem
  <2> HIDE DEF t
  <2> QED BY <1>3, <2>1, <2>2, <2>3, <2>4
<1>12. CASE TakeResponse
  <2> DEFINE t == AfterTake(resps)
  <2>1. Taken(resps) # GONE /\ \A i \in 0..(t.alloc - 1) : t.slot[i] # GONE
    <3>1. CASE Taken(resps) = NULL
      BY <1>3, <1>4, <3>1, NothingTaken
    <3>2. CASE Taken(resps) # NULL
      BY <1>3, <1>4, <3>2, SomethingTaken
    <3> QED BY <3>1, <3>2
  <2>2. NoLeftovers(t)
    BY <1>3, <1>4, AfterTakeLeftovers
  <2>3. resps' = t /\ items' = items /\ idleTimer' = idleTimer
        /\ ppc' \in {"callback", "processed"} /\ wpc' = wpc /\ warg' = warg
    BY <1>12, <2>1 DEF TakeResponse, workerVars
  <2> HIDE DEF t
  <2> QED BY <1>3, <2>1, <2>2, <2>3
<1> HIDE DEF Rings, Rest
<1> QED
  BY <1>7, <1>8, <1>9, <1>10, <1>11, <1>12
  DEF Next, Parent, Worker, Ended, Idle, CallbackAsks, Ask

LEMMA ResolvesRequestsNext ==
  ASSUME ResolvesRequests, [Next]_vars
  PROVE  ResolvesRequests'
<1> USE DEF ResolvesRequests, parentVars, childVars, workerVars, history
<1>1. ASSUME NEW r \in Requests, CallbackAsks(r) \/ Ask(r) PROVE ResolvesRequests'
  BY <1>1 DEF CallbackAsks, Ask, QueueRequest, StartThread
<1>2. CASE LockItems \/ PutItem \/ PostItem \/ DrainPipe \/ LockResps \/ TakeResponse
           \/ CallbackReturns \/ Processed
  BY <1>2 DEF LockItems, PutItem, Abort, PostItem, DrainPipe, LockResps, TakeResponse, Cleanup,
              CallbackReturns, Processed
<1>3. CASE Top \/ SelectInput \/ SelectTimeout \/ TimerEnds \/ IdleTimerFires \/ RecvEnds
           \/ FiniWait \/ FiniExit \/ FiniPoll \/ Stop \/ UNCHANGED vars
  BY <1>3 DEF Top, SelectInput, SelectTimeout, TimerEnds, IdleTimerFires, RecvEnds, FiniWait,
              FiniExit, FiniPoll, Stop, vars
<1>4. CASE Worker \/ LateNotify
  BY <1>4 DEF Worker, WaitItem, WorkerLocks, TakeItem, Resolve, PutResponse, WorkerGoesOn,
              Abort, Notify, LateNotify
<1> QED BY <1>1, <1>2, <1>3, <1>4 DEF Next, Parent, Ended

LEMMA NextKInv == IInv /\ JInv /\ KInv /\ [Next]_vars => KInv'
BY TimerIdleNext, NothingAskedNext, FirstLifeNext, ResolvesRequestsNext DEF KInv

-----------------------------------------------------------------------------
\* What a step does to the service, in terms of who is in flight and who leaves.
ServiceStays ==
  /\ asked' = asked /\ calls' = calls
  /\ \A r \in Requests : InFlight(r)' <=> InFlight(r)
  /\ Leaving' <=> Leaving

LEMMA StaysStutters ==
  ASSUME ServiceStays
  PROVE  UNCHANGED <<Status, Leaving>>
<1>1. Status' = Status
  BY DEF ServiceStays, Status
<1>2. Leaving' = Leaving
  BY DEF ServiceStays, Leaving
<1> QED BY <1>1, <1>2

\* A stop or an idle timer that tells the worker to leave does so with nobody waiting.
LEMMA ExitIsDismissal ==
  ASSUME IInv, JInv, pending = 0, ppc \in {"timer", "finiExit"},
         NEW from \in {"recv", "finiPoll"}, RequestExit(from),
         UNCHANGED <<childVars, workerVars, history>>
  PROVE  Service!Dismiss \/ UNCHANGED <<Status, Leaving>>
<1> USE DEF childVars, workerVars, history
<1>1. \A r \in Requests : InFlight(r)' <=> InFlight(r)
  BY DEF RequestExit, InFlight
<1>2. CASE Leaving' <=> Leaving
  BY <1>1, <1>2, StaysStutters DEF ServiceStays
<1>3. CASE ~(Leaving' <=> Leaving)
  <2>1. Leaving' /\ ~Leaving
    BY <1>3 DEF RequestExit, Leaving
  <2>2. ASSUME NEW r \in Requests PROVE Status[r] # "waiting"
    <3>1. r \in asked => calls[r] # 0
      BY DueIsPending
    <3>2. calls[r] \in Nat
      BY DEF IInv, TypeOK
    <3> QED BY <3>1, <3>2 DEF Status
  <2>3. Status' = Status
    BY <1>1 DEF Status
  <2> QED BY <2>1, <2>2, <2>3 DEF Service!Dismiss
<1> QED BY <1>2, <1>3

\* Steps that move no request, except for telling the worker to leave.
LEMMA IdleService ==
  ASSUME IInv, JInv, KInv, Idle
  PROVE  Service!Next \/ UNCHANGED <<Status, Leaving>>
<1> USE DEF parentVars, childVars, workerVars, history
<1>1. ASSUME IdleTimerFires PROVE Service!Next \/ UNCHANGED <<Status, Leaving>>
  <2>1. pending = 0
    BY <1>1 DEF IdleTimerFires, IdleTimerDue, KInv, TimerIdle
  <2> QED BY <1>1, <2>1, ExitIsDismissal DEF IdleTimerFires, Service!Next
<1>2. ASSUME FiniExit PROVE Service!Next \/ UNCHANGED <<Status, Leaving>>
  <2>1. pending = 0
    BY <1>2 DEF FiniExit, KInv, TimerIdle
  <2>2. CASE child = "absent"
    <3>1. ServiceStays
      BY <1>2, <2>2 DEF FiniExit, ServiceStays, InFlight, Leaving
    <3> QED BY <3>1, StaysStutters
  <2>3. CASE child # "absent"
    BY <1>2, <2>1, <2>3, ExitIsDismissal DEF FiniExit, Service!Next
  <2> QED BY <2>2, <2>3
<1>3. /\ items' = items /\ resps' = resps /\ asked' = asked /\ calls' = calls
  BY IdleHistory
<1>4. /\ back \in {"top", "timer", "recv", "drainPipe", "finiPoll"}
      /\ after \in {"select", "finiWait", "finiPoll"}
      /\ (wpc = "resolve" => warg # GONE)
  BY DEF IInv, TypeOK, KInv, ResolvesRequests
<1>5. ASSUME ~IdleTimerFires, ~FiniExit
      PROVE  /\ ppc' = "aborted" <=> ppc = "aborted"
             /\ ppc' \in {"lockItems", "putItem"} <=> ppc \in {"lockItems", "putItem"}
             /\ ppc \in {"lockItems", "putItem"} => arg' = arg
             /\ wpc' \in {"resolve", "lockResps", "putResp"}
                  <=> wpc \in {"resolve", "lockResps", "putResp"}
             /\ wpc \in {"resolve", "lockResps", "putResp"} => warg' = warg
             /\ warg = GONE =>
                  (wpc' \in {"lockResps", "putResp"} <=> wpc \in {"lockResps", "putResp"})
  <2>1. CASE Top \/ SelectInput \/ SelectTimeout \/ TimerEnds \/ RecvEnds \/ FiniWait
    BY <2>1 DEF Top, Harvest, Process, SelectInput, SelectTimeout, TimerEnds, RecvEnds,
                FiniWait
  <2>2. CASE FiniPoll \/ Stop \/ LockItems \/ PostItem \/ DrainPipe \/ LockResps
    BY <1>4, <2>2 DEF FiniPoll, Poll, Process, Stop, LockItems, PostItem, DrainPipe,
                      LockResps
  <2>3. CASE CallbackReturns \/ Processed \/ UNCHANGED vars
    BY <1>4, <2>3 DEF CallbackReturns, Processed, vars
  <2>4. CASE WaitItem \/ WorkerLocks \/ Resolve \/ Notify \/ LateNotify
    BY <1>4, <2>4 DEF WaitItem, WorkerLocks, Resolve, Notify, WorkerGoesOn, LateNotify
  <2> QED BY <1>5, <2>1, <2>2, <2>3, <2>4 DEF Idle
<1>6. ASSUME ~IdleTimerFires, ~FiniExit PROVE ServiceStays
  <2>1. \A r \in Requests : InFlight(r)' <=> InFlight(r)
    BY <1>3, <1>5, <1>6 DEF InFlight
  <2>2. Leaving' <=> Leaving
    BY <1>3, <1>5, <1>6 DEF Leaving
  <2> QED BY <1>3, <2>1, <2>2 DEF ServiceStays
<1> QED BY <1>1, <1>2, <1>6, StaysStutters

\* A request that is asked for waits.
LEMMA QueueRequestService ==
  ASSUME IInv, JInv, NEW r \in Requests, NEW from \in {"timer", "recv", "drainPipe"},
         ppc \in {"timer", "recv", "callback"}, QueueRequest(r, from)
  PROVE  Service!Ask(r)
<1>1. /\ r \notin asked /\ calls[r] = 0 /\ ppc # "aborted" /\ LifeTime
      /\ asked' = asked \cup {r} /\ calls' = calls
      /\ items' = items /\ resps' = resps /\ ppc' = "lockItems" /\ arg' = r
      /\ \/ wpc = "none" /\ wpc' = "wait"
         \/ wpc' = wpc /\ warg' = warg
  BY DEF QueueRequest, StartThread, JInv, PlacedIsDue, IInv, LifeTime
<1>2. \A s \in Requests : s # r => (InFlight(s)' <=> InFlight(s))
  BY <1>1 DEF InFlight
<1>3. InFlight(r)'
  BY <1>1 DEF InFlight
<1>4. Leaving' <=> Leaving
  BY <1>1 DEF Leaving
<1>5. Status[r] = "new"
  BY <1>1 DEF Status
<1>6. Status' = [Status EXCEPT ![r] = "waiting"]
  <2>1. ASSUME NEW s \in Requests
        PROVE  Status'[s] = IF s = r THEN "waiting" ELSE Status[s]
    BY <1>1, <1>2, <1>3 DEF Status
  <2>2. Status' = [s \in Requests |-> Status'[s]] /\ DOMAIN Status = Requests
    BY DEF Status
  <2> QED BY <2>1, <2>2
<1>7. Leaving' = Leaving
  BY <1>4 DEF Leaving
<1> QED BY <1>5, <1>6, <1>7 DEF Service!Ask

\* A failed INSIST ends the service, after a first answer.
LEMMA AbortIsDeath ==
  ASSUME IInv, KInv', ppc # "aborted", ppc' = "aborted", asked' = asked, calls' = calls
  PROVE  Service!Die
<1>1. calls \in [Requests -> Nat]
  BY DEF IInv, TypeOK
<1>2. PICK r \in Requests : calls[r] > 0
  BY <1>1 DEF KInv, FirstLife, Fresh
<1>3. Status[r] = "answered"
  BY <1>2 DEF Status
<1>4. ~Leaving' /\ \A s \in Requests : ~InFlight(s)'
  BY DEF Leaving, InFlight
<1>5. Status' = [s \in Requests |-> IF Status[s] = "waiting" THEN "lost" ELSE Status[s]]
  BY <1>4 DEF Status
<1> QED BY <1>3, <1>4, <1>5 DEF Service!Die

\* The state of the service with the contents of both rings as sets: what a thread
\* carries and what a ring holds are both in the service's hands.
LEMMA PutItemService ==
  ASSUME IInv, KInv', PutItem
  PROVE  Service!Next \/ UNCHANGED <<Status, Leaving>>
<1> DEFINE q == EnsureEmptySlot(items, ItemsInc)
           p == PutAtHead(q, arg)
<1>1. IsRing(items, Items) /\ arg \in Items /\ ppc = "putItem"
  BY DEF IInv, TypeOK, CarriedOK, PutItem
<1>2. /\ asked' = asked /\ calls' = calls /\ resps' = resps /\ warg' = warg /\ arg' = arg
  BY DEF PutItem, history
<1>3. CASE HeadSlotIsEmpty(q)
  <2>1. IsRing(q, Items) /\ HasRoom(q)
    BY <1>1, EnsureEmptySlotIsRing
  <2>2. Contents(q) = Contents(items)
    BY <1>1, EnsureEmptySlotContents
  <2>3. arg # NULL
    BY <1>1 DEF Items
  <2>4. Contents(p) = Contents(items) \cup {arg}
    BY <1>3, <2>1, <2>2, <2>3, PutAtHeadContents
  <2>5. items' = p /\ ppc' = "postItem" /\ wpc' = wpc
    BY <1>3 DEF PutItem
  <2> HIDE DEF p, q
  <2>6. \A r \in Requests : InFlight(r)' <=> InFlight(r)
    BY <1>1, <1>2, <2>4, <2>5 DEF InFlight
  <2>7. Leaving' <=> Leaving
    BY <1>1, <1>2, <2>4, <2>5 DEF Leaving
  <2> QED BY <1>2, <2>6, <2>7, StaysStutters DEF ServiceStays
<1>4. CASE ~HeadSlotIsEmpty(q)
  <2>1. ppc' = "aborted"
    BY <1>4 DEF PutItem, Abort
  <2> QED BY <1>1, <1>2, <2>1, AbortIsDeath DEF Service!Next
<1> QED BY <1>3, <1>4

LEMMA PutResponseService ==
  ASSUME IInv, KInv', PutResponse
  PROVE  Service!Next \/ UNCHANGED <<Status, Leaving>>
<1> DEFINE q == EnsureEmptySlot(resps, ResponsesInc)
           p == PutAtHead(q, warg)
<1>1. IsRing(resps, Responses) /\ warg \in Responses /\ wpc = "putResp" /\ ppc # "aborted"
  BY DEF IInv, TypeOK, CarriedOK, AbortEndsBoth, PutResponse
<1>2. asked' = asked /\ calls' = calls /\ items' = items /\ arg' = arg
  BY DEF PutResponse, history
<1>3. CASE HeadSlotIsEmpty(q)
  <2>1. IsRing(q, Responses) /\ HasRoom(q)
    BY <1>1, EnsureEmptySlotIsRing
  <2>2. Contents(q) = Contents(resps)
    BY <1>1, EnsureEmptySlotContents
  <2>3. warg # NULL
    BY <1>1 DEF Responses
  <2>4. Contents(p) = Contents(resps) \cup {warg}
    BY <1>3, <2>1, <2>2, <2>3, PutAtHeadContents
  <2>5. resps' = p /\ ppc' = ppc /\ wpc' \in {"notify", "exited", "wait"}
    BY <1>3 DEF PutResponse, WorkerGoesOn
  <2> HIDE DEF p, q
  <2>6. \A r \in Requests : InFlight(r)' <=> InFlight(r)
    BY <1>1, <1>2, <2>4, <2>5 DEF InFlight
  <2>7. Leaving' <=> Leaving
    BY <1>1, <1>2, <2>4, <2>5 DEF Leaving
  <2> QED BY <1>2, <2>6, <2>7, StaysStutters DEF ServiceStays
<1>4. CASE ~HeadSlotIsEmpty(q)
  <2>1. ppc' = "aborted"
    BY <1>4 DEF PutResponse, Abort
  <2> QED BY <1>1, <1>2, <2>1, AbortIsDeath DEF Service!Next
<1> QED BY <1>3, <1>4

LEMMA TakeItemService ==
  ASSUME IInv, TakeItem
  PROVE  ServiceStays
<1> DEFINE item == Taken(items)
           t == AfterTake(items)
<1>1. IsRing(items, Items) /\ wpc = "takeItem" /\ ppc # "aborted"
  BY DEF IInv, TypeOK, AbortEndsBoth, TakeItem
<1>2. /\ asked' = asked /\ calls' = calls /\ resps' = resps /\ arg' = arg /\ ppc' = ppc
      /\ items' = t
  BY DEF TakeItem, parentVars, history
<1>3. CASE item = NULL
  <2>1. Contents(items) = {} /\ Contents(t) = {}
    BY <1>1, <1>3, NothingTakenContents
  <2>2. wpc' = "wait"
    BY <1>3 DEF TakeItem
  <2> HIDE DEF item, t
  <2> QED BY <1>1, <1>2, <2>1, <2>2 DEF ServiceStays, InFlight, Leaving
<1>4. CASE item # NULL
  <2>1. /\ item \in Contents(items) /\ Contents(t) \subseteq Contents(items)
        /\ Contents(items) \ {item} \subseteq Contents(t)
    BY <1>1, <1>4, AfterTakeContents
  <2>2. \/ item = EXIT /\ wpc' = "lockResps" /\ warg' = GONE
        \/ item \in Requests /\ wpc' = "resolve" /\ warg' = item
    BY <1>4 DEF TakeItem
  <2> HIDE DEF item, t
  <2>3. \A r \in Requests : InFlight(r)' <=> InFlight(r)
    BY <1>1, <1>2, <2>1, <2>2 DEF InFlight
  <2>4. Leaving' <=> Leaving
    BY <1>1, <1>2, <2>1, <2>2 DEF Leaving
  <2> QED BY <1>2, <2>3, <2>4 DEF ServiceStays
<1> QED BY <1>3, <1>4

LEMMA TakeResponseService ==
  ASSUME IInv, JInv, TakeResponse
  PROVE  Service!Next \/ UNCHANGED <<Status, Leaving>>
<1> DEFINE resp == Taken(resps)
           t == AfterTake(resps)
<1>1. /\ IsRing(resps, Responses) /\ IsRing(items, Items) /\ ppc = "takeResp"
      /\ resp \in Responses \cup {NULL} /\ calls \in [Requests -> Nat]
  BY TakenType DEF IInv, TypeOK, TakeResponse
<1>2. /\ arg' = arg /\ asked' = asked
      /\ ppc' = IF resp \in Requests THEN "callback" ELSE "processed"
      /\ calls' = IF resp \in Requests THEN [calls EXCEPT ![resp] = @ + 1] ELSE calls
  BY DEF TakeResponse
<1>3. CASE resp = NULL
  <2>1. Contents(resps) = {} /\ Contents(t) = {}
    BY <1>1, <1>3, NothingTakenContents
  <2>2. items' = items /\ resps' = t /\ wpc' = wpc /\ warg' = warg
        /\ ppc' = "processed" /\ calls' = calls
    BY <1>2, <1>3 DEF TakeResponse, workerVars
  <2> HIDE DEF resp, t
  <2>3. ServiceStays
    BY <1>1, <1>2, <2>1, <2>2 DEF ServiceStays, InFlight, Leaving
  <2> QED BY <2>3, StaysStutters
<1>4. CASE resp = GONE
  <2>1. resp \in Contents(resps)
    BY <1>1, <1>4, AfterTakeContents
  <2>2. Leaving
    BY <1>1, <1>4, <2>1 DEF Leaving
  <2>3. /\ items'.head = 0 /\ items'.tail = 0 /\ resps'.head = 0 /\ resps'.tail = 0
        /\ wpc' = "none" /\ ppc' = "processed" /\ calls' = calls
    BY <1>2, <1>4 DEF TakeResponse, Cleanup, ResetIndices
  <2>4. Contents(items') = {} /\ Contents(resps') = {}
    BY <2>3, NothingCountedHoldsNothing
  <2>5. ~Leaving' /\ \A s \in Requests : ~InFlight(s)'
    BY <2>3, <2>4 DEF Leaving, InFlight
  <2>6. Status' = [s \in Requests |-> IF Status[s] = "waiting" THEN "lost" ELSE Status[s]]
    BY <1>2, <2>3, <2>5 DEF Status
  <2>7. Leaving' = FALSE
    BY <2>5 DEF Leaving
  <2> HIDE DEF resp, t
  <2>8. Service!Go
    BY <2>2, <2>6, <2>7 DEF Service!Go
  <2> QED BY <2>8 DEF Service!Next
<1>5. CASE resp \in Requests
  <2>1. PICK r \in Requests : r = resp
    BY <1>5
  <2>2. /\ resp \in Contents(resps) /\ Contents(t) \subseteq Contents(resps)
        /\ Contents(resps) \ {resp} \subseteq Contents(t)
    BY <1>1, <1>5, AfterTakeContents
  <2>3. /\ items' = items /\ resps' = t /\ wpc' = wpc /\ warg' = warg
        /\ ppc' = "callback" /\ calls' = [calls EXCEPT ![r] = @ + 1]
    BY <1>2, <1>5, <2>1 DEF TakeResponse, workerVars
  <2>4. InFlight(r) /\ r \in asked /\ calls[r] = 0
    BY <1>1, <2>1, TakenIsDue, InFlightIsDue
  <2> HIDE DEF resp, t
  <2>5. \A s \in Requests : s # r => (InFlight(s)' <=> InFlight(s))
    BY <1>1, <1>2, <2>1, <2>2, <2>3 DEF InFlight
  <2>6. Leaving' <=> Leaving
    BY <1>1, <1>2, <2>1, <2>2, <2>3 DEF Leaving
  <2>7. Status[r] = "waiting"
    BY <2>4 DEF Status
  <2>8. Status' = [Status EXCEPT ![r] = "answered"]
    <3>1. ASSUME NEW s \in Requests
          PROVE  Status'[s] = IF s = r THEN "answered" ELSE Status[s]
      BY <1>1, <1>2, <2>3, <2>4, <2>5 DEF Status
    <3>2. Status' = [s \in Requests |-> Status'[s]] /\ DOMAIN Status = Requests
      BY DEF Status
    <3> QED BY <3>1, <3>2
  <2>9. Leaving' = Leaving
    BY <2>6 DEF Leaving
  <2> QED BY <2>7, <2>8, <2>9 DEF Service!Next, Service!Answer
<1> QED BY <1>1, <1>3, <1>4, <1>5 DEF Responses

\* Every step of the worker and the daemon is a step of the service or none.
LEMMA NextService ==
  ASSUME IInv, JInv, KInv, KInv', [Next]_vars
  PROVE  Service!Next \/ UNCHANGED <<Status, Leaving>>
<1>1. ASSUME NEW r \in Requests, CallbackAsks(r) PROVE Service!Next
  BY <1>1, QueueRequestService DEF CallbackAsks, Service!Next
<1>2. ASSUME NEW r \in Requests, Ask(r) PROVE Service!Next
  BY <1>2, QueueRequestService DEF Ask, Service!Next
<1>3. CASE Idle
  BY <1>3, IdleService
<1>4. CASE TakeItem
  BY <1>4, TakeItemService, StaysStutters
<1> QED
  BY <1>1, <1>2, <1>3, <1>4, PutItemService, PutResponseService, TakeResponseService
  DEF Next, Parent, Worker, Ended, Idle

LEMMA InitService == Init => Service!Init
<1> SUFFICES ASSUME Init PROVE Service!Init
  OBVIOUS
<1>1. Contents(items) = {} /\ Contents(resps) = {}
  BY DEF Init, NewRing, Contents, Occupied
<1>2. ~Leaving
  BY <1>1 DEF Init, Leaving
<1>3. Status = [r \in Requests |-> "new"]
  BY DEF Init, Status
<1>4. Leaving = FALSE
  BY <1>2 DEF Leaving
<1> QED BY <1>3, <1>4 DEF Service!Init

\* The blocking worker, with its queues, semaphores, pipe and clean-up, does to
\* every request what BlockingService promises: it is answered once,
\* it disappears only with a worker that was told to leave while nobody
\* waited, and no INSIST ends the program before a first answer.
THEOREM WorkerImplementsService == Spec => ImplementsService
<1>1. Spec => []JInv
  BY InitJInv, NextJInv, SpecIInv, PTL DEF Spec
<1>2. Spec => []KInv
  BY <1>1, InitKInv, NextKInv, SpecIInv, PTL DEF Spec
<1>3. IInv /\ JInv /\ KInv /\ KInv' /\ [Next]_vars
        => [Service!Next]_<<Status, Leaving>>
  BY NextService
<1> QED BY <1>1, <1>2, <1>3, InitService, SpecIInv, PTL DEF Spec, ImplementsService, Service!Spec
=============================================================================
