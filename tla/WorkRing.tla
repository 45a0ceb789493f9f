------------------------------ MODULE WorkRing ------------------------------
(***************************************************************************)
(* The request and response queues of a blocking worker (libntp            *)
(* work_thread.c): an array of pointers used as a ring, with two free      *)
(* running index sequencers.  head counts the items put in, tail the items *)
(* taken out; an item sits in the slot of its sequence number modulo the   *)
(* allocated size.  A full array is enlarged, which does not keep the      *)
(* order of the items.  The sequencers are size_t in C: no run of the      *)
(* program between two resets comes near 2^32 requests, so they are        *)
(* natural numbers here.                                                   *)
(***************************************************************************)
EXTENDS Integers

CONSTANT NULL      \* the null pointer: an empty slot, or nothing dequeued

\* The zeroed queue of emalloc_zero(sizeof(blocking_child)): no array yet.
NewRing == [alloc |-> 0, slot |-> [i \in {} |-> NULL], head |-> 0, tail |-> 0]

\* The sequencers never pass each other, nor count more items than slots.
IsRing(q, Items) ==
  /\ q = [alloc |-> q.alloc, slot |-> q.slot, head |-> q.head, tail |-> q.tail]
  /\ q.alloc \in Nat
  /\ q.head \in Nat
  /\ q.tail \in Nat
  /\ q.tail <= q.head /\ q.head - q.tail <= q.alloc
  /\ q.slot \in [0..(q.alloc - 1) -> Items \cup {NULL}]

\* Is there room for one more item without a larger array?
HasRoom(q) == q.head - q.tail < q.alloc

\* ensure_workitems_empty_slot, ensure_workresp_empty_slot: enlarge a full
\* array by inc empty slots; the old ones become sequence numbers 0..alloc-1.
EnsureEmptySlot(q, inc) ==
  IF HasRoom(q) THEN q
  ELSE [alloc |-> q.alloc + inc,
        slot  |-> [i \in 0..(q.alloc + inc - 1) |->
                     IF i < q.alloc THEN q.slot[i] ELSE NULL],
        head  |-> q.alloc,
        tail  |-> 0]

\* The slot the next item goes to.
HeadSlot(q) == q.head % q.alloc

\* The INSIST both functions end with: that slot is empty.
HeadSlotIsEmpty(q) == q.slot[HeadSlot(q)] = NULL

PutAtHead(q, item) ==
  [alloc |-> q.alloc, slot |-> [q.slot EXCEPT ![HeadSlot(q)] = item],
   head |-> q.head + 1, tail |-> q.tail]

\* Sequence numbers between tail and head whose slot holds an item.
Occupied(q) == {k \in q.tail..(q.head - 1) : q.slot[k % q.alloc] # NULL}

\* What a consumer would still be given.
Contents(q) == {q.slot[k % q.alloc] : k \in Occupied(q)}

IsEmpty(q) == Occupied(q) = {}

\* The consumers' loops: skip empty slots, stop behind the first item.
First(q) == CHOOSE k \in Occupied(q) : \A j \in Occupied(q) : k <= j

Taken(q) == IF IsEmpty(q) THEN NULL ELSE q.slot[First(q) % q.alloc]

AfterTake(q) ==
  IF IsEmpty(q)
  THEN [alloc |-> q.alloc, slot |-> q.slot, head |-> q.head, tail |-> q.head]
  ELSE [alloc |-> q.alloc, slot |-> [q.slot EXCEPT ![First(q) % q.alloc] = NULL],
        head |-> q.head, tail |-> First(q) + 1]

\* cleanup_after_child re-initialises the sequencers and nothing else.
ResetIndices(q) == [alloc |-> q.alloc, slot |-> q.slot, head |-> 0, tail |-> 0]
=============================================================================
