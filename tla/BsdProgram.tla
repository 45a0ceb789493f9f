----------------------------- MODULE BsdProgram -----------------------------
(***************************************************************************)
(* The environment in which RTEMS runs a BSD program as a task             *)
(* (rtems-program.c, rtems-program-socket.c): the program's libc calls go  *)
(* through wrappers that list every descriptor, stream and block they hand *)
(* out, and when the program returns or exits the listed ones are          *)
(* released and its destructors called.  Several tasks may run a program   *)
(* at the same time; descriptors and the heap are common to all of them.   *)
(*                                                                         *)
(* A wrapper call is one step, each release of the teardown another.  The  *)
(* lists are per control block and a control block belongs to one task, so *)
(* only what is common can interleave.  A wrapper that fails without       *)
(* changing anything (no control, no memory, open() fails) is a stutter.   *)
(***************************************************************************)
EXTENDS Naturals, Sequences, FiniteSets

CONSTANTS
  Tasks,
  Fds,           \* descriptor numbers
  Streams,       \* addresses a FILE may get
  Blocks,        \* addresses a block of memory may get
  Destructors,   \* destructors with their argument
  NULL           \* the null pointer

Handles == Fds \cup Streams \cup Blocks

ASSUME HandlesAssumption ==
  /\ Fds \cap Streams = {} /\ Fds \cap Blocks = {} /\ Streams \cap Blocks = {}
  /\ NULL \notin Handles

VARIABLES
  place,      \* where each task is in rtems_bsd_program_call
  listed,     \* open_fd, open_file and allocated_mem of its control block
  destructors,\* the list of destructors, last added first
  live,       \* what is open or allocated, whoever has it
  holds,      \* history: what its program was given and did not give back
  lost,       \* history: blocks dropped from the list but not freed
  due         \* history: destructors added and neither removed nor called

programVars == <<place, listed, destructors, live, holds, lost, due>>

ProgramInit ==
  /\ place = [t \in Tasks |-> "outside"]
  /\ listed = [t \in Tasks |-> {}]
  /\ destructors = [t \in Tasks |-> <<>>]
  /\ live = {}
  /\ holds = [t \in Tasks |-> {}]
  /\ lost = {}
  /\ due = [t \in Tasks |-> {}]

-----------------------------------------------------------------------------
(* The wrappers, called by a running program                               *)

Running(t) == place[t] = "running"

\* open, socket, fopen, malloc, ... succeed: what they return is listed.
Obtain(t, h) ==
  /\ Running(t) /\ h \notin live
  /\ live' = live \cup {h}
  /\ listed' = [listed EXCEPT ![t] = @ \cup {h}]
  /\ holds' = [holds EXCEPT ![t] = @ \cup {h}]
  /\ UNCHANGED <<place, destructors, lost, due>>

Open(t, f) == f \in Fds /\ Obtain(t, f)
Fopen(t, s) == s \in Streams /\ Obtain(t, s)
Alloc(t, b) == b \in Blocks /\ Obtain(t, b)

\* Take h from the list of t and give it back to the system.
Release(t, h) ==
  /\ listed' = [listed EXCEPT ![t] = @ \ {h}]
  /\ live' = live \ {h}

\* fd_close_remove, file_close_remove: is it one of the program's own?
Closes(t, h) == h \in listed[t]

\* close, fclose: of any number or pointer, be it closed long ago or another
\* task's; what is not listed is left alone.
Close(t, h) ==
  /\ Running(t) /\ h \in Fds \cup Streams
  /\ IF Closes(t, h) THEN Release(t, h) ELSE UNCHANGED <<listed, live>>
  /\ holds' = [holds EXCEPT ![t] = @ \ {h}]
  /\ UNCHANGED <<place, destructors, lost, due>>

\* free: the pointer must be listed, or assert(rv == 0) ends everything.
Free(t, b) ==
  /\ Running(t) /\ b \in Blocks \cap holds[t]
  /\ IF b \in listed[t]
     THEN Release(t, b) /\ UNCHANGED place
     ELSE place' = [place EXCEPT ![t] = "asserted"] /\ UNCHANGED <<listed, live>>
  /\ holds' = [holds EXCEPT ![t] = @ \ {b}]
  /\ UNCHANGED <<destructors, lost, due>>

\* rtems_bsd_program_alloc: the old pointer leaves the list, the new one enters.
Relist(t, b, c) == listed' = [listed EXCEPT ![t] = (@ \ {b}) \cup {c}]

\* realloc, reallocf: the block stays or moves.
Realloc(t, b, c) ==
  /\ Running(t) /\ b \in Blocks \cap holds[t] /\ c \in Blocks
  /\ c = b \/ c \notin live
  /\ live' = (live \ {b}) \cup {c}
  /\ Relist(t, b, c)
  /\ holds' = [holds EXCEPT ![t] = (@ \ {b}) \cup {c}]
  /\ lost' = lost \ {b}
  /\ UNCHANGED <<place, destructors, due>>

\* Faulty: lists what realloc returned, whatever it is.
ListNull(t, b) == listed' = [listed EXCEPT ![t] = (@ \ {b}) \cup {NULL}]

\* Nothing is listed in place of the old pointer.
Unlist(t, b) == listed' = [listed EXCEPT ![t] = @ \ {b}]

\* No memory for realloc: the block stays allocated, but left the list before.
ReallocFails(t, b) ==
  /\ Running(t) /\ b \in Blocks \cap holds[t]
  /\ Unlist(t, b)
  /\ lost' = lost \cup {b}
  /\ UNCHANGED <<place, destructors, live, holds, due>>

\* No memory for reallocf: the block is freed by hand.
ReallocfFails(t, b) ==
  /\ Running(t) /\ b \in Blocks \cap holds[t]
  /\ Release(t, b)
  /\ holds' = [holds EXCEPT ![t] = @ \ {b}]
  /\ lost' = lost \ {b}
  /\ UNCHANGED <<place, destructors, due>>

AddDestructor(t, d) ==
  /\ Running(t) /\ \A u \in Tasks : d \notin due[u]
  /\ destructors' = [destructors EXCEPT ![t] = <<d>> \o @]
  /\ due' = [due EXCEPT ![t] = @ \cup {d}]
  /\ UNCHANGED <<place, listed, live, holds, lost>>

\* LIST_REMOVE(node, link): what is behind d moves up.
Unlink(seq, d) ==
  LET at == CHOOSE i \in DOMAIN seq : seq[i] = d
  IN  [i \in 1..Len(seq) - 1 |-> IF i < at THEN seq[i] ELSE seq[i + 1]]

\* The cookie of a destructor that is still in the list; it is called or not.
RemoveDestructor(t, d) ==
  /\ Running(t) /\ d \in due[t]
  /\ destructors' = [destructors EXCEPT ![t] = Unlink(@, d)]
  /\ due' = [due EXCEPT ![t] = @ \ {d}]
  /\ UNCHANGED <<place, listed, live, holds, lost>>

-----------------------------------------------------------------------------
(* rtems_bsd_program_call                                                  *)

Call(t) ==
  /\ place[t] = "outside"
  /\ place' = [place EXCEPT ![t] = "running"]
  /\ UNCHANGED <<listed, destructors, live, holds, lost, due>>

\* The program returns, or rtems_bsd_program_exit takes the longjmp: the task
\* has no control any more, and the teardown begins.
Leave(t) ==
  /\ Running(t)
  /\ place' = [place EXCEPT ![t] = "teardown"]
  /\ UNCHANGED <<listed, destructors, live, holds, lost, due>>

\* Faulty: the open streams are forgotten.
TeardownSkipsStreams(t) ==
  IF listed[t] \cap Fds # {} THEN Fds ELSE Blocks

\* fd_close_all before file_close_all before allocmem_free_all
TeardownNext(t) ==
  IF listed[t] \cap Fds # {} THEN Fds
  ELSE IF listed[t] \cap Streams # {} THEN Streams ELSE Blocks

\* fd_close_all, file_close_all, allocmem_free_all: one entry of the list.
ReleaseOne(t, h) ==
  /\ place[t] = "teardown"
  /\ h \in listed[t] \cap TeardownNext(t)
  /\ Release(t, h)
  /\ holds' = [holds EXCEPT ![t] = @ \ {h}]
  /\ UNCHANGED <<place, destructors, lost, due>>

\* Nothing is left that the teardown would release.
Released(t) == listed[t] \cap TeardownNext(t) = {}

\* LIST_FOREACH_SAFE
Rest(seq) == Tail(seq)

\* call_destructors: the first of the list, once memory and files are gone.
CallDestructor(t) ==
  /\ place[t] = "teardown" /\ Released(t) /\ destructors[t] # <<>>
  /\ destructors' = [destructors EXCEPT ![t] = Rest(@)]
  /\ due' = [due EXCEPT ![t] = @ \ {Head(destructors[t])}]
  /\ UNCHANGED <<place, listed, live, holds, lost>>

\* free(prog_ctrl), with the lists in it
Return(t) ==
  /\ place[t] = "teardown" /\ Released(t) /\ destructors[t] = <<>>
  /\ place' = [place EXCEPT ![t] = "outside"]
  /\ listed' = [listed EXCEPT ![t] = {}]
  /\ holds' = [holds EXCEPT ![t] = {}]
  /\ UNCHANGED <<destructors, live, lost, due>>

Program(t) ==
  \/ Call(t) \/ Leave(t)
  \/ \E h \in Handles : Open(t, h) \/ Fopen(t, h) \/ Alloc(t, h) \/ Close(t, h)
  \/ \E b \in Blocks :
       \/ Free(t, b) \/ ReallocFails(t, b) \/ ReallocfFails(t, b)
       \/ \E c \in Blocks : Realloc(t, b, c)
  \/ \E d \in Destructors : AddDestructor(t, d) \/ RemoveDestructor(t, d)

Teardown(t) ==
  (\E h \in Handles : ReleaseOne(t, h)) \/ CallDestructor(t) \/ Return(t)

\* A failed assertion stops all tasks.
Stopped == \E t \in Tasks : place[t] = "asserted"

ProgramNext ==
  \/ ~Stopped /\ \E t \in Tasks : Program(t) \/ Teardown(t)
  \/ Stopped /\ UNCHANGED programVars

ProgramSpec == ProgramInit /\ [][ProgramNext]_programVars

-----------------------------------------------------------------------------
(* Properties                                                              *)

\* Every destructor that was added and not removed is called, and once only:
\* the list holds exactly the ones that are due.
DestructorsDue ==
  \A t \in Tasks :
    /\ {destructors[t][i] : i \in DOMAIN destructors[t]} = due[t]
    /\ Len(destructors[t]) = Cardinality(due[t])

ProgramTypeOK ==
  /\ place \in [Tasks -> {"outside", "running", "teardown", "asserted"}]
  /\ listed \in [Tasks -> SUBSET Handles]
  /\ destructors \in [Tasks -> Seq(Destructors)]
  /\ live \in SUBSET Handles
  /\ holds \in [Tasks -> SUBSET Handles]
  /\ lost \in SUBSET Blocks
  /\ due \in [Tasks -> SUBSET Destructors]
  /\ DestructorsDue

\* Whatever the lists name is open or allocated, and named by one list only:
\* no wrapper and no teardown ever closes or frees anything twice, or frees the
\* list node that sits in the tail of a block together with its block.
ListedIsLiveOnce ==
  /\ \A t \in Tasks : listed[t] \subseteq live
  /\ \A t, u \in Tasks : t # u => listed[t] \cap listed[u] = {}

\* What a program was given stays its own until it gives it back: neither the
\* close of a stale number nor the teardown of another program takes it away.
HeldStaysLive == \A t \in Tasks : Running(t) => holds[t] \subseteq live

\* When no program runs, nothing a wrapper ever handed out is left, except the
\* blocks that a failed realloc dropped from the list.
NothingOutlives ==
  (\A t \in Tasks : place[t] = "outside") => live \subseteq lost

\* The wrappers keep exact accounts, though programs start, close stale numbers
\* and are torn down at the same time in one descriptor table and one heap.
HandlesAccounted == ListedIsLiveOnce /\ HeldStaysLive /\ NothingOutlives

\* assert(rv == 0) in rtems_bsd_program_free: a program that frees what a wrapper
\* gave it, once, never fails the assertion.
FreeAssertion == ~Stopped
=============================================================================
