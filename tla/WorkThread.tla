----------------------------- MODULE WorkThread -----------------------------
(***************************************************************************)
(* The blocking worker of ntpd: the main thread hands name lookups to a    *)
(* worker thread and calls the requester back with the answer (libntp      *)
(* ntp_worker.c and work_thread.c, driven by the main loop of ntpd.c).     *)
(*                                                                         *)
(* Two threads share one blocking_child: a ring of requests, a ring of     *)
(* responses, the semaphore accesslock around both, the semaphore          *)
(* workitems_pending that wakes the worker and a pipe that wakes the main  *)
(* thread's select().  One step of the model is one access to what they    *)
(* share; what a thread does to its own variables in between belongs to    *)
(* that step.                                                              *)
(*                                                                         *)
(* Nothing in the repository sets worker_per_query, so the one child in    *)
(* slot 0 (intres_slot) serves every request and the branches for one      *)
(* child per query are left out.                                           *)
(***************************************************************************)
EXTENDS WorkRing, FiniteSets

CONSTANTS
  Requests,        \* the lookups ntpd may ask for, each asked at most once
  EXIT,            \* CHILD_EXIT_REQ
  GONE,            \* CHILD_GONE_RESP
  ItemsInc,        \* WORKITEMS_ALLOC_INC
  ResponsesInc     \* RESPONSES_ALLOC_INC

Items == Requests \cup {EXIT}
Responses == Requests \cup {GONE}

ASSUME RequestsAssumption ==
  /\ IsFiniteSet(Requests)
  /\ {EXIT, GONE, NULL} \cap Requests = {}
  /\ EXIT # GONE /\ EXIT # NULL /\ GONE # NULL

ASSUME IncAssumption == ItemsInc \in Nat \ {0} /\ ResponsesInc \in Nat \ {0}

VARIABLES
  \* the main thread
  ppc,          \* where it is
  back,         \* where queue_req_pointer returns to
  after,        \* where process_blocking_resp returns to
  arg,          \* the request or CHILD_EXIT_REQ it is queueing
  pending,      \* intres_req_pending
  idleTimer,    \* worker_idle_timer # 0
  signalled,    \* rtems_ntpd_stop was called
  ready,        \* resp_ready_seen # resp_ready_done
  \* the blocking_child
  child,        \* blocking_children[0]: absent, used, reusable or freed
  accesslock,   \* "none" (NULL), or a semaphore that is "free" or "taken"
  items,        \* workitems and its sequencers
  itemsPending, \* value of the semaphore workitems_pending
  resps,        \* responses and its sequencers
  pipe,         \* octets in the response pipe
  \* the worker threads
  wpc,          \* where the worker is
  warg,         \* the request it works on or the response it sends
  late,         \* former workers about to write to the response pipe
  \* history
  asked,        \* requests queue_blocking_request was called for
  calls         \* how often the done_func of each request was called

parentVars == <<ppc, back, after, arg, pending, idleTimer, signalled, ready>>
childVars == <<child, accesslock, items, itemsPending, resps, pipe>>
workerVars == <<wpc, warg, late>>
history == <<asked, calls>>
vars == <<parentVars, childVars, workerVars, history>>

Init ==
  /\ ppc = "top" /\ back = "top" /\ after = "select" /\ arg = NULL
  /\ pending = 0 /\ idleTimer = FALSE /\ signalled = FALSE /\ ready = FALSE
  /\ child = "absent" /\ accesslock = "none"
  /\ items = NewRing /\ itemsPending = 0 /\ resps = NewRing /\ pipe = 0
  /\ wpc = "none" /\ warg = NULL /\ late = 0
  /\ asked = {} /\ calls = [r \in Requests |-> 0]

-----------------------------------------------------------------------------
(* queue_blocking_request and req_child_exit, in the main thread           *)

\* start_blocking_thread: the semaphores, the pipe and the thread exist from
\* here until cleanup_after_child.
StartThread ==
  /\ accesslock' = "free" /\ itemsPending' = 0 /\ pipe' = 0
  /\ wpc' = "wait" /\ warg' = NULL

\* intres_req_pending++
CountRequest == pending' = pending + 1

\* if (0 == intres_req_pending) intres_timeout_req(0)
ClearIdleTimer == idleTimer' = (idleTimer /\ pending # 0)

\* queue_blocking_request up to the lock: an idle timer is cleared, a child
\* that is absent or reusable is taken into use and gets a thread.
QueueRequest(r, from) ==
  /\ r \in Requests \ asked
  /\ asked' = asked \cup {r}
  /\ ClearIdleTimer /\ CountRequest
  /\ child' = "used"
  /\ IF accesslock = "none"
     THEN StartThread
     ELSE UNCHANGED <<accesslock, itemsPending, pipe, wpc, warg>>
  /\ ppc' = "lockItems" /\ back' = from /\ arg' = r
  /\ UNCHANGED <<after, signalled, ready, items, resps, late, calls>>

\* req_child_exit: with the semaphores gone the request is ignored.
RequestExit(from) ==
  IF accesslock = "none"
  THEN ppc' = from /\ UNCHANGED <<back, arg>>
  ELSE ppc' = "lockItems" /\ back' = from /\ arg' = EXIT

\* wait_for_sem(accesslock, NULL)
TakeLock == accesslock = "free" /\ accesslock' = "taken"

\* queue_req_pointer: >>>> ACCESS LOCKING STARTS
LockItems ==
  /\ ppc = "lockItems" /\ TakeLock
  /\ ppc' = "putItem"
  /\ UNCHANGED <<back, after, arg, pending, idleTimer, signalled, ready, child,
                 items, itemsPending, resps, pipe, workerVars, history>>

\* An INSIST failed: library_fatal_error ends the program.
Abort == ppc' = "aborted" /\ wpc' = "aborted"

\* queue_req_pointer: store the item at the head, give the lock back
PutItem ==
  LET q == EnsureEmptySlot(items, ItemsInc) IN
  /\ ppc = "putItem"
  /\ IF HeadSlotIsEmpty(q)
     THEN /\ items' = PutAtHead(q, arg)
          /\ accesslock' = "free" /\ ppc' = "postItem"
          /\ UNCHANGED wpc
     ELSE Abort /\ UNCHANGED <<items, accesslock>>
  /\ UNCHANGED <<back, after, arg, pending, idleTimer, signalled, ready, child,
                 itemsPending, resps, pipe, warg, late, history>>

\* tickle_sem(workitems_pending)
PostUnit == itemsPending' = itemsPending + 1

\* queue_req_pointer: queue consumer wake-up notification
PostItem ==
  /\ ppc = "postItem"
  /\ PostUnit
  /\ ppc' = back /\ arg' = NULL
  /\ UNCHANGED <<back, after, pending, idleTimer, signalled, ready, child,
                 accesslock, items, resps, pipe, workerVars, history>>

-----------------------------------------------------------------------------
(* process_blocking_resp and cleanup_after_child, in the main thread       *)

ScratchSize == 32   \* one read() takes at most this many octets

\* Faulty: a read always takes all octets it asks for.
AfterFullRead(octets) == octets - ScratchSize

\* What one read() leaves in the pipe.
AfterRead(octets) == IF octets <= ScratchSize THEN 0 ELSE octets - ScratchSize

\* process_blocking_resp starts in receive_blocking_resp_internal.
Process(from) == ppc' = "drainPipe" /\ after' = from

DrainPipe ==
  /\ ppc = "drainPipe"
  /\ pipe' = AfterRead(pipe)
  /\ ppc' = "lockResps"
  /\ UNCHANGED <<back, after, arg, pending, idleTimer, signalled, ready, child,
                 accesslock, items, itemsPending, resps, workerVars, history>>

LockResps ==
  /\ ppc = "lockResps" /\ TakeLock
  /\ ppc' = "takeResp"
  /\ UNCHANGED <<back, after, arg, pending, idleTimer, signalled, ready, child,
                 items, itemsPending, resps, pipe, workerVars, history>>

\* cleanup_after_child: thread reference, semaphores and pipe are gone and the
\* sequencers restart at 0; the slots keep what is in them.  A worker that
\* stored its last response but did not signal it yet is still to do so.
Cleanup(q) ==
  /\ accesslock' = "none" /\ itemsPending' = 0 /\ pipe' = 0
  /\ items' = ResetIndices(items) /\ resps' = ResetIndices(q)
  /\ child' = "reusable"
  /\ late' = IF wpc = "notify" THEN late + 1 ELSE late
  /\ wpc' = "none" /\ warg' = NULL

\* intres_req_pending-- for an answer
CountAnswer(resp) ==
  pending' = IF resp \in Requests THEN pending - 1 ELSE pending

\* The rest of receive_blocking_resp_internal; an answer goes to its done_func.
TakeResponse ==
  LET resp == Taken(resps) IN
  /\ ppc = "takeResp"
  /\ IF resp = GONE
     THEN Cleanup(AfterTake(resps))
     ELSE /\ accesslock' = "free" /\ resps' = AfterTake(resps)
          /\ UNCHANGED <<child, items, itemsPending, pipe, workerVars>>
  /\ IF resp \in Requests
     THEN calls' = [calls EXCEPT ![resp] = @ + 1] /\ ppc' = "callback"
     ELSE ppc' = "processed" /\ UNCHANGED calls
  /\ CountAnswer(resp)
  /\ UNCHANGED <<back, after, arg, idleTimer, signalled, ready, asked>>

\* done_func returns ...
CallbackReturns ==
  /\ ppc = "callback" /\ ppc' = "drainPipe"
  /\ UNCHANGED <<back, after, arg, pending, idleTimer, signalled, ready,
                 childVars, workerVars, history>>

\* ... after getaddrinfo_sometime_complete asked again, for a retry.
CallbackAsks(r) == ppc = "callback" /\ QueueRequest(r, "drainPipe")

\* The end of process_blocking_resp: with nothing pending the idle timer runs.
Processed ==
  /\ ppc = "processed"
  /\ idleTimer' = (idleTimer \/ pending = 0)
  /\ ppc' = after
  /\ UNCHANGED <<back, after, arg, pending, signalled, ready, childVars,
                 workerVars, history>>

-----------------------------------------------------------------------------
(* The main loop of ntpd.c                                                 *)

\* rtems_ntpd_stop, called by some task while the daemon runs
Stop ==
  /\ ~signalled /\ signalled' = TRUE
  /\ UNCHANGED <<ppc, back, after, arg, pending, idleTimer, ready, childVars,
                 workerVars, history>>

\* harvest_blocking_responses.  The counters of the one child and the global
\* ones differ at the same time, so one Boolean stands for both pairs.
Harvest(from) ==
  /\ ready' = FALSE
  /\ IF ready THEN Process(from) ELSE ppc' = from /\ UNCHANGED after

\* A round begins: finish_safe if stopped, else harvest and go on to select.
Top ==
  /\ ppc = "top"
  /\ IF signalled THEN ppc' = "finiWait" /\ UNCHANGED <<after, ready>>
                  ELSE Harvest("select")
  /\ UNCHANGED <<back, arg, pending, idleTimer, signalled, childVars,
                 workerVars, history>>

\* Faulty: the response pipe is not looked at.
ScanNothing == UNCHANGED ready

\* input_handler_scan: check for a response from a blocking child
ScanPipe == ready' = (ready \/ pipe > 0)

\* io_handler: select() returns input, from the pipe or from the network ...
SelectInput ==
  /\ ppc = "select" /\ ppc' = "recv"
  /\ ScanPipe
  /\ UNCHANGED <<back, after, arg, pending, idleTimer, signalled, childVars,
                 workerVars, history>>

\* ... or nothing within a second, which raises the alarm.
SelectTimeout ==
  /\ ppc = "select" /\ pipe = 0 /\ ppc' = "timer"
  /\ UNCHANGED <<back, after, arg, pending, idleTimer, signalled, ready,
                 childVars, workerVars, history>>

\* The peers' timers in timer(), or a packet's receiver, look a name up.
Ask(r) == ppc \in {"timer", "recv"} /\ QueueRequest(r, ppc)

\* timer() finds the idle timer not due, or not running, ...
TimerEnds ==
  /\ ppc = "timer" /\ ppc' = "recv"
  /\ UNCHANGED <<back, after, arg, pending, idleTimer, signalled, ready,
                 childVars, workerVars, history>>

\* Faulty: due although it was cleared.
IdleTimerAlwaysDue == TRUE

\* worker_idle_timer && worker_idle_timer <= current_time; time is not modelled
IdleTimerDue == idleTimer

\* ... or due: worker_idle_timer_fired sends the worker packing.
IdleTimerFires ==
  /\ ppc = "timer" /\ IdleTimerDue
  /\ idleTimer' = FALSE
  /\ RequestExit("recv")
  /\ UNCHANGED <<after, pending, signalled, ready, childVars, workerVars,
                 history>>

\* No more packets: the loop goes around again.
RecvEnds ==
  /\ ppc = "recv" /\ ppc' = "top"
  /\ UNCHANGED <<back, after, arg, pending, idleTimer, signalled, ready,
                 childVars, workerVars, history>>

-----------------------------------------------------------------------------
(* rtems_ntp_worker_globals_fini, called by finish_safe in the main thread *)

\* while (intres_req_pending > 0): harvest and sleep.  No select() runs here.
FiniWait ==
  /\ ppc = "finiWait"
  /\ IF pending > 0 THEN Harvest("finiWait")
                    ELSE ppc' = "finiExit" /\ UNCHANGED <<after, ready>>
  /\ UNCHANGED <<back, arg, pending, idleTimer, signalled, childVars,
                 workerVars, history>>

FiniExit ==
  /\ ppc = "finiExit"
  /\ IF child = "absent" THEN ppc' = "done" /\ UNCHANGED <<back, arg>>
                         ELSE RequestExit("finiPoll")
  /\ UNCHANGED <<after, pending, idleTimer, signalled, ready, childVars,
                 workerVars, history>>

\* process_blocking_resp(c)
Poll == Process("finiPoll") /\ UNCHANGED ready

\* while (!c->reusable): poll the responses; then free(c).
FiniPoll ==
  /\ ppc = "finiPoll"
  /\ IF child = "reusable"
     THEN child' = "freed" /\ ppc' = "done" /\ UNCHANGED <<after, ready>>
     ELSE Poll /\ UNCHANGED child
  /\ UNCHANGED <<back, arg, pending, idleTimer, signalled, accesslock,
                 items, itemsPending, resps, pipe, workerVars, history>>
-----------------------------------------------------------------------------
(* blocking_child_common, in the worker thread                             *)

\* receive_blocking_req_internal: wait_for_sem(workitems_pending)
WaitItem ==
  /\ wpc = "wait" /\ itemsPending > 0
  /\ itemsPending' = itemsPending - 1
  /\ wpc' = "lockItems"
  /\ UNCHANGED <<parentVars, child, accesslock, items, resps, pipe, warg, late,
                 history>>

\* receive_blocking_req_internal, send_blocking_resp_internal:
\* wait_for_sem(accesslock)
WorkerLocks ==
  /\ wpc \in {"lockItems", "lockResps"} /\ TakeLock
  /\ wpc' = IF wpc = "lockItems" THEN "takeItem" ELSE "putResp"
  /\ UNCHANGED <<parentVars, child, items, itemsPending, resps, pipe, warg, late,
                 history>>

\* A request is worked on, CHILD_EXIT_REQ is answered with CHILD_GONE_RESP,
\* and without an item the worker waits again.
TakeItem ==
  LET item == Taken(items) IN
  /\ wpc = "takeItem"
  /\ items' = AfterTake(items) /\ accesslock' = "free"
  /\ \/ item = NULL /\ wpc' = "wait" /\ UNCHANGED warg
     \/ item = EXIT /\ wpc' = "lockResps" /\ warg' = GONE
     \/ item \in Requests /\ wpc' = "resolve" /\ warg' = item
  /\ UNCHANGED <<parentVars, child, itemsPending, resps, pipe, late, history>>

\* blocking_getaddrinfo or blocking_getnameinfo has its answer.
Resolve ==
  /\ wpc = "resolve" /\ wpc' = "lockResps"
  /\ UNCHANGED <<parentVars, childVars, warg, late, history>>

\* After a response: the next request, or the thread's end behind GONE.
WorkerGoesOn ==
  /\ wpc' = IF warg = GONE THEN "exited" ELSE "wait"
  /\ warg' = NULL

\* Faulty: only the first response of a worker is signalled.
NeedsSignalOnce(q) == q.head = 0

\* ensure_workresp_empty_slot returns whether the queue was empty.
NeedsSignal(q) == q.head = q.tail

\* send_blocking_resp_internal: store the response, give the lock back; only
\* a queue that was empty needs a signal.
PutResponse ==
  LET q == EnsureEmptySlot(resps, ResponsesInc) IN
  /\ wpc = "putResp"
  /\ IF HeadSlotIsEmpty(q)
     THEN /\ resps' = PutAtHead(q, warg)
          /\ accesslock' = "free"
          /\ IF NeedsSignal(resps)
             THEN wpc' = "notify" /\ UNCHANGED warg
             ELSE WorkerGoesOn
          /\ UNCHANGED ppc
     ELSE Abort /\ UNCHANGED <<resps, accesslock, warg>>
  /\ UNCHANGED <<back, after, arg, pending, idleTimer, signalled, ready, child,
                 items, itemsPending, pipe, late, history>>

\* send_blocking_resp_internal: write(c->resp_write_pipe, "", 1)
Notify ==
  /\ wpc = "notify"
  /\ pipe' = pipe + 1
  /\ WorkerGoesOn
  /\ UNCHANGED <<parentVars, child, accesslock, items, itemsPending, resps, late,
                 history>>

\* The same write by a worker the main thread already cleaned up after: into
\* the pipe of its successor, or on a closed descriptor.
LateNotify ==
  /\ late > 0 /\ late' = late - 1
  /\ pipe' = IF accesslock = "none" THEN pipe ELSE pipe + 1
  /\ UNCHANGED <<parentVars, child, accesslock, items, itemsPending, resps, wpc,
                 warg, history>>

-----------------------------------------------------------------------------
Parent ==
  \/ LockItems \/ PutItem \/ PostItem
  \/ DrainPipe \/ LockResps \/ TakeResponse \/ CallbackReturns \/ Processed
  \/ \E r \in Requests : CallbackAsks(r) \/ Ask(r)
  \/ Top \/ SelectInput \/ SelectTimeout
  \/ TimerEnds \/ IdleTimerFires \/ RecvEnds
  \/ FiniWait \/ FiniExit \/ FiniPoll

Worker ==
  WaitItem \/ WorkerLocks \/ TakeItem \/ Resolve \/ PutResponse \/ Notify

\* The daemon has cleaned up after its worker, or the program has ended.
Ended == ppc \in {"done", "aborted"} /\ UNCHANGED vars

Next == Parent \/ Worker \/ LateNotify \/ Stop \/ Ended

\* Both threads run when they can; a stop and the input that comes are not
\* promised.  That Resolve is fair says that getaddrinfo() returns.  A worker
\* waiting for accesslock gets it in the end, although the main thread polls:
\* it sleeps 10 ms between two polls without the lock.
Spec ==
  /\ Init /\ [][Next]_vars
  /\ WF_vars(Parent) /\ WF_vars(Worker) /\ WF_vars(LateNotify)
  /\ SF_vars(WorkerLocks)

-----------------------------------------------------------------------------
(* Properties                                                              *)

ParentPlaces ==
  {"top", "select", "timer", "recv", "lockItems", "putItem", "postItem",
   "drainPipe", "lockResps", "takeResp", "callback", "processed",
   "finiWait", "finiExit", "finiPoll", "done", "aborted"}

WorkerPlaces ==
  {"none", "wait", "lockItems", "takeItem", "resolve", "lockResps", "putResp",
   "notify", "exited", "aborted"}

\* Every variable has its type: the sequencers and slots of both rings fit the
\* arrays, and nothing is read from an empty pipe or an empty semaphore.
TypeOK ==
  /\ ppc \in ParentPlaces
  /\ back \in {"top", "timer", "recv", "drainPipe", "finiPoll"}
  /\ after \in {"select", "finiWait", "finiPoll"}
  /\ arg \in Items \cup {NULL}
  /\ pending \in Int
  /\ idleTimer \in BOOLEAN /\ signalled \in BOOLEAN /\ ready \in BOOLEAN
  /\ child \in {"absent", "used", "reusable", "freed"}
  /\ accesslock \in {"none", "free", "taken"}
  /\ IsRing(items, Items) /\ IsRing(resps, Responses)
  /\ itemsPending \in Nat /\ pipe \in Nat
  /\ wpc \in WorkerPlaces /\ warg \in Responses \cup {NULL} /\ late \in Nat
  /\ asked \in SUBSET Requests /\ calls \in [Requests -> Nat]

ParentInside == ppc \in {"putItem", "takeResp"}
WorkerInside == wpc \in {"takeItem", "putResp"}

\* "all access that is not atomic (especially queue operations) must hold the
\* 'accesslock' semaphore" (ntp_worker.h): at most one thread is between a
\* wait_for_sem(accesslock) and the tickle_sem behind it, and the semaphore
\* has no unit exactly then.
AccessLockExcludes ==
  ppc # "aborted" =>
    /\ ~(ParentInside /\ WorkerInside)
    /\ (accesslock = "taken") <=> (ParentInside \/ WorkerInside)

\* Neither thread ever waits for, or gives a unit to, a semaphore that
\* cleanup_after_child has destroyed (sem_destroy under a waiting thread would
\* leave it blocked for ever).
SemaphoresExistInUse ==
  ppc \in {"lockItems", "putItem", "postItem", "drainPipe", "lockResps",
           "takeResp"} \/ wpc \notin {"none", "exited", "notify", "aborted"}
    => accesslock # "none"

Unanswered == {r \in asked : calls[r] = 0}

\* intres_req_pending counts the requests that have not been answered, so the
\* idle timer and the stop wait for all of them.
PendingCountsUnanswered == pending = Cardinality(Unanswered)

\* The worker is about to signal an answer in the queue, the pipe or the ready
\* counters say so, or the main thread is still taking.
ResponseIsSignalled ==
  ~IsEmpty(resps) =>
    \/ wpc = "notify" \/ pipe > 0 \/ ready
    \/ ppc \in {"drainPipe", "lockResps", "takeResp", "callback", "finiPoll",
               "aborted"}
    \/ back = "drainPipe" /\ ppc \in {"lockItems", "putItem", "postItem"}

\* A worker never sleeps on a non-empty request queue: a unit of
\* workitems_pending is there or the main thread is about to add it.
ItemIsSignalled ==
  (wpc = "wait" /\ ~IsEmpty(items)) => itemsPending > 0 \/ ppc = "postItem"

\* Nothing is forgotten between the threads, though both queues are filled and
\* signalled in two steps and only an empty response queue is signalled at all
\* (work_thread.c:283, 381).
NothingForgotten == PendingCountsUnanswered /\ ResponseIsSignalled /\ ItemIsSignalled

\* Where a request that is not answered yet can be found.
InFlight(r) ==
  /\ ppc # "aborted"
  /\ \/ arg = r /\ ppc \in {"lockItems", "putItem"}
     \/ r \in Contents(items)
     \/ warg = r /\ wpc \in {"resolve", "lockResps", "putResp"}
     \/ r \in Contents(resps)

\* The worker is told to leave, or has said that it does.
Leaving ==
  /\ ppc # "aborted"
  /\ \/ arg = EXIT /\ ppc \in {"lockItems", "putItem"}
     \/ EXIT \in Contents(items)
     \/ warg = GONE /\ wpc \in {"lockResps", "putResp"}
     \/ GONE \in Contents(resps)

\* What the requester sees: see BlockingService.
Status == [r \in Requests |->
  IF calls[r] > 0 THEN "answered"
  ELSE IF r \notin asked THEN "new"
  ELSE IF InFlight(r) THEN "waiting" ELSE "lost"]

Service == INSTANCE BlockingService WITH status <- Status, leaving <- Leaving

\* The worker implements the service: answers reach each requester at most
\* once, a request never disappears while the worker stays, only requests
\* queued to a leaving worker are lost, and no INSIST fails in the life of the
\* first worker.
ImplementsService == Service!Spec

\* A request in the hands of a worker that stays is answered, unless the daemon
\* is stopped.
StayingWorkerAnswers ==
  \A r \in Requests :
    (InFlight(r) /\ ~Leaving)
      ~> (calls[r] > 0 \/ signalled \/ ppc = "aborted")

-----------------------------------------------------------------------------
(* What the repository says and the code does not keep                     *)

\* "Both routines deliver results to a callback" (ntp_intres.c): every request
\* is answered, unless the daemon is stopped.
EveryRequestIsAnswered ==
  \A r \in Requests : (r \in asked) ~> (calls[r] > 0 \/ signalled)

\* INSIST(NULL == c->workitems[...]) in ensure_workitems_empty_slot
HeadSlotInsist == ppc # "aborted"

\* "The ntpd loop will exit when it next runs cleaning up" (rtems/ntpd.h)
StopEndsTheLoop == signalled ~> (ppc = "done")

\* "only changed by the main thread when no worker is running on the same data
\* structure" (ntp_worker.h): the pipe handles and the child itself.
NoWorkerOnDeadChild == late = 0
=============================================================================
