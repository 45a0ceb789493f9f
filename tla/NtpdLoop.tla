------------------------------ MODULE NtpdLoop ------------------------------
(***************************************************************************)
(* The daemon as RTEMS runs it: any task calls rtems_ntpd_run() and becomes*)
(* the daemon until another calls rtems_ntpd_stop(); after that it can be  *)
(* run again, in the same globals.  The module has the main loop of        *)
(* ntpd.c, the select() of io_handler() that stands for the interval timer *)
(* RTEMS does not have, and the pool of receive buffers between            *)
(* input_handler_scan(), which fills them, and the loop, which handles     *)
(* them and gives them back.                                               *)
(*                                                                         *)
(* Packets are counted, not told apart: `socket' is how many wait in the   *)
(* kernel.  freeList and fullList are the lengths of the two lists;        *)
(* freeCount, fullCount and totalCount the counters kept beside them.      *)
(***************************************************************************)
EXTENDS Integers, FiniteSets

CONSTANTS
    Tasks,          \* the tasks of the application
    RecvInit,       \* RECV_INIT: buffers made when the daemon starts
    MaxSocket,      \* bound: packets that fit into the sockets
    MaxDuring,      \* bound: packets that arrive while one scan reads the sockets
    MaxShortfall,   \* bound: where the count of missed buffers saturates
    MaxRuns         \* bound: times the daemon is started

ASSUME LoopAssumption ==
    /\ RecvInit \in Nat \ {0} /\ MaxSocket \in Nat
    /\ MaxDuring \in Nat /\ MaxShortfall \in Nat /\ MaxRuns \in Nat

VARIABLES
    running,        \* ntpd_running
    signalled,
    daemon,         \* the tasks inside ntpdmain()
    pc,             \* where the daemon is
    alarm_flag, was_alarmed,
    fdset,          \* io_handler() has its descriptor set
    socket, during, \* packets waiting, and how many came during this scan
    freeList, fullList, inhand,
    freeCount, fullCount, totalCount, buffer_shortfall,
    lookup,         \* intres_req_pending > 0: a worker has yet to answer
    noticed,        \* blocking_child_ready_seen is ahead: one did, harvest it
    runs, created, seconds, asked
        \* what happened: starts, buffers ever made, alarms raised and not yet
        \* passed on to timer(), a stop the daemon has not obeyed yet

control == <<running, signalled, daemon, pc, runs, asked>>
clock   == <<alarm_flag, was_alarmed, seconds>>
pool    == <<freeList, fullList, inhand, freeCount, fullCount, totalCount,
             buffer_shortfall, created>>
net     == <<fdset, socket, during>>
workers == <<lookup, noticed>>
vars == <<control, clock, net, pool, workers>>

Places == {"off", "boot", "top", "wait", "scan", "alarm", "timer", "drain",
           "handle", "cleanup", "ended"}

Init ==
    /\ running = FALSE /\ signalled = FALSE /\ daemon = {} /\ pc = "off"
    /\ alarm_flag = FALSE /\ was_alarmed = FALSE
    /\ fdset = FALSE /\ socket = 0 /\ during = 0
    /\ freeList = 0 /\ fullList = 0 /\ inhand = FALSE
    /\ freeCount = 0 /\ fullCount = 0 /\ totalCount = 0 /\ buffer_shortfall = 0
    /\ lookup = FALSE /\ noticed = FALSE
    /\ runs = 0 /\ created = 0 /\ seconds = 0 /\ asked = FALSE

Goto(place) == pc' = place /\ UNCHANGED <<running, signalled, daemon, runs, asked>>

(* getaddrinfo_sometime(): more to resolve, or not.                        *)
AskWorker == lookup' \in {lookup, TRUE} /\ UNCHANGED noticed

(* harvest_blocking_responses() looks at the answers only when the counters*)
(* differ; a callback may ask anew.                                        *)
Harvest ==
    /\ lookup' \in BOOLEAN /\ (lookup' # lookup => noticed)
    /\ noticed' = FALSE

-----------------------------------------------------------------------------
(* What other tasks call, and the network.                                 *)

(* With ntpd_running set, rtems_ntpd_run() returns -1.                     *)
MayRun == ~running

Run(t) ==
    /\ t \notin daemon /\ runs < MaxRuns
    /\ MayRun
    /\ running' = TRUE /\ signalled' = FALSE /\ was_alarmed' = FALSE
    /\ daemon' = daemon \cup {t} /\ pc' = "boot" /\ runs' = runs + 1
    /\ UNCHANGED <<asked, alarm_flag, seconds, net, pool, workers>>

Stop(t) ==
    /\ t \notin daemon
    /\ signalled' = TRUE /\ asked' = TRUE
    /\ UNCHANGED <<running, daemon, pc, runs, clock, net, pool, workers>>

(* A packet for a socket of the daemon; more than fit are lost there.  In  *)
(* the end the daemon reads faster than packets come in.                   *)
Arrive ==
    /\ pc \notin {"off", "boot", "ended"} /\ socket < MaxSocket
    /\ socket' = socket + 1
    /\ IF pc = "scan" THEN during < MaxDuring /\ during' = during + 1
                      ELSE UNCHANGED during
    /\ UNCHANGED <<fdset, control, clock, pool, workers>>

-----------------------------------------------------------------------------
(* ntpdmain() up to its loop                                               *)

(* exit() before anything was set up, and without rtems_ntpd_cleanup().    *)
BootFails ==
    /\ pc = "boot" /\ Goto("ended")
    /\ UNCHANGED <<clock, net, pool, workers>>

(* init_recvbuff(): the counters start again, the free list does not; then *)
(* the names of the configuration are looked up.                           *)
Boot ==
    /\ pc = "boot" /\ Goto("top")
    /\ LET made == RecvInit + buffer_shortfall IN
         /\ freeList' = freeList + made /\ created' = created + made
         /\ freeCount' = made /\ totalCount' = made
    /\ fullCount' = 0 /\ buffer_shortfall' = 0
    /\ was_alarmed' = FALSE
    /\ AskWorker
    /\ UNCHANGED <<fullList, inhand, alarm_flag, seconds, net>>

-----------------------------------------------------------------------------
(* The loop                                                                *)

LoopStops ==
    /\ pc = "top" /\ signalled
    /\ Goto("cleanup")
    /\ UNCHANGED <<clock, net, pool, workers>>

LoopGoesOn ==
    /\ pc = "top" /\ ~signalled
    /\ was_alarmed' = (was_alarmed \/ alarm_flag) /\ alarm_flag' = FALSE
    /\ IF was_alarmed' THEN UNCHANGED workers ELSE Harvest
    /\ Goto(IF ~was_alarmed' /\ fullList = 0 THEN "wait" ELSE "alarm")
    /\ UNCHANGED <<seconds, net, pool>>

LoopStopsWhenIdle ==
    /\ pc = "wait" /\ signalled /\ socket = 0
    /\ Goto("cleanup")
    /\ UNCHANGED <<clock, net, pool, workers>>

LoopGoesOnAnyway ==
    /\ pc = "top"
    /\ was_alarmed' = (was_alarmed \/ alarm_flag) /\ alarm_flag' = FALSE
    /\ IF was_alarmed' THEN UNCHANGED workers ELSE Harvest
    /\ Goto(IF ~was_alarmed' /\ fullList = 0 THEN "wait" ELSE "alarm")
    /\ UNCHANGED <<seconds, net, pool>>

(* Mutant: signalled is looked at only when nothing else is to be done.    *)
TopIdleOnly == LoopStopsWhenIdle \/ LoopGoesOnAnyway

Top == LoopStops \/ LoopGoesOn

(* io_handler(): alarm_flag = nfound <= 0.                                 *)
RaiseAlarm == alarm_flag' = TRUE /\ seconds' = seconds + 1 /\ UNCHANGED was_alarmed

SelectIdle ==
    /\ pc = "wait" /\ socket = 0
    /\ RaiseAlarm /\ fdset' = TRUE /\ Goto("alarm")
    /\ UNCHANGED <<socket, during, pool, workers>>

(* A packet or, when the worker likes, an answer.  (The farewell of an idle*)
(* worker also ends a select(); it changes nothing here and is left out.)  *)
SelectReady ==
    /\ pc = "wait" /\ (socket > 0 \/ lookup)
    /\ alarm_flag' = FALSE /\ fdset' = TRUE /\ during' = 0 /\ Goto("scan")
    /\ UNCHANGED <<was_alarmed, seconds, socket, pool, workers>>

(* A failure raises the alarm too; with the bad descriptors out of the set *)
(* the second select() may find something.                                 *)
SelectFails ==
    /\ pc = "wait" /\ RaiseAlarm
    /\ fdset' = TRUE /\ during' = 0
    /\ Goto("alarm") \/ ((socket > 0 \/ lookup) /\ Goto("scan"))
    /\ UNCHANGED <<socket, pool, workers>>

(* rtems_fd_set_alloc() found no memory; what it found once it keeps.      *)
SelectSkipped ==
    /\ pc = "wait" /\ ~fdset /\ Goto("alarm")
    /\ UNCHANGED <<clock, net, pool, workers>>

(* read_network_packet(): into a free buffer, onto the full list.          *)
ReadPacket ==
    /\ pc = "scan" /\ socket > 0 /\ freeList > 0
    /\ socket' = socket - 1 /\ UNCHANGED <<fdset, during>>
    /\ freeList' = freeList - 1 /\ freeCount' = freeCount - 1
    /\ fullList' = fullList + 1 /\ fullCount' = fullCount + 1
    /\ UNCHANGED <<control, clock, inhand, totalCount, buffer_shortfall, created, workers>>

(* It is read but nobody wants it: the buffer goes straight back.          *)
IgnorePacket ==
    /\ pc = "scan" /\ socket > 0 /\ freeList > 0
    /\ socket' = socket - 1 /\ UNCHANGED <<fdset, during>>
    /\ UNCHANGED <<control, clock, pool, workers>>

MissBuffer ==
    /\ buffer_shortfall' = IF buffer_shortfall < MaxShortfall
                           THEN buffer_shortfall + 1 ELSE buffer_shortfall
    /\ UNCHANGED <<freeList, fullList, inhand, freeCount, fullCount, totalCount, created>>

(* No free buffer: the packet is read and thrown away.                     *)
DropPacket ==
    /\ pc = "scan" /\ socket > 0 /\ freeList = 0
    /\ socket' = socket - 1 /\ UNCHANGED <<fdset, during>>
    /\ MissBuffer
    /\ UNCHANGED <<control, clock, workers>>

(* The read that finds the socket empty has asked for a buffer, too.  An   *)
(* answer in a worker's pipe is read after the packets.                    *)
ScanEnds ==
    /\ pc = "scan" /\ socket = 0
    /\ Goto("alarm")
    /\ IF freeList = 0 THEN MissBuffer ELSE UNCHANGED pool
    /\ noticed' \in {noticed, lookup} /\ UNCHANGED lookup
    /\ UNCHANGED <<clock, net>>

NoteAlarm ==
    /\ pc = "alarm"
    /\ was_alarmed' = (was_alarmed \/ alarm_flag) /\ alarm_flag' = FALSE
    /\ Goto(IF was_alarmed' THEN "timer" ELSE "drain")
    /\ UNCHANGED <<seconds, net, pool, workers>>

(* timer(); was_alarmed = FALSE.  A pool asks for more servers.            *)
Timer ==
    /\ pc = "timer"
    /\ was_alarmed' = FALSE /\ seconds' = seconds - 1
    /\ AskWorker
    /\ Goto("drain")
    /\ UNCHANGED <<alarm_flag, net, pool>>

(* Mutant: taken without looking whether one is there.                     *)
TakeAny ==
    /\ pc = "drain"
    /\ fullList' = fullList - 1 /\ fullCount' = fullCount - 1 /\ inhand' = TRUE
    /\ Goto("handle")
    /\ UNCHANGED <<clock, net, freeList, freeCount, totalCount, buffer_shortfall, created, workers>>

(* get_full_recv_buffer().  No alarm can come up meanwhile: only select()  *)
(* raises it.                                                              *)
TakeFull ==
    /\ pc = "drain" /\ fullList > 0
    /\ fullList' = fullList - 1 /\ fullCount' = fullCount - 1 /\ inhand' = TRUE
    /\ Goto("handle")
    /\ UNCHANGED <<clock, net, freeList, freeCount, totalCount, buffer_shortfall, created, workers>>

(* Mutant: one packet each time around.                                    *)
HandleOne ==
    /\ pc = "handle"
    /\ inhand' = FALSE /\ freeList' = freeList + 1 /\ freeCount' = freeCount + 1
    /\ AskWorker
    /\ Goto("top")
    /\ UNCHANGED <<clock, net, fullList, fullCount, totalCount, buffer_shortfall, created>>

(* receiver(), which may be asked to configure a name, and freerecvbuf()   *)
Handle ==
    /\ pc = "handle"
    /\ inhand' = FALSE /\ freeList' = freeList + 1 /\ freeCount' = freeCount + 1
    /\ AskWorker
    /\ Goto("drain")
    /\ UNCHANGED <<clock, net, fullList, fullCount, totalCount, buffer_shortfall, created>>

DrainEnds ==
    /\ pc = "drain" /\ fullList = 0
    /\ Goto("top")
    /\ UNCHANGED <<clock, net, pool, workers>>

-----------------------------------------------------------------------------
(* finish_safe() first waits until no lookup is outstanding.  It harvests, *)
(* but what is not noticed yet will not be: it does not call select().     *)
CleanupHarvests ==
    /\ pc = "cleanup" /\ noticed
    /\ Harvest
    /\ UNCHANGED <<control, clock, net, pool>>

(* Then every part forgets its state and the sockets are closed.           *)
Cleanup ==
    /\ pc = "cleanup" /\ ~lookup
    /\ pc' = "ended" /\ asked' = FALSE
    /\ alarm_flag' = FALSE /\ socket' = 0 /\ seconds' = 0
    /\ UNCHANGED <<fdset, during, running, signalled, daemon, runs, was_alarmed, pool,
                   workers>>

(* The end of rtems_ntpd_run().                                            *)
RunEnds(t) ==
    /\ pc = "ended" /\ t \in daemon
    /\ running' = FALSE /\ daemon' = daemon \ {t} /\ pc' = "off"
    /\ UNCHANGED <<signalled, runs, asked, clock, net, pool, workers>>

Scan  == ReadPacket \/ IgnorePacket \/ DropPacket \/ ScanEnds
Drain == TakeFull \/ Handle \/ DrainEnds
Step  == \/ BootFails \/ Boot \/ Top \/ SelectIdle \/ SelectReady \/ Scan
         \/ NoteAlarm \/ Timer \/ Drain \/ CleanupHarvests \/ Cleanup
         \/ \E t \in Tasks : RunEnds(t)

Next ==
    \/ \E t \in Tasks : Run(t) \/ Stop(t)
    \/ Arrive
    \/ Step \/ SelectFails \/ SelectSkipped

(* The daemon's task is scheduled.  Of the traffic nothing is assumed but  *)
(* that a scan does not go on for ever (MaxDuring), and of the workers     *)
(* nothing at all.                                                         *)
Fairness == WF_vars(Step)

Spec == Init /\ [][Next]_vars
FairSpec == Spec /\ Fairness

-----------------------------------------------------------------------------
TypeOK ==
    /\ running \in BOOLEAN /\ signalled \in BOOLEAN /\ asked \in BOOLEAN
    /\ daemon \subseteq Tasks /\ pc \in Places
    /\ alarm_flag \in BOOLEAN /\ was_alarmed \in BOOLEAN /\ inhand \in BOOLEAN
    /\ fdset \in BOOLEAN /\ socket \in Nat /\ during \in 0 .. MaxDuring /\ seconds \in Int
    /\ freeList \in Nat /\ fullList \in Nat /\ created \in Nat
    /\ freeCount \in Int /\ fullCount \in Int
    /\ totalCount \in Nat /\ buffer_shortfall \in Nat /\ runs \in Nat
    /\ lookup \in BOOLEAN /\ noticed \in BOOLEAN

(* However tasks run and stop it, at most one of them is in the daemon,    *)
(* and running tells so.                                                   *)
OneDaemon ==
    /\ \A s, t \in daemon : s = t
    /\ running <=> pc # "off"
    /\ running <=> daemon # {}

(* A receive buffer is on one of the two lists or being handled: none is   *)
(* lost or counted twice, over drops, stops and starts.                    *)
PoolConserved == freeList + fullList + (IF inhand THEN 1 ELSE 0) = created

(* When the daemon stops no packet is left behind for the next run, whose  *)
(* init_recvbuff() zeroes the count of full buffers but not their list.    *)
NothingStranded ==
    pc \in {"off", "boot", "top", "wait", "cleanup", "ended"} =>
        fullList = 0 /\ ~inhand

(* Every alarm is passed on to timer() exactly once: none is overwritten by*)
(* the next select(), none is served twice.                                *)
AlarmsServedOnce ==
    seconds = IF alarm_flag \/ was_alarmed THEN 1 ELSE 0

(* A running daemon that is told to stop stops, whatever the traffic and   *)
(* whatever it was doing, or waits in its clean-up for an answer that was  *)
(* not noticed before (for which it waits without end: StopEndsTheLoop of  *)
(* WorkThread).                                                            *)
StopEnds ==
    (signalled /\ running) ~> (~running \/ (pc = "cleanup" /\ lookup /\ ~noticed))

(* ntpd.h:62 says of rtems_ntpd_stop() "The ntpd loop will exit when it    *)
(* next runs cleaning up": the loop does not go round after a stop.        *)
StopObeyed == [][pc = "top" /\ asked => pc' \in {"top", "cleanup"}]_vars

(* recvbuff.c:20 says free_recvbufs counts the "recvbufs on                *)
(* free_recv_list".                                                        *)
FreeCountExact == pc \in {"top", "wait", "drain"} => freeCount = freeList

(* ntp_timer.c:329 "The basic timerevent is one second", and ntpd.c:1505   *)
(* wants to "avoid timer starvation during lengthy I/O handling": as long  *)
(* as the daemon runs, timer() is called again and again.                  *)
TimerNotStarved == (pc = "top" /\ fdset) ~> pc \in {"timer", "cleanup"}
=============================================================================
