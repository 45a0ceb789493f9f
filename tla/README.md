# TLA+ models of rtems-net-services

This directory holds TLA+ specifications of the programs in this repository,
the TLC configurations that check them on small instances, and TLAPS proofs of
the results that matter most.  It is written for a reader who has the source
tree at hand; paths below are relative to `src/`, and `contrib/` abbreviates
`bsd/freebsd/contrib/ntp/`.

## 1. Inventory

The repository ports the NTP 4.2.8 suite to RTEMS: one address space, no
processes, and daemons that are started and stopped as tasks.

| Part | Source | State it keeps | Operations | What is hard |
|---|---|---|---|---|
| Blocking worker | `contrib/libntp/ntp_worker.c`, `work_thread.c` | the request and response rings of the `blocking_child`, its semaphores and pipe, `intres_req_pending`, the idle timer | queue a request, process responses, idle exit, restart, cleanup at the end | two threads, a wake-up sent after the lock is given back, a worker that leaves while a request arrives |
| Name lookups | `contrib/libntp/ntp_intres.c` | per-name retry schedule, contexts of the lookups | `getaddrinfo_sometime`, retry, completion callback | runs in both threads; retries race with the cleanup |
| Daemon life cycle | `contrib/ntpd/ntpd.c` | `ntpd_running`, `signalled`, the globals of every ntpd module | run, stop, running, main loop, cleanup and run again | stop and run from other tasks, state left by the last life |
| Program environment | `bsd/rtemsbsd/rtems/rtems-program.c`, `rtems-program-socket.c` | per program: open files, streams, memory, destructors | the wrapped libc calls, exit from any depth, the teardown | release exactly once; failures halfway through an operation |
| ntpq as a library | `bsd/rtemsbsd/rtems/rtems-ntpq.c` | the output buffer and stream, the query globals | create, destroy, query, the shell command | several tasks; a buffer read after the lock is given back |
| ntpq protocol | `contrib/ntpq/ntpq.c` | fragments of the answer collected so far, the association cache | send a request, collect the fragments, time out, retry | fragments lost, duplicated, reordered; answers to an earlier request |
| Control server | `contrib/ntpd/ntp_control.c`, `ntp_request.c` | the response being built, trap receivers | answer mode 6 and 7 packets | fragment boundaries |
| Packet input | `contrib/ntpd/ntp_io.c`, `contrib/libntp/recvbuff.c` | sockets, the free and full lists of receive buffers | select loop, interface updates | buffer limits, starvation of the timer |
| Protocol machine | `contrib/ntpd/ntp_proto.c`, `ntp_peer.c` | associations, clock filter, system peer | transmit, receive, select, poll | replay, loss, state that two directions share |
| Clock discipline | `contrib/ntpd/ntp_loopfilter.c`, `ntp_leapsec.c`, `contrib/libntp/systime.c` | the discipline's state, the leap table | `local_clock`, the timer's adjustments | step, spike and panic thresholds |
| Access control | `contrib/ntpd/ntp_restrict.c`, `ntp_monitor.c` | sorted restriction lists, the MRU list | restrict, lookup, rate limiting | order of the list, recycling at the limit |
| Timer | `contrib/ntpd/ntp_timer.c` | due times of the periodic jobs | `timer`, alarm handling | catching up, jobs started inside jobs |
| Configuration | `contrib/ntpd/ntp_config.c`, parser, scanner | the configuration tree | parse and apply | large, sequential |
| Authentication | `contrib/libntp/authkeys.c`, `a_md5encrypt.c`, `authreadkeys.c` | the key hash and its cache | trust, find, expire keys | a cache of the last key |
| ISC and option libraries | `contrib/lib/isc`, `contrib/sntp/libopts` | none of its own | lists, logs, addresses, options | imported support code |
| Network adapters | `net/*/net_adapter.c` | none | names and options that a network stack lacks | |
| ttcp and test programs | `ttcp/ttcp.c`, `testsuites/` | a run's counters | one transfer, the shell commands | |

Interaction: the application calls `rtems_ntpd_run` in a task of its own, which
enters the program environment and the main loop.  The main loop alternates
select, the timer and the packet receivers; receivers and timers start name
lookups, which the blocking worker carries out in its thread and hands back
through its pipe, so that a callback runs in the main loop.  Other tasks call
`rtems_ntpd_stop`, and the ntpq library with its shell command.

What makes each part correct, as far as it is modelled, is stated with its
module below.

## 2. Plan

The order follows what the port itself adds or changes first (a daemon that is
a task, can be stopped and run again, and works with threads instead of
processes), then the protocols that run over it.

| Step | Modules | Abstract specification | Theorems | State |
|---|---|---|---|---|
| 1 | `WorkRing`, `WorkThread` | `BlockingService`, implemented by `WorkThread` | rings; types; lock; semaphores; nothing forgotten; the refinement | done |
| 2 | `BsdProgram` | | the lists are exact, nothing outlives its program, each destructor is called once | done |
| 3 | `NtpqSession`, `NtpqQuery` | | a whole environment, own output; an answer is of its request, and whole | done |
| 4 | `NtpdLoop` | | one daemon, pool, alarms | done |
| 5 | `NameLookup` | | called back once, bounded waits, order | done |
| 6 | `Restrict`, `Monitor` | | the list is whole; monitoring follows it; entries are accounted, kisses spaced, the quiet served | done |
| 7 | `OnWire`: the on-wire protocol over a network that loses, repeats and reorders | | a sample is one exchange, each counts once; the first answer is accepted | done |
| 8 | `Selection`, `Discipline`: the choice of the sources and the state machine of the clock | | a right half of the sources wins; in sync means close | done |
| 9 | `Associations`: mobilisation, pools, preemption | | growth is bounded | done |
| 10 | the key table and its one-entry cache (`authkeys.c`) | a table without a cache | the cache agrees with the table | left |
| 11 | the clean-up of the daemon with the worker still at work, composed from `WorkThread` and `NameLookup` | | | left |

Composition.  `WorkThread` is built on `WorkRing` (EXTENDS) and implements
`BlockingService` (INSTANCE with a refinement mapping).  `NameLookup` is what
runs on top of that service: it takes the two rings for queues that deliver.
`NtpdLoop` has the same main loop as `WorkThread`, with the packets and the
alarm in place of the worker.  `NtpqSession` is the library around one query,
`NtpqQuery` the query itself, from its request to its last fragment.

The other modules follow a packet through the daemon.  `Restrict` is the lookup
it begins with and `Monitor` the rate control behind it, which the first
switches on and off; `OnWire` is its place in the exchange, from which a sample
reaches the clock filter; `Associations` is how peers come, are polled and go;
`Selection` is the choice between them, pure operators; and `Discipline` is what
the clock makes of the offset.  `DisciplineMC` composes the last two: the
offsets of the instance are computed by `Selection` from sources of which at
most half lie, and `SynchronyProofs` proves the bound that joins them.
`Associations` keeps of the selection only who can be chosen.

Each `...MC` module gives a specification's constants finite values and each
`...Proofs` module holds the theorems about it.  No module is parameterised by
what only TLC can evaluate, and none declares a RECURSIVE operator.  `NtpqProofs`
covers `BsdProgram`, `NtpqSession` and `NtpqQuery`, `AccessProofs` covers `Restrict`
and `Monitor`, and `SynchronyProofs` covers `Selection` and `Discipline`; the names of
modules that a proof module joins are told apart (`SessionInit`, `QueryInit`).

## 3. The modules and the code

Names of variables and actions are those of the code where there is one.  In
every module one step is one access to what is shared: what a thread does to
its own variables between two such accesses belongs to the step.

### WorkRing, WorkThread, BlockingService (`work_thread.c`, `ntp_worker.c`)

| Model | Code |
|---|---|
| `items`, `resps` | `workitems`, `responses` with `head_*`, `tail_*` and `*_alloc` of the `blocking_child` |
| `EnsureEmptySlot`, `HeadSlotIsEmpty` | `ensure_workitems_empty_slot`, `ensure_workresp_empty_slot` and the INSIST at their end |
| `Taken`, `AfterTake` | the two loops that skip empty slots |
| `accesslock`, `itemsPending`, `pipe` | the semaphores `accesslock` and `workitems_pending`, the octets in the response pipe |
| `ppc`, `back`, `after`, `arg` | the main thread's place and where it returns to |
| `QueueRequest`, `LockItems`, `PutItem`, `PostItem` | `queue_blocking_request`, `queue_req_pointer`, with `start_blocking_thread` when there is no thread |
| `DrainPipe`, `LockResps`, `TakeResponse`, `CallbackReturns`, `CallbackAsks`, `Processed` | `process_blocking_resp`, `receive_blocking_resp_internal`, the `done_func`, `cleanup_after_child` |
| `Top`, `SelectInput`, `SelectTimeout`, `Ask`, `IdleTimerFires`, `RecvEnds` | the main loop, as far as it meets the worker |
| `FiniWait`, `FiniExit`, `FiniPoll` | `rtems_ntp_worker_globals_fini` |
| `WaitItem`, `WorkerLocks`, `TakeItem`, `Resolve`, `PutResponse`, `Notify`, `LateNotify` | `blocking_child_common` and what it calls; `LateNotify` is the last write of a worker whose child has been cleaned up already |

An INSIST that fails ends both threads (`Abort`).  `BlockingService` is what a
caller of `queue_blocking_request` is promised: answered at most once, not
forgotten by a worker that stays, lost only with a worker that was told to go.
`Status` and `Leaving` are the refinement mapping: where a request is found
(`InFlight`) gives its status, an exit request or farewell anywhere on its way
gives `leaving`.  `Die` stands for a failed INSIST; that it needs an answer
first is a promise of its own: the first worker never meets a stale slot.

### NameLookup (`ntp_intres.c`)

`Ask` is `getaddrinfo_sometime_ex` or `getnameinfo_sometime`, `CompleteSuccess`,
`CompleteForward` and `CompleteReverse` are the two completions,
`manage_dns_retry_interval` and `should_retry_dns` keep their names,
`TakeRequest`, `SleepEnds`, `SleepInterrupted` and `Resolve` are
`blocking_getaddrinfo` and `blocking_getnameinfo` with `scheduled_sleep`, and
`Interrupt` is `interrupt_worker_sleep`.  `Second` lets a second pass.  Times are
counted down instead of up: `due` and `slot` say how far off `earliest` and
`next_dns_timeslot` are, which is all the code compares them for.

### NtpdLoop (`ntpd.c`, `ntp_io.c`, `recvbuff.c`)

`Run`, `Stop` and `RunEnds` are `rtems_ntpd_run`, `rtems_ntpd_stop` and the end of
a run; `Boot` is `ntpdmain` up to its loop with `init_recvbuff`, `BootFails` one of
its exits; `Top`, `NoteAlarm`, `Timer`, `TakeFull`, `Handle` and `DrainEnds` are
the loop; `SelectIdle`, `SelectReady`, `SelectFails` and `SelectSkipped` are
`io_handler`; `ReadPacket`, `IgnorePacket`, `DropPacket` and `ScanEnds` are
`input_handler_scan` with `read_network_packet`.  Packets and buffers are
counted, not told apart.  A free list that runs out stays empty until a buffer
comes back: the shortfall is only made up at the next start, since the two
places that would do so earlier (`get_full_recv_buffer`,
`get_free_recv_buffer_alloc`) are compiled with HAVE_SIGNALED_IO or
HAVE_IO_COMPLETION_PORT only.

Of the lookups the module keeps what the stop needs: whether one is outstanding
(`lookup`, for `intres_req_pending`) and whether an answer was noticed by
`input_handler_scan` and not yet harvested (`noticed`).  `AskWorker` is a step that may
queue one, `Harvest` is `harvest_blocking_responses`.  `CleanupHarvests` and
`Cleanup` are `finish_safe`: it comes behind `rtems_ntp_worker_globals_fini` only
when no lookup is outstanding, and otherwise stays there, since nothing notices
answers any more.  `StopEnds` therefore ends in a stopped daemon or in that wait.

### BsdProgram (`rtems-program.c`, `rtems-program-socket.c`)

`listed` stands for the lists `open_fd`, `open_file` and `allocated_mem` of a
control block, `live` for what the system has open or allocated.  Each wrapper
is one action, `Leave` is a return of the program or `rtems_bsd_program_exit`
with its longjmp, and `ReleaseOne`, `CallDestructor` and `Return` are
`rtems_bsd_program_call` behind it.  `holds`, `lost` and `due` are history: what
the program was given, what a failed realloc dropped, which destructors are
still to be called.

### NtpqSession (`rtems-ntpq.c`) and NtpqQuery (`ntpq.c`)

`NtpqSession` has `rtems_ntpq_create` with each of its failures
(`CreateAgain`, `CreateNoMemory`, `CreateNoStream`, `Create`), `Destroy`,
`rtems_ntpq_query` (`QueryRefused`, `QueryInvalid`, `QueryStarts`, `QueryFaults`,
`Handler`, `QueryReturns`) and the part of the shell command behind the library's mutex
(`GetOutput`, `PrintOutput`, `PrintError`).  Buffers and streams are numbered,
so that one that is gone differs from its successor, and `session` is the set of
environments in which the socket and the associations that are kept were opened;
0 stands for none.  After a close the pointer to the stream remains and the size
is zero, so a query goes on without an environment: it clears and copies nothing,
runs its handler with the closed stream, and may connect to a server.  A create
that finds no memory leaves the size behind instead; with an old stream pointer
the next query then clears the null pointer (`QueryFaults`).

`NtpqQuery` has `doqueryex` (`Ask`, `Finish`), `sendrequest` (`Send`,
`SendFails`), each way through the loop of `getresponse` (the `Select...` and
`Receive...` actions), and the server as far as it matters on the wire:
`Serve` answers a request, whole or with an error, cut in any of `Layouts`.  An octet of the buffer
is the number of the reply it came from.

### Restrict (`ntp_restrict.c`, with its callers)

| Model | Code |
|---|---|
| `tbl` | the sorted list `restrictlist4` with `restrict_def4` at its end, `res_limited_refcnt`, `mon_enabled` |
| `source` | `restrict_source_enabled`, `_mflags`, `_rflags` |
| `inc_res_limited`, `dec_res_limited`, `free_res` | the functions of these names, with the `mon_start` and `mon_stop` in them |
| `SortsBefore`, `Matches`, `StopsAt`, `match_restrict` | `RES_SORTS`, `match_restrict4_addr`, `restrictions` |
| `AddFlags`, `SubFlags`, `Remove` | the operations of `hack_restrict`; `source_add` and `source_remove` are `restrict_source` |
| `Configure`, `ConfigureSource`, `ConfigureMonitor` | `restrict`, `restrict source`, `enable monitor` (`ntp_config.c`) |
| `Request` | `do_restrict` (`ntp_request.c`), with its arguments in the order it passes them |
| `InterfaceUp`, `InterfaceDown`, `Receive`, `Solicit`, `NewPeer`, `Unpeer`, `Restart` | the callers in `ntp_io.c`, `ntp_proto.c`, `ntp_peer.c` and the start and end of a run |

### Monitor (`ntp_monitor.c`)

`mru` is the list itself, newest first, `free` the length of the free list.
`Known` and `Fresh` with `Admit`, `RunsDry`, `Replace`, `Overlook` are the ways
through `ntp_monitor`; `Chunk` is `mon_getmoremem`, which with `mru incalloc 0` makes
nothing, so that `RunsDry` fails the INSIST and ends the system; `Start`, `Stop`,
`ClearInterface` and
`ConfigureDepth` are `mon_start`, `mon_stop`, `mon_clearinterface` and the `mru` line;
`Step` is `ntpd_time_stepped` (`ntp_util.c`).  Time passes in half seconds, since
`ntp_monitor` rounds the interval between two packets to whole ones, and the
rounding is what `KodSpacing` is about.  An entry keeps the age of its last
packet on the system clock, so that a step of the clock changes it; the time since
its last kiss of death (`kodAge`) is true time, and `leaped` says that the clock was
stepped forward since.

### OnWire (`ntp_proto.c`)

`Transmit` is `peer_xmit`, `Serve` and `Limit` the branches of `receive` that end
in `fast_xmit`, `Receive` the one that ends in `process_packet`, with its tests in
the code's order: `Duplicate`, `StrayKiss`, `Bogus` (the loopback test), `Flash`.
`Updated` is what becomes of `aorg`, `rec`, `dst` and `xmt`, also of a bogus packet.
`Clear` is `peer_clear`.  `net` keeps every packet ever sent, and a packet may
arrive at any time, repeatedly or never.  `flights`, `sample` and `asked` are
history.

### Selection and Discipline (`ntp_proto.c`, `ntp_loopfilter.c`)

`Selection` holds the three algorithms of `clock_select`: `IsIntersection` and
`Truechimers`, `Survivors`, `Combined`, over integers.  The two scans over sorted
endpoints are written as counts (`CountUp`, `CountDown`), which is what `n` is
after each endpoint.

`Discipline` is `local_clock` as a state machine: `PanicExit`, `SetAndExit`,
`Ignore`, `StepClock` and `Slew` are its ways out, together with what
`clock_update` does for each verdict; `Second` is `adj_host_clock`, the kernel's
slew and what `adjtime` goes on with; `Start` and `Stop` are `init_loopfilter` with
the options and `rtems_ntp_loopfilter_globals_fini`, as often as the daemon is
run.  `Disturb` is what else may set the clock.  The exits of `local_clock` and
`clock_update` are the C library's (`Exits`): `ntpd.c` alone takes exit() for the end
of its task, so no run follows one of these.

### Associations (`ntp_proto.c`, `ntp_peer.c`)

`Poll` is `transmit` for a host, with `score_all` and `unpeer`; `Answer` is what an
answer does to `reach` and the selection behind it (`Filtered`, `Selections`), which
may end before the statuses are written when the system peer's sample is old
(`Unwound`);
`PoolPoll`, `Resolved` and `Response` are `transmit` and `pool_xmit` of a prototype,
`pool_name_resolved`, and the mobilisation in `receive`.  `count` is
`peer_associations`, which a reference clock that is not built raises for good.
The reachability register is abstracted to the polls it has left.

## 4. Runs

Every property of a passing run has a mutant of the code, listed in
`PROJECT.json`, under which the run finds it violated: a definition marked
"Faulty" or "Mutant" in a module is such a change and no action uses it.

| Run | Instance | What it shows |
|---|---|---|
| `blocking_worker` | 3 requests, rings from 0 slots by 1 | nothing is forgotten between the threads; the refinement of `BlockingService`; a staying worker answers |
| `worker_lost_request` | 2 requests | section 6 |
| `name_lookups` | 2 lookups of any of 3 kinds, interval limit 3 s, 1 wake-up | one callback for each lookup, and an end |
| `ntpd_loop` | 2 tasks, 3 runs, 2 buffers, 4 packets, 1 packet during a scan | the buffers over drops and restarts, no packet for the next run, the stop, which ends or waits for a lookup |
| `program_resources` | 2 tasks; 2 descriptors, 1 stream, 2 blocks, 2 destructors | nothing released twice, taken away or left |
| `ntpq_session` | 2 tasks, 3 environments, 5 commands | the environment is whole, also after failures, closes and queries without one; the answers are their askers' |
| `ntpq_query` | 2 queries, 2 replies, 4 octets, 2 fragments, 3 ways to cut, 1 signal | answers hold nothing of other requests, one reply comes whole, every query ends |
| `access_list` | 4 addresses, 4 rules, 1 source rule, 2 hosts, 1 interface, 5 requests, 3 s | monitoring on demand, the most specific entry first, what is configured stays |
| `client_monitor` | 2 clients, room for 1 or 2, chunks of 0, 1 or 2, headway 2 s, 1 step of the clock | entries and limits add up, kisses of death are rare, a quiet client is served |
| `on_wire` | 2 hosts, 9 timestamps (client) or 7 (peers), 1 kiss, 1 clear | a sample is one exchange, in order; strays do not use up a request |
| `clock_discipline` | 3 sources, one of them lying; thresholds 1, 2, 2, 5; 1 disturbance, 1 failure, 1 restart, an exit | in sync means close, spikes outlast the stepout, one panic at most, convergence |
| `associations` | 3 hosts, 1 pool, room for 2 before pools stop, 1 event | growth is bounded, pools fill and settle |

Why these bounds are enough for what is asked:

* *Requests.*  The second request meets a ring that is not empty, or a worker
  that is leaving; the third one finds the slots that a former worker left and
  a ring that has wrapped and grown.  With two requests no INSIST fails; with
  three it does (section 6).  The increment of one slot makes every second
  request enlarge a ring, where the increments of the code, 16 and 4, would hide
  it.  One read takes 32 octets of the pipe, which three responses do not fill:
  that boundary is in the formula (`AfterRead`), not in the instance.
* *Lookups.*  Two lookups share a timeslot, a worker and a sleep, which is what
  the ordering is about.  Intervals 2, 3, 3 are a power of two, a value that
  is none, and one that the limit cut.  `NameLookupMC` evaluates the rest of the
  sequence, up to 1024, as an assumption.
* *The loop.*  Three runs have a first one, one that inherits buffers, and one
  that inherits what the second one left.  Four packets for two buffers are
  drops in one scan.
* *The environment.*  Two blocks make a move and an interleaved reuse of an
  address possible, two descriptors a stale number that another task was given.
* *ntpq.*  Three environments let a task hold a pointer from the first while
  another opens the third.  Five commands are a query and a close of each task
  and one more.  Two replies are those to a request and its repetition; the
  three cuts have one fragment, two that overlap with those, and one too long.
* *The access list.*  The rules nest: all addresses, two of them, one of them for
  any port, one for the NTP port only; a request can hit the default entry, a
  rule and an interface's entry.  The window of two seconds within three lets an
  entry expire while another is made.
* *The monitor.*  One or two clients are at, and over, either limit; memory comes
  in chunks of one and two, so that the list passes the configured depth by part
  of a chunk, or not at all.  Ages up to 12 half seconds are past `mru_maxage` and three headway
  increments.
* *The wire.*  Nine timestamps are two whole exchanges of a client with a packet to
  spare, seven one and a half between two peers, so that every packet of the
  first exchange can come again in the second.  The theorems cover any number.
* *The discipline.*  The step thresholds differ by direction, the panic threshold is
  above what a lying minority of three sources can do and below the error to
  begin with (7), and the stepout takes two seconds.  One disturbance, one step
  that fails and one restart are each a way out of sync; their combination is in
  the run.
* *Associations.*  With `MaxClock` and `MinClock` 2 and three hosts the pool stops
  and starts; the hard limit of 4 is within reach of the hosts, the prototype and
  two reference clocks that are counted; a host is preempted after 3 polls.  An
  event is a loss, a failed lookup, a host that goes down or up, a sample that is
  not used or finds the system peer's old, or a step of the clock; the run has one.

CHECK_DEADLOCK is off where an instance may stop: `ntpq_session` and `ntpq_query`,
where the bounds on commands and queries end it (and, in `NtpqSession`, a null
pointer), `on_wire`, where timestamps run out, `clock_discipline`, whose daemon
may end for good, `client_monitor`, which ends with the INSIST, and
`associations`, which comes to rest when enough is known.
The states that a stopped system reaches elsewhere loop (`Ended` in
`WorkThread`, `Stopped` in `BsdProgram`).  `NtpqSession` is symmetric in the
callers and `Monitor` in the clients, and neither run checks liveness; no other run
uses symmetry.

## 5. Fairness

* *Threads run.*  The main thread and the worker get weak fairness of all their
  steps (`WorkThread`, `NameLookup`), the daemon of all its steps (`NtpdLoop`),
  the ntpq client of its own (`NtpqQuery`): RTEMS schedules a thread
  that is ready; that the tasks of higher priority leave it time is assumed.
* *`WorkerLocks` is strongly fair.*  A thread that polls could take the lock each
  time before the worker does.  In `rtems_ntp_worker_globals_fini` it sleeps
  10 ms between two polls, so the worker, which waits for the semaphore
  meanwhile, gets the unit.
* *Answers come back.*  `Resolve` is fair: `getaddrinfo` returns, with an error if
  it has to.  For `EveryLookupEnds` alone DNS is assumed to recover
  (`DnsRecovers`): a lookup that is tried for ever succeeds in the end.  Without
  it the code retries without limit, on purpose.
* *Time passes.*  `Second` in `NameLookup` and `TimePasses` in `NtpqQuery` are fair.
  `NtpdLoop` needs no clock: its alarm is a step of the daemon.
  `Discipline` needs that seconds pass and that sources go on to be polled; which
  of them lies, and when a step fails, is left open.
* *Timers and answers.*  In `Associations` what is due is polled, once a second
  by `timer()`; answers that are on their way and lookups come in the end, with a
  failure if it has to be (a lost packet is an action of its own, which uses up
  an event).
* *The world owes nothing.*  Requests, packets, replies, stops and interrupts are
  never fair.  That a scan ends is an assumption (`MaxDuring`): the code reads a
  socket until it is empty and has no limit of its own.

## 6. What the code does not keep

One sentence of the repository is checked by a run that ends in a
counterexample, `worker_lost_request` (`EveryRequestIsAnswered`).  The idle timer
sends `CHILD_EXIT_REQ`; a lookup is queued behind it; the worker answers
`CHILD_GONE_RESP`; `cleanup_after_child` restarts the sequencers over the lookup.
Its callback never runs and `intres_req_pending` never comes back to zero.

The others are stated at the end of their modules, with the sentence they are
taken from, and are not among the runs.  Each is violated when it is named as
the INVARIANT or PROPERTY of the module's configuration.

| Property | What happens |
|---|---|
| `StopEndsTheLoop` (`WorkThread`) | With a lookup outstanding, the clean-up waits in a loop around `harvest_blocking_responses`, which looks at counters that only `input_handler_scan` advances, and no `select()` runs there. |
| `HeadSlotInsist` (`WorkThread`) | The slots that `cleanup_after_child` leaves behind keep their pointers.  A later life of the child counts to such a slot and the INSIST in `ensure_workitems_empty_slot` fails.  The pointer is either a lost lookup or a second `CHILD_EXIT_REQ`: `Processed` starts the idle timer again when an old notification of the pipe brings the main thread back while the worker is leaving. |
| `NoWorkerOnDeadChild` (`WorkThread`) | The farewell is visible before the worker's write to the pipe, which may go to its successor's pipe or to a closed descriptor. |
| `TimerNotStarved` (`NtpdLoop`) | Without the interval timer only a `select()` that finds nothing for a second raises the alarm. |
| `StopObeyed` (`NtpdLoop`) | A stop before the loop, or between two runs, is overwritten by `signalled = false`, or, when nothing runs, kept until then. |
| `FreeCountExact` (`NtpdLoop`) | `init_recvbuff` zeroes the count of a list that it does not empty. |
| `FreeAssertion` (`BsdProgram`) | The block of a failed `realloc()` left the list before and is not put back; its `free()` asserts. |
| `QueryHasEnvironment` (`NtpqSession`) | The check looks at a pointer that `rtems_ntpq_destroy` leaves behind; the size is zero then, so nothing stops the query, and its handler is given the closed stream. |
| `PrintsOwn` (`NtpqSession`) | The shell prints the shared buffer and the shared error text after the mutex was given back. |
| `OneReplyPerAnswer` (`NtpqQuery`) | A request that timed out is made again under its old number, and fragments of both replies are put together. |
| `IgnoredDoNotSleep` (`NameLookup`) | What a worker notes about sleeps to ignore is cleared when the next request takes the context. |
| `NoStaleWakeUp` (`NameLookup`) | An interrupt while no worker sleeps stays in the semaphore and ends a later sleep. |
| `LookupIsMostSpecific` (`Restrict`) | `match_restrict4_addr` frees an entry that expired and then compares its cleared contents, which match every address: the packet gets no restrictions (`ntp_restrict.c:389-394`). |
| `HandsOffSpecific`, `SourceEntryHasPeer` (`Restrict`) | When an association goes, `restrict_source` removes an entry with match flags 0, not those it was made with: the entry made for it stays, one that was configured for the address goes. |
| `PeerEntryStays` (`Restrict`) | When another entry has expired, the lookup frees that one and never comes to the fleeting entry of the host; the flags are added to it, and it keeps its time to expire. |
| `OwnAddressIgnored` (`Restrict`) | `do_restrict` passes the match flags and the limit of associations in each other's place (`ntp_request.c:1894`), so that a request can reach the entries of interfaces. |
| `NotComparedAcrossStep` (`Monitor`) | `ntpd_time_stepped` means to flush the MRU list, and calls `mon_stop(MON_OFF)`, which returns at once. |
| `EntryInsist` (`Monitor`) | `mru incalloc 0` is accepted (`ntp_config.c:2527`); when the free list is empty the daemon then has no entry for a new client and INSIST(mon != NULL) ends it (`ntp_monitor.c:487`). |
| `BogusChangesNothing` (`OnWire`) | A bogus packet updates `rec`, `xmt` and `dst` as a good one does, against the comment that it is discarded with no further action. |
| `FirstPanicExits` (`Discipline`) | `allow_panic` is cleared by no clean-up: a `-g` of one run lets a later one begin with an offset beyond the panic threshold. |
| `CountIsMobilized` (`Associations`) | `newpeer` counts a reference clock, finds that none is built, frees it and counts nothing back; the count limits the pools. |

Smaller differences that no property states: the limit of the pools is written
with `<=` where the comment above it says "less than a hard limit" (`ntp_proto.c`);
`mru_maxdepth` is passed by up to `mru_incalloc - 1` entries, as `AllAccounted` says;
the failure of `step_systime` is not looked at; and "a single spike is always
suppressed" does not hold in FREQ state, to which `SpikesOutlastStepout` does not
extend.

## 7. Proofs

The theorems hold for every value of the constants that the modules' named
assumptions allow; one theorem assumes more and says so in its statement.  TLC
evaluates each named assumption in the run of its module.

* **WorkThreadProofs, the rings.**  For any set of items and any increment: enlarging, storing,
  taking and restarting keep a ring a ring (indices in order, no more items than
  slots), what is taken is an item, and an item stored is in the slot it was
  stored in.  The facts about `First` need that a non-empty set of natural
  numbers has a least element, which is proved here as well.  What a ring holds
  changes by exactly the item stored or taken; for enlarging, which restarts the
  sequencers, that rests on numbers in a row using each slot once
  (`SlotIsCounted`).  A ring without leftovers keeps having none, and its next slot
  is empty: the INSIST of `ensure_workitems_empty_slot`.
* **WorkThreadProofs, the threads.**  `TypeOK`, `AccessLockExcludes`, `SemaphoresExistInUse`,
  `NothingForgotten` and `ImplementsService`, for any set of requests and
  increments.  `SemaphoresExistInUse` is not inductive: why the
  semaphores exist while a worker uses them depends on where a farewell can be.
  The invariant `IInv` adds the sort of item that each place carries
  (`CarriedOK`), that an abort ends both threads (`AbortEndsBoth`), that the
  child's state, the semaphores and the thread agree (`LifeTime`), that the main
  thread is inside an operation only while there is something to operate on
  (`ParentNeeds`), and that there is at most one farewell, stored by a worker that
  is behind its last response (`OneFarewell`).  There is one lemma for each group
  of actions, and the ring lemmas are used by name.
  `NothingForgotten` adds `JInv`: a request is at one place at most (`OnePlace`), and
  only while it is due (`PlacedIsDue`), which makes the count exact; the units of
  `workitems_pending` cover what the sequencers count (`ItemUnits`), and a response
  they count has been signalled (`ResponseSignal`).  The refinement adds `KInv`: the
  worker is told to leave only with nothing pending (`TimerIdle`), and before the
  first answer no ring holds a leftover (`FirstLife`), so the INSIST that a leftover
  makes fail comes after one.  Then each action is a step of the service or none;
  most are none, because what a thread carries and what a ring holds are both the
  service's.
* **NtpqProofs, the program environment.**  `ProgramTypeOK`, `HandlesAccounted` with its
  three parts, `ListedIsLiveOnce`, `HeldStaysLive` and `NothingOutlives`, and
  `DestructorsDue`, for any number of tasks and handles.  `IInv` relates the
  program's view and the lists: what a running program holds is listed or was
  lost, what is listed or lost is live and held by one program, and what is live
  is listed or lost.  `ListsWhatIsDue` says of the list of destructors, a sequence,
  that it names each that is due once, which adding, removing and calling keep.
* **NtpqProofs, the library.**  `SessionTypeOK`, `EnvironmentIsWhole` and `AnswerIsOwn`,
  for any number of tasks, environments and commands, with queries while none is
  open among them.  What the first two do not say, and the third needs, is whose
  output a buffer holds while its query runs (`ContentIsOwn`).
* **NtpqProofs, the query.**  `QueryTypeOK`, `AnswersThisRequest` and `OneReplyIsWhole`,
  for any replies, cuts, losses, repetitions and signals.  The invariant follows the
  octets: a fragment in the network is part of the reply it names
  (`ResponsesAreTrue`), what is put together is out of replies to this request
  (`OctetsAreOwn`, `FragsAreOwn`), and the last fragment was seen unless a signal
  pretended it (`LastWasSeen`).  That the fragments of one reply without a hole
  between them have its length is a lemma of its own (`SizeOfAnswer`).
* **NtpdLoopProofs.**  `TypeOK`, `OneDaemon`, `PoolConserved`, `NothingStranded` and
  `AlarmsServedOnce`, for any number of tasks, buffers, packets and runs.
  `InHandPlace` (a buffer is in hand exactly while a packet is handled) and
  `AlarmPlaces` (where which flag may be up) make them inductive.
* **NameLookupProofs.**  `TypeOK`, `NoLongWait`, `CalledBackOnce` and
  `FirstDueIsFirst`, for any number of lookups and any limits up to 2048 s.  Three
  invariants in turn: `TInv` (types and bounds; intervals stay intervals, which
  needs that the lowest bit of a number that is no power of two is below it),
  `HInv` (a lookup is in exactly one hand until it is called back), and `OInv`
  (whatever is due at all is due by the timeslot, unless the timeslot was reset
  in between, which is why appending keeps the order).
* **AccessProofs, the list.**  `TypeOK`, `ListIsWhole`, `CountIsLimited`,
  `MonitoringOnDemand`, `MostSpecificFirst` and `ConfiguredStays`, for any space of
  addresses, rules and requests with contiguous masks.  `Whole`
  says of one table that it is finite, has the default entry, no two entries
  with one key, and the exact count; each helper takes a whole table to a whole
  one, and the actions follow.  That a lookup stops at an entry at all
  (INSIST(match != NULL)) is part of it: the order decides between any two
  entries, and a finite set has a first one.
  `MostSpecificFirst` needs in addition that every mask comes from the configuration,
  an interface or a request (`MaskInv`), and that of two contiguous masks the longer
  leaves no more of an address out than the shorter, so that the order by address
  never puts the less specific entry first.  For `ConfiguredStays`, `Keeps` follows
  what does not expire through each helper.
* **AccessProofs, the monitor.**  `MonitorTypeOK`, `AllAccounted`, `KodSpacing` and
  `QuietClientServed`, for any clients, depths, chunks, headway, limits and steps of the
  clock, and `DryOnlyByOrder`: the INSIST fails only with `mru incalloc 0`.
  The two action properties are about one entry over any number of packets, so
  the invariant is of entries: after a kiss of death the leaky bucket stays so full
  that none is due again within a headway increment (`KodNotDue`), unless the clock was stepped
  forward, which `KodSpacing` leaves out as `QuietClientServed` does every step, and, while the
  clock is not stepped, no bucket is fuller than a kiss of death leaves it
  (`LeaksOut`).  Lemmas carry it through every way in which one list is made of
  another: an entry moved to the front, replaced, added, unlinked.  The minimum in
  `QuietClientServed` came of the proof: with a minimum above twice the headway, which
  `discard` can configure, a client can be quiet for two increments and still be
  too early.
* **AssociationsProofs.**  `TypeOK` and `GrowthIsBounded`, for any hosts, pools, numbers
  of lookups and configurations.  The hard limit is looked at when a pool asks for
  more, and not again when the answer comes, so the bound is not inductive.  Each
  pool has as many slots as it may have lookups under way; a lookup or a request
  in progress takes one (`PendingFits`), and what is free is what separates the
  count from the bound (`RoomForPending`).  The argument showed that the bound
  grows with the lookups under way, not only with the pools.
* **OnWireProofs.**  `TypeOK`, `SampleIsOneExchange`, `SamplesInOrder` and
  `AnswerAccepted`, for any number of timestamps, kisses and clears.  What makes a
  sample sound is who took which timestamp (`OneTaker`, `AorgIsOurs`): a clean packet
  returns a time of ours, which can only be returned together with the time it
  arrived there (`OrgArrived`, `RecArrived`); and a request that was used up lies
  before the next one (`SampleBeforeRequest`), which orders the samples.  For a
  client `ClientInv` adds that its request stands until an answer arrives
  (`RequestStands`) and that the duplicate test compares with a packet that arrived
  or with a time of its own (`RecIsXmt`, since an obeyed kiss returns one).
* **SynchronyProofs.**  `TruechimersAreNearTheTruth` is the argument behind the
  intersection algorithm, for any finite set of candidates: where a scan stops,
  more than half of the intervals hold the point, so, if half of the sources are
  right, a right one does; hence both ends of the intersection are near the truth,
  and so is each source that reaches into it.  Of `Discipline`: `TypeOK`,
  `PanicOnce` and `SpikesOutlastStepout` for any thresholds and any offsets, and
  `InSyncIsClose` under `Bounded` (every offset that is selected is within `Bound` of
  the true one), from an invariant (`NearInv`) that follows what the three slews
  still owe the clock.  That what clustering and combining make of truechimers
  stays in the bound is computed by the run, not proved.

With TLC only: all liveness (`StayingWorkerAnswers`, `EveryLookupEnds`, `StopEnds`,
`EveryQueryEnds`, `Converges`, `PoolFills`, `PoolSettles`), which under fairness is out of
the prover's reach, and the counterexample of section 6.  Every invariant and
every action property of a passing run is a theorem; of `PoolSettles`, which is an
eventual one, no part is.  What `Survivors`, which recurs over sets, computes for
every input is out of reach as well, so `InSyncIsClose` assumes it (`Bounded`).  The
invariants `AccessLockExcludes`, `SemaphoresExistInUse`, `NoLongWait`,
`FirstDueIsFirst`, `OneDaemon`, `PoolConserved`, `AlarmsServedOnce`, `ListIsWhole`,
`CountIsLimited`, `DryOnlyByOrder` and `DestructorsDue` are proved and not among a run's properties by
name.

## 8. What is not modelled, and why

* *In the worker, the lookups and the loop.*  `worker_per_query` is set nowhere,
  and the branches for it are left out; so is the worker as a process
  (`work_fork.c`, not built).  Of a lookup: `res_init()` once a minute, the
  marshalling of addresses, and the release of its context when the daemon
  stops.  `eai_again_seen` survives a run of the daemon; the model has one run.
  `IgnoreErrors` is FALSE in the run since `IGNORE_DNS_ERRORS` is not defined; the
  theorems hold for both.  Of the loop: the list of interfaces, sending, what a
  handler does with its packet, and the order of the clean-up behind its wait for
  lookups; the farewell of an idle worker, which wakes the loop, is left out there.  Of the program
  environment: the copy of a data section around a call, which nothing uses.  Of
  ntpq: the arguments of a command and the text it prints.
* *The sequencers of the rings* are natural numbers.  They are `size_t` in C and
  would have to pass 2^32 between two idle exits to differ.
* *In access control and rate limiting.*  IPv6 has the same code and a list of its
  own; one list is modelled.  The limit of associations per address
  (`ippeerlimit`), the hash table beside the MRU list, and the lists that ntpq
  reads are left out.  The counters of the leaky bucket do not overflow.
* *In the protocol machine.*  Interleaved, broadcast and manycast modes (which a
  configuration must ask for), passive and ephemeral associations, keys and
  autokey, the clock filter's arithmetic and its jitter, the epochs themselves by
  which old offsets are skipped (that one may be is an event), orphan mode, clock
  hopping, leap seconds.  A poll is one
  step, whatever bursts it consists of.  `PoolFills` and `PoolSettles` are stated for
  hosts that are honest: a lying majority is not what the code claims to bear.
* *In the discipline.*  Frequency, jitter, poll interval and time constant weigh the
  corrections and do not change which way is taken; huff-n'-puff, the daemon
  without kernel discipline and `disable ntp` are options not modelled.
* *Keys* (`authkeys.c`).  Digests are out of reach; the table and its cache of one
  key could follow.  That `auth_delkeys` and `init_auth` leave the cache as it is,
  is listed as a hazard without a property.
* *Timer.*  What `timer()` does each second is in the module it belongs to; its
  fixed order, interface updates and statistics are not.
* *Configuration, statistics, conversion and logging, the control server, the ntpq
  and ntpdc front ends*: parsing and formatting, with little state of their own.
* *Autokey, reference clocks, simulator*: not built.  *Signing*: input and output
  with a local socket.
* *ISC and option libraries, network adapters, `ttcp`, the tests and the build
  system*: third-party or without state; the tests and the build were read for
  how the programs are used and what is defined.
