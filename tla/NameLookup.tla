----------------------------- MODULE NameLookup -----------------------------
(***************************************************************************)
(* Name lookups of ntpd: ntp_intres.c, in the daemon (getaddrinfo_sometime,*)
(* getnameinfo_sometime and their completions) and in the blocking worker  *)
(* (blocking_getaddrinfo, blocking_getnameinfo), with one worker for all   *)
(* lookups, which is how ntpd uses it (worker_per_query is 0).             *)
(*                                                                         *)
(* Times are relative to now: due[l] is how many seconds off is            *)
(* l->earliest and slot how many is next_dns_timeslot, 0 when it is past.  *)
(* So max(now, t) is t's countdown itself and max(now + retry, t) is the   *)
(* larger of retry and t's countdown.  l->scheduled matters only in        *)
(* comparison with ignore_scheduled_before: `old' has the lookups          *)
(* scheduled in an earlier second, `ignored' those that the worker's       *)
(* context lets through without a sleep.                                   *)
(*                                                                         *)
(* How the two threads hand requests and responses over is the subject of  *)
(* WorkThread; here they are two queues.  Queueing a request fails for no  *)
(* thread worker.  res_init() and the text of answers are left out.        *)
(***************************************************************************)
EXTENDS Integers, Sequences

CONSTANTS
    Lookups,        \* the lookups, each asked at most once
    NULL,
    RetryMax,       \* 64: the longest retry interval in seconds
    RetryMaxForever,\* 1024: the same for lookups that ignore DNS errors
    IgnoreErrors,   \* GAIR_F_IGNDNSERR, set with IGNORE_DNS_ERRORS only
    MaxWakes        \* bound: units wake_scheduled_sleep may hold

INITIAL_DNS_RETRY == 2

ASSUME LookupAssumption ==
    /\ NULL \notin Lookups
    /\ RetryMax \in Nat /\ INITIAL_DNS_RETRY <= RetryMax
    /\ RetryMaxForever \in Nat /\ RetryMax <= RetryMaxForever
    /\ RetryMaxForever <= 2048
    /\ IgnoreErrors \in BOOLEAN /\ MaxWakes \in Nat

VARIABLES
    kind,           \* how each lookup was asked for, "none" before that
    retry, due,     \* the fields of its request
    queue, resps,   \* requests and responses on their way
    slot,           \* child_ctx->next_dns_timeslot
    eai_again_seen,
    wpc, cur,       \* the worker, and the lookup it is at
    old, ignored,   \* worker_ctx->ignore_scheduled_before, see above
    wakes,          \* units of wake_scheduled_sleep
    calls,          \* history: callbacks made
    late            \* history: lookups still due when the timeslot was reset

request  == <<kind, retry, due>>
daemon   == <<slot, eai_again_seen>>
worker   == <<wpc, cur, ignored>>
history  == <<calls, late>>
vars == <<request, queue, resps, daemon, worker, old, wakes, history>>

Kinds == {"pool", "name", "addr"}
    \* "pool" asks getaddrinfo without retries, "name" with, "addr" getnameinfo

\* EAI_FAIL also stands for EAI_SYSTEM, which is treated alike, and EAI_FAMILY
\* for every code that should_retry_dns() does not know.
Failures == {"EAI_FAIL", "EAI_AGAIN", "EAI_NONAME", "EAI_FAMILY"}
Codes == Failures \cup {"0"}

Larger(a, b) == IF a >= b THEN a ELSE b
Smaller(a, b) == IF a <= b THEN a ELSE b

Init ==
    /\ kind = [l \in Lookups |-> "none"]
    /\ retry = [l \in Lookups |-> 0] /\ due = [l \in Lookups |-> 0]
    /\ queue = <<>> /\ resps = <<>>
    /\ slot = 0 /\ eai_again_seen = FALSE
    /\ wpc = "idle" /\ cur = NULL /\ old = {} /\ ignored = {}
    /\ wakes = 0
    /\ calls = [l \in Lookups |-> 0]
    /\ late = {}

-----------------------------------------------------------------------------
(* The retry interval: 2-3-4-6-8-12-16-24-32... up to a limit.             *)

Powers == {1, 2, 4, 8, 16, 32, 64, 128, 256, 512, 1024, 2048, 4096}

LowestBit(n) == CHOOSE p \in Powers : n % p = 0 /\ n % (2 * p) # 0

\* Doubled, then the lowest bit cleared, or a quarter off if it is the only one.
NextInterval(r) ==
    LET d == 2 * r IN
    IF d \in Powers \cup {0} THEN d - d \div 4 ELSE d - LowestBit(d)

Limit(forever) == IF forever THEN RetryMaxForever ELSE RetryMax

\* min(retmax, retry)
NextRetry(r, forever) == Smaller(Limit(forever), NextInterval(r))

\* max(now + retry, *pnext_timeslot)
NextTimeslot(r) == Larger(r, slot)

manage_dns_retry_interval(l, forever) ==
    /\ slot' = NextTimeslot(retry[l])
    /\ due' = [due EXCEPT ![l] = NextTimeslot(retry[l])]
    /\ retry' = [retry EXCEPT ![l] = NextRetry(@, forever)]
    /\ old' = old \ {l} /\ ignored' = ignored \ {l}
    /\ late' = late \ {l}

should_retry_dns(code) ==
    \/ code \in {"EAI_FAIL", "EAI_AGAIN"}
    \/ code = "EAI_NONAME" /\ ~eai_again_seen

-----------------------------------------------------------------------------
(* The daemon's thread.                                                    *)

\* max(now, child_ctx->next_dns_timeslot)
Earliest == slot

\* getaddrinfo_sometime_ex() and getnameinfo_sometime().
Ask(l, k) ==
    /\ kind[l] = "none"
    /\ kind' = [kind EXCEPT ![l] = k]
    /\ retry' = [retry EXCEPT ![l] = IF k = "pool" THEN 0 ELSE INITIAL_DNS_RETRY]
    /\ due' = [due EXCEPT ![l] = Earliest]
    /\ queue' = Append(queue, l)
    /\ UNCHANGED <<resps, daemon, worker, old, wakes, history>>

Answer == Head(resps).code
Answered == Head(resps).lookup

\* A response is at hand; process_blocking_resp() takes it.
TakeResponse == resps # <<>> /\ resps' = Tail(resps)

\* The callback is called, and the request freed.
Callback(l) == calls' = [calls EXCEPT ![l] = @ + 1] /\ UNCHANGED queue

NothingRescheduled == UNCHANGED <<retry, due, old, ignored>>

\* After a success that took retries the timeslot is now.
ResetTimeslot(l) == slot' = IF retry[l] > INITIAL_DNS_RETRY THEN 0 ELSE slot

CompleteSuccess ==
    /\ TakeResponse /\ Answer = "0"
    /\ ResetTimeslot(Answered)
    /\ late' = IF slot' < slot THEN {l \in Lookups : due[l] > 0} ELSE late
    /\ Callback(Answered)
    /\ NothingRescheduled /\ UNCHANGED eai_again_seen

\* Mutant: the return is missing, and the callback called as well.
RequeueAndGoOn(l) ==
    queue' = Append(queue, l) /\ calls' = [calls EXCEPT ![l] = @ + 1]

\* Mutant: the return comes without the request being queued.
ReturnOnly(l) == UNCHANGED <<queue, calls>>

\* The request is queued again, and the callback has to wait.
Requeue(l) == queue' = Append(queue, l) /\ UNCHANGED calls

\* gai_req->retry > 0
WantsRetry(l) == retry[l] > 0

\* getaddrinfo_sometime_complete() of an error.  should_retry_dns() is not
\* asked when DNS errors are ignored.
CompleteForward ==
    /\ TakeResponse /\ Answer # "0" /\ kind[Answered] # "addr"
    /\ eai_again_seen' =
          IF ~IgnoreErrors /\ Answer = "EAI_AGAIN" THEN TRUE ELSE eai_again_seen
    /\ IF WantsRetry(Answered) /\ (IgnoreErrors \/ should_retry_dns(Answer))
       THEN /\ manage_dns_retry_interval(Answered, IgnoreErrors)
            /\ Requeue(Answered)
       ELSE Callback(Answered) /\ NothingRescheduled /\ UNCHANGED <<slot, late>>

\* getnameinfo_sometime_complete() of an error: it takes the next timeslot
\* even when the lookup is not going to be tried again.
CompleteReverse ==
    /\ TakeResponse /\ Answer # "0" /\ kind[Answered] = "addr"
    /\ eai_again_seen' = IF Answer = "EAI_AGAIN" THEN TRUE ELSE eai_again_seen
    /\ manage_dns_retry_interval(Answered, FALSE)
    /\ IF should_retry_dns(Answer)
       THEN Requeue(Answered)
       ELSE Callback(Answered)

Complete ==
    /\ CompleteSuccess \/ CompleteForward \/ CompleteReverse
    /\ UNCHANGED <<kind, wpc, cur, wakes>>

\* interrupt_worker_sleep(), when an interface was found.
Interrupt ==
    /\ wakes < MaxWakes
    /\ wakes' = wakes + 1
    /\ UNCHANGED <<request, queue, resps, daemon, worker, old, history>>

-----------------------------------------------------------------------------
(* The worker's thread.                                                    *)

\* Mutant: the worker holds on to the request it has answered.
KeepRequest == cur

\* free(req)
FreeRequest == NULL

\* ZERO(*retv)
ClearContext == {}

\* scheduled_sleep() lets the lookup through.
NoSleep(l) == l \in ClearContext \/ due[l] = 0

\* The next request: get_worker_context(), and scheduled_sleep() as far as
\* worker_sleep().
TakeRequest ==
    /\ wpc = "idle" /\ queue # <<>>
    /\ cur' = Head(queue) /\ queue' = Tail(queue)
    /\ ignored' = ClearContext
    /\ wpc' = IF NoSleep(Head(queue)) THEN "resolve" ELSE "sleep"
    /\ UNCHANGED <<request, resps, daemon, old, wakes, history>>

\* sem_timedwait() returns ETIMEDOUT.
SleptEnough == due[cur] = 0

SleepEnds ==
    /\ wpc = "sleep" /\ SleptEnough
    /\ wpc' = "resolve"
    /\ UNCHANGED <<request, queue, resps, daemon, cur, ignored, old, wakes, history>>

\* sem_timedwait() takes a unit: sleeps scheduled before now are ignored.
SleepInterrupted ==
    /\ wpc = "sleep" /\ wakes > 0
    /\ wakes' = wakes - 1 /\ wpc' = "resolve"
    /\ ignored' = old
    /\ UNCHANGED <<request, queue, resps, daemon, cur, old, history>>

\* getaddrinfo() or getnameinfo() returns, and the response is queued.  After
\* a success that took retries, sleeps scheduled before now are ignored.
Resolve(code) ==
    /\ wpc = "resolve"
    /\ resps' = Append(resps, [lookup |-> cur, code |-> code])
    /\ ignored' = IF code = "0" /\ retry[cur] > INITIAL_DNS_RETRY
                  THEN old ELSE ignored
    /\ wpc' = "idle" /\ cur' = FreeRequest
    /\ UNCHANGED <<request, queue, daemon, old, wakes, history>>

-----------------------------------------------------------------------------
(* A second goes by.                                                       *)

Waiting == {l \in Lookups : kind[l] # "none" /\ calls[l] = 0}

Less(n) == IF n = 0 THEN 0 ELSE n - 1

Second ==
    /\ due' = [l \in Lookups |-> Less(due[l])]
    /\ slot' = Less(slot)
    /\ old' = Waiting
    /\ UNCHANGED <<kind, retry, queue, resps, eai_again_seen, worker, wakes, history>>

-----------------------------------------------------------------------------
TakeOrSleep == TakeRequest \/ SleepEnds \/ SleepInterrupted
SomeAnswer == \E code \in Codes : Resolve(code)
SomeAsk == \E l \in Lookups, k \in Kinds : Ask(l, k)

Next ==
    SomeAsk \/ Complete \/ Interrupt \/ TakeOrSleep \/ SomeAnswer \/ Second

\* Both threads run when they can, the resolver returns and time passes.  What
\* is asked is not promised.
Spec ==
    /\ Init /\ [][Next]_vars
    /\ WF_vars(Complete) /\ WF_vars(TakeOrSleep) /\ WF_vars(SomeAnswer)
    /\ WF_vars(Second)

\* A lookup that is tried again and again succeeds in the end.
DnsRecovers == \A l \in Lookups : SF_vars(cur = l /\ Resolve("0"))

LiveSpec == Spec /\ DnsRecovers
-----------------------------------------------------------------------------
Seconds == 0..Limit(IgnoreErrors)

\* The types of the state.
TypeOK ==
    /\ kind \in [Lookups -> Kinds \cup {"none"}]
    /\ retry \in [Lookups -> Nat] /\ due \in [Lookups -> Nat] /\ slot \in Nat
    /\ queue \in Seq(Lookups)
    /\ resps \in Seq([lookup : Lookups, code : Codes])
    /\ eai_again_seen \in BOOLEAN
    /\ wpc \in {"idle", "sleep", "resolve"}
    /\ cur \in (IF wpc = "idle" THEN {NULL} ELSE Lookups)
    /\ old \subseteq Lookups /\ ignored \subseteq Lookups
    /\ wakes \in 0..MaxWakes
    /\ calls \in [Lookups -> Nat]
    /\ late \subseteq Lookups

InQueue(l) == \E i \in 1..Len(queue) : queue[i] = l
InResps(l) == \E i \in 1..Len(resps) : resps[i].lookup = l

\* No request is twice in the hands of the threads.
HeldOnce ==
    /\ \A i, j \in 1..Len(queue) : queue[i] = queue[j] => i = j
    /\ \A i, j \in 1..Len(resps) : resps[i].lookup = resps[j].lookup => i = j
    /\ \A l \in Lookups : ~(InQueue(l) /\ InResps(l))
    /\ ~InQueue(cur) /\ ~InResps(cur)

\* Every lookup asked for is in one place until its callback is called, and
\* is called back once: however often it is tried again, its request is never
\* in two queues, is never lost and never freed while a thread still has it.
CalledBackOnce ==
    /\ \A l \in Lookups : calls[l] <= 1
    /\ \A l \in Lookups : l \in Waiting <=> InQueue(l) \/ InResps(l) \/ cur = l
    /\ HeldOnce

\* The shared timeslot never runs away: however many lookups fail and however
\* they share it, none is put off by more than the longest retry interval.
NoLongWait ==
    /\ slot \in Seconds
    /\ \A l \in Lookups : due[l] \in Seconds /\ retry[l] \in Seconds

\* Lookups wait in the order in which they are due, so that the one worker,
\* which sleeps for the first of them, keeps no other from its time; the only
\* exception are those that were due later than now when the timeslot was reset.
FirstDueIsFirst ==
    /\ \A i, j \in 1..Len(queue) :
        i < j /\ queue[i] \notin late => due[queue[i]] <= due[queue[j]]
    /\ cur # NULL /\ cur \notin late =>
        \A j \in 1..Len(queue) : due[cur] <= due[queue[j]]

\* If no lookup fails for ever, every lookup is called back: the retries, the
\* sleeps for them and the one worker keep no lookup from its end.
EveryLookupEnds == \A l \in Lookups : (kind[l] # "none") ~> (calls[l] = 1)

\* blocking_getaddrinfo() says that after a success that took retries it will
\* "ignore previously-scheduled retry sleeps once for each pending request":
\* the worker does not sleep for a lookup that its context says to let through.
IgnoredDoNotSleep ==
    [][wpc = "idle" /\ wpc' = "sleep" => cur' \notin ignored]_vars

\* interrupt_worker_sleep() is there to "wake up a worker that takes a nap":
\* a worker that goes to sleep has no wake-up of an earlier time before it.
NoStaleWakeUp == [][wpc = "idle" /\ wpc' = "sleep" => wakes = 0]_vars
=============================================================================
