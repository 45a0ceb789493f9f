-------------------------- MODULE NameLookupProofs --------------------------
(***************************************************************************)
(* Proofs about NameLookup, for any number of lookups and any limits.      *)
(***************************************************************************)
EXTENDS NameLookup, TLAPS

USE DEF INITIAL_DNS_RETRY, Kinds, Failures, Codes

-----------------------------------------------------------------------------
(* Sequences and the retry interval.                                       *)

\* What Append does to a queue.
LEMMA AppendTo ==
    ASSUME NEW S, NEW q \in Seq(S), NEW x \in S
    PROVE  /\ Append(q, x) \in Seq(S) /\ Len(Append(q, x)) = Len(q) + 1
           /\ Len(q) \in Nat
           /\ \A i \in 1..Len(q) : Append(q, x)[i] = q[i]
           /\ Append(q, x)[Len(q) + 1] = x
    OBVIOUS

\* What taking the head off a queue does to it.
LEMMA TakeFrom ==
    ASSUME NEW S, NEW q \in Seq(S), q # <<>>
    PROVE  /\ Tail(q) \in Seq(S) /\ Len(Tail(q)) = Len(q) - 1 /\ Len(q) \in Nat \ {0}
           /\ Head(q) = q[1] /\ Head(q) \in S
           /\ \A i \in 1..Len(Tail(q)) : Tail(q)[i] = q[i + 1]
    OBVIOUS

\* The elements of a queue.
LEMMA ElementsOf ==
    ASSUME NEW S, NEW q \in Seq(S)
    PROVE  \A i \in 1..Len(q) : q[i] \in S
    OBVIOUS

\* The lookups of a queue of results.
LEMMA LookupsOf ==
    ASSUME NEW L, NEW C, NEW q \in Seq([lookup : L, code : C])
    PROVE  \A i \in 1..Len(q) : q[i].lookup \in L
    <1>1. \A i \in 1..Len(q) : q[i] \in [lookup : L, code : C]
      BY ElementsOf
    <1> QED
      BY <1>1

\* The lowest bit of an interval that is not a power of two is below it.
LEMMA LowestBitBelow ==
    \A n \in Nat \ {0} :
        n <= 4096 /\ n \notin Powers => LowestBit(n) \in Nat \ {0} /\ LowestBit(n) < n
    <1> TAKE n \in Nat \ {0}
    <1> HAVE n <= 4096 /\ n \notin Powers
    <1>1. \E p \in Powers : n % p = 0 /\ n % (2 * p) # 0
      BY SMTT(60) DEF Powers
    <1>2. LowestBit(n) \in Powers /\ n % LowestBit(n) = 0
      BY <1>1 DEF LowestBit
    <1>3. \A p \in Powers : n % p = 0 => p <= n
      BY SMTT(60) DEF Powers
    <1>4. LowestBit(n) <= n /\ LowestBit(n) # n
      BY <1>2, <1>3
    <1> QED
      BY <1>2, <1>4 DEF Powers

\* A retry interval stays an interval.
LEMMA IntervalGoesOn ==
    ASSUME NEW r \in Nat \ {0}, r <= 2048
    PROVE  NextInterval(r) \in Nat \ {0}
    <1> DEFINE d == 2 * r
    <1>1. d \in Nat \ {0} /\ d <= 4096
      OBVIOUS
    <1>2. CASE d \in Powers \cup {0}
      <2>1. d \div 4 \in Int /\ 4 * (d \div 4) <= d
        BY <1>1
      <2> QED
        BY <1>1, <1>2, <2>1 DEF NextInterval
    <1>3. CASE d \notin Powers \cup {0}
      <2>1. d \notin Powers
        BY <1>3
      <2>2. LowestBit(d) \in Nat \ {0} /\ LowestBit(d) < d
        BY <1>1, <2>1, LowestBitBelow
      <2> QED
        BY <1>1, <1>3, <2>2 DEF NextInterval
    <1> QED
      BY <1>2, <1>3

-----------------------------------------------------------------------------
(* The types, and the bound on every wait.                                 *)

\* A reverse lookup always has retries left.
Retries == \A l \in Lookups : kind[l] = "addr" => retry[l] > 0

TInv == TypeOK /\ Retries /\ NoLongWait

\* The limits of the interval.
LEMMA LimitType ==
    ASSUME NEW f \in BOOLEAN, f => IgnoreErrors
    PROVE  /\ Limit(f) \in Nat /\ 2 <= Limit(f) /\ Limit(f) <= Limit(IgnoreErrors)
           /\ Limit(IgnoreErrors) \in Nat /\ Limit(IgnoreErrors) <= 2048
    BY LookupAssumption DEF Limit

LEMMA LimitBounds ==
    Limit(IgnoreErrors) \in Nat /\ 2 <= Limit(IgnoreErrors) /\ Limit(IgnoreErrors) <= 2048
    BY LookupAssumption DEF Limit

\* What manage_dns_retry_interval does to a lookup that has retries.
LEMMA Rescheduled ==
    ASSUME TInv, NEW l \in Lookups, retry[l] > 0, NEW f \in BOOLEAN,
           f => IgnoreErrors, manage_dns_retry_interval(l, f)
    PROVE  /\ retry' \in [Lookups -> Nat] /\ due' \in [Lookups -> Nat] /\ slot' \in Nat
           /\ slot' \in Seconds /\ slot <= slot'
           /\ \A k \in Lookups : due'[k] \in Seconds /\ retry'[k] \in Seconds
           /\ \A k \in Lookups : k # l => due'[k] = due[k] /\ retry'[k] = retry[k]
           /\ due'[l] = slot' /\ retry'[l] > 0
           /\ old' \subseteq Lookups /\ ignored' \subseteq Lookups
           /\ late' \subseteq Lookups /\ late' = late \ {l}
    <1>0. /\ retry \in [Lookups -> Nat] /\ due \in [Lookups -> Nat] /\ slot \in Nat
          /\ old \subseteq Lookups /\ ignored \subseteq Lookups /\ late \subseteq Lookups
      BY DEF TInv, TypeOK
    <1>1. /\ Limit(f) \in Nat /\ 2 <= Limit(f) /\ Limit(f) <= Limit(IgnoreErrors)
          /\ Limit(IgnoreErrors) \in Nat /\ Limit(IgnoreErrors) <= 2048
      BY LimitType
    <1>2. /\ slot <= Limit(IgnoreErrors)
          /\ \A k \in Lookups : due[k] <= Limit(IgnoreErrors)
                                  /\ retry[k] <= Limit(IgnoreErrors)
      BY <1>0, <1>1 DEF TInv, NoLongWait, Seconds
    <1>3. NextInterval(retry[l]) \in Nat \ {0}
      <2>1. retry[l] \in Nat \ {0} /\ retry[l] <= 2048
        BY <1>0, <1>1, <1>2
      <2> QED
        BY <2>1, IntervalGoesOn
    <1> DEFINE r == Smaller(Limit(f), NextInterval(retry[l]))
               t == NextTimeslot(retry[l])
    <1>4. r \in Nat \ {0} /\ r <= Limit(IgnoreErrors)
      BY <1>1, <1>3 DEF Smaller
    <1>5. t \in Nat /\ t <= Limit(IgnoreErrors) /\ slot <= t
      BY <1>0, <1>1, <1>2 DEF NextTimeslot, Larger
    <1>6. /\ slot' = t
          /\ due' = [due EXCEPT ![l] = t] /\ retry' = [retry EXCEPT ![l] = r]
          /\ old' = old \ {l} /\ ignored' = ignored \ {l} /\ late' = late \ {l}
      BY DEF manage_dns_retry_interval, NextRetry
    <1> HIDE DEF r, t
    <1>7. retry' \in [Lookups -> Nat] /\ due' \in [Lookups -> Nat]
      BY <1>0, <1>4, <1>5, <1>6
    <1>8. /\ \A k \in Lookups : k # l => due'[k] = due[k] /\ retry'[k] = retry[k]
          /\ due'[l] = t /\ retry'[l] = r
      BY <1>0, <1>6
    <1>9. \A k \in Lookups : due'[k] <= Limit(IgnoreErrors)
                               /\ retry'[k] <= Limit(IgnoreErrors)
      BY <1>2, <1>4, <1>5, <1>8
    <1>10. \A k \in Lookups : due'[k] \in Seconds /\ retry'[k] \in Seconds
      BY <1>1, <1>7, <1>9 DEF Seconds
    <1>11. slot' \in Seconds
      BY <1>1, <1>5, <1>6 DEF Seconds
    <1> QED
      BY <1>0, <1>4, <1>5, <1>6, <1>7, <1>8, <1>10, <1>11

\* The response that Complete takes.
LEMMA ResponseTaken ==
    ASSUME TypeOK, TakeResponse
    PROVE  /\ Answered \in Lookups /\ Answer \in Codes
           /\ resps' \in Seq([lookup : Lookups, code : Codes])
           /\ resps[1].lookup = Answered /\ Len(resps) \in Nat \ {0}
           /\ Len(resps') = Len(resps) - 1
           /\ \A i \in 1..Len(resps') : resps'[i] = resps[i + 1]
    <1> DEFINE R == [lookup : Lookups, code : Codes]
    <1>1. resps \in Seq(R) /\ resps # <<>> /\ resps' = Tail(resps)
      BY DEF TypeOK, TakeResponse
    <1>2. /\ Tail(resps) \in Seq(R) /\ Len(Tail(resps)) = Len(resps) - 1
          /\ Len(resps) \in Nat \ {0}
          /\ Head(resps) = resps[1] /\ Head(resps) \in R
          /\ \A i \in 1..Len(Tail(resps)) : Tail(resps)[i] = resps[i + 1]
      <2> HIDE DEF R
      <2> QED BY <1>1, TakeFrom
    <1> QED
      BY <1>1, <1>2 DEF Answered, Answer

LEMMA InitTInv == Init => TInv
    <1> SUFFICES ASSUME Init PROVE TInv
      OBVIOUS
    <1>1. queue \in Seq(Lookups) /\ resps \in Seq([lookup : Lookups, code : Codes])
      BY DEF Init
    <1>2. eai_again_seen \in BOOLEAN
      BY Zenon DEF Init
    <1>3. TypeOK
      BY <1>1, <1>2, LookupAssumption DEF Init, TypeOK
    <1>4. Retries
      BY DEF Init, Retries
    <1>5. NoLongWait
      BY LimitBounds DEF Init, NoLongWait, Seconds
    <1> QED
      BY <1>3, <1>4, <1>5 DEF TInv

LEMMA AskTInv ==
    ASSUME TInv, NEW l \in Lookups, NEW k \in Kinds, Ask(l, k)
    PROVE  TInv'
    <1>1. /\ Limit(IgnoreErrors) \in Nat /\ 2 <= Limit(IgnoreErrors)
      BY LimitBounds
    <1>2. queue' \in Seq(Lookups)
      BY AppendTo DEF Ask, TInv, TypeOK
    <1>3. TypeOK'
      BY <1>2 DEF Ask, TInv, TypeOK, Earliest, worker, daemon, history
    <1>4. Retries'
      BY DEF Ask, TInv, TypeOK, Retries, history
    <1>5. NoLongWait'
      BY <1>1 DEF Ask, TInv, TypeOK, NoLongWait, Seconds, Earliest, daemon
    <1> QED
      BY <1>3, <1>4, <1>5 DEF TInv

LEMMA CompleteTInv ==
    ASSUME TInv, Complete
    PROVE  TInv'
    <1> DEFINE l == Answered
    <1>0. TypeOK /\ TakeResponse
      BY Zenon DEF TInv, Complete, CompleteSuccess, CompleteForward, CompleteReverse
    <1>1. /\ l \in Lookups /\ Answer \in Codes
          /\ resps' \in Seq([lookup : Lookups, code : Codes])
      BY <1>0, ResponseTaken
    <1>2. /\ kind' = kind /\ wpc' = wpc /\ cur' = cur /\ wakes' = wakes
      BY DEF Complete
    <1>3. Append(queue, l) \in Seq(Lookups)
      BY <1>1, AppendTo DEF TInv, TypeOK
    <1>4. SUFFICES /\ retry' \in [Lookups -> Nat] /\ due' \in [Lookups -> Nat]
                   /\ slot' \in Seconds
                   /\ \A k \in Lookups : due'[k] \in Seconds /\ retry'[k] \in Seconds
                   /\ old' \subseteq Lookups /\ ignored' \subseteq Lookups
                   /\ late' \subseteq Lookups
                   /\ queue' = queue \/ queue' = Append(queue, l)
                   /\ calls' = calls \/ calls' = [calls EXCEPT ![l] = @ + 1]
                   /\ \A k \in Lookups : kind[k] = "addr" => retry'[k] > 0
                   /\ eai_again_seen' \in BOOLEAN
      <2>1. slot' \in Nat
        BY <1>4, LimitBounds DEF Seconds
      <2>2. queue' \in Seq(Lookups)
        <3>1. queue \in Seq(Lookups)
          BY <1>0 DEF TypeOK
        <3> HIDE DEF l
        <3> QED BY <1>3, <1>4, <3>1
      <2>3. calls' \in [Lookups -> Nat]
        <3>1. calls \in [Lookups -> Nat]
          BY <1>0 DEF TypeOK
        <3>2. [calls EXCEPT ![l] = @ + 1] \in [Lookups -> Nat]
          BY <1>1, <3>1
        <3> QED BY <1>4, <3>1, <3>2
      <2>4. eai_again_seen' \in BOOLEAN
        BY <1>4
      <2>5. TypeOK'
        BY <1>0, <1>1, <1>2, <1>4, <2>1, <2>2, <2>3, <2>4 DEF TypeOK
      <2>6. Retries'
        BY <1>2, <1>4 DEF Retries
      <2>7. NoLongWait'
        BY <1>4 DEF NoLongWait, Seconds
      <2> QED
        BY <2>5, <2>6, <2>7 DEF TInv
    <1>5. CASE CompleteSuccess
      <2>1. retry' = retry /\ due' = due /\ old' = old /\ ignored' = ignored
            /\ queue' = queue /\ calls' = [calls EXCEPT ![l] = @ + 1]
        BY <1>5 DEF CompleteSuccess, Callback, NothingRescheduled
      <2>2. slot' \in {slot, 0} /\ late' \in {late, {k \in Lookups : due[k] > 0}}
        BY <1>5 DEF CompleteSuccess, ResetTimeslot
      <2>3. eai_again_seen' \in BOOLEAN
        <3>1. eai_again_seen' = eai_again_seen
          BY <1>5 DEF CompleteSuccess
        <3> QED BY <1>0, <3>1, Zenon DEF TypeOK
      <2>4. slot' \in Seconds
        BY <2>2, LimitBounds DEF TInv, NoLongWait, Seconds
      <2>5. late' \subseteq Lookups
        BY <1>0, <2>2 DEF TypeOK
      <2>6. /\ retry \in [Lookups -> Nat] /\ due \in [Lookups -> Nat]
            /\ old \subseteq Lookups /\ ignored \subseteq Lookups
            /\ \A k \in Lookups : due[k] \in Seconds /\ retry[k] \in Seconds
            /\ \A k \in Lookups : kind[k] = "addr" => retry[k] > 0
        BY DEF TInv, TypeOK, Retries, NoLongWait
      <2> QED
        <3>1. \A k \in Lookups : due'[k] \in Seconds /\ retry'[k] \in Seconds
          BY <2>1, <2>6
        <3>2. \A k \in Lookups : kind[k] = "addr" => retry'[k] > 0
          BY <2>1, <2>6
        <3>3. retry' \in [Lookups -> Nat] /\ due' \in [Lookups -> Nat]
              /\ old' \subseteq Lookups /\ ignored' \subseteq Lookups
          BY <2>1, <2>6
        <3> QED
          BY <2>1, <2>3, <2>4, <2>5, <3>1, <3>2, <3>3, Zenon
    <1>6. CASE CompleteForward
      <2>1. eai_again_seen' \in BOOLEAN
        BY <1>0, <1>6, Zenon DEF CompleteForward, TypeOK
      <2>2. CASE /\ retry[l] > 0 /\ manage_dns_retry_interval(l, IgnoreErrors)
                 /\ queue' = Append(queue, l) /\ calls' = calls
        <3>1. IgnoreErrors \in BOOLEAN
          BY LookupAssumption
        <3>2. \A k \in Lookups : kind[k] = "addr" => retry[k] > 0
          BY DEF TInv, Retries
        <3>3. /\ retry' \in [Lookups -> Nat] /\ due' \in [Lookups -> Nat]
              /\ slot' \in Seconds
              /\ \A k \in Lookups : due'[k] \in Seconds /\ retry'[k] \in Seconds
              /\ \A k \in Lookups : k # l => retry'[k] = retry[k]
              /\ retry'[l] > 0
              /\ old' \subseteq Lookups /\ ignored' \subseteq Lookups
              /\ late' \subseteq Lookups
          BY <1>1, <2>2, <3>1, Rescheduled
        <3>4. \A k \in Lookups : kind[k] = "addr" => retry'[k] > 0
          BY <3>2, <3>3
        <3> QED
          BY <2>1, <2>2, <3>3, <3>4
      <2>3. CASE /\ queue' = queue /\ calls' = [calls EXCEPT ![l] = @ + 1]
                 /\ NothingRescheduled /\ slot' = slot /\ late' = late
        BY <2>1, <2>3 DEF TInv, TypeOK, Retries, NoLongWait, NothingRescheduled
      <2> QED
        BY <1>6, <2>2, <2>3 DEF CompleteForward, Requeue, Callback, WantsRetry
    <1>7. CASE CompleteReverse
      <2>1. eai_again_seen' \in BOOLEAN
        BY <1>0, <1>7, Zenon DEF CompleteReverse, TypeOK
      <2>2. retry[l] > 0 /\ manage_dns_retry_interval(l, FALSE)
        BY <1>1, <1>7, Zenon DEF CompleteReverse, TInv, Retries
      <2>3. \/ queue' = Append(queue, l) /\ calls' = calls
            \/ queue' = queue /\ calls' = [calls EXCEPT ![l] = @ + 1]
        BY <1>7 DEF CompleteReverse, Requeue, Callback
      <2> QED
        BY <1>1, <2>1, <2>2, <2>3, Rescheduled DEF TInv, Retries
    <1> QED
      BY <1>5, <1>6, <1>7 DEF Complete

LEMMA TakeRequestTInv ==
    ASSUME TInv, TakeRequest
    PROVE  TInv'
    <1>1. /\ queue' \in Seq(Lookups) /\ cur' \in Lookups
      BY TakeFrom DEF TakeRequest, TInv, TypeOK
    <1>2. wpc' \in {"sleep", "resolve"} /\ ignored' \subseteq Lookups
      BY DEF TakeRequest, ClearContext
    <1>3. TypeOK'
      BY <1>1, <1>2 DEF TakeRequest, TInv, TypeOK, request, daemon, history
    <1>4. Retries' /\ NoLongWait'
      BY DEF TakeRequest, TInv, Retries, NoLongWait, Seconds, request, daemon
    <1> QED
      BY <1>3, <1>4 DEF TInv

LEMMA ResolveTInv ==
    ASSUME TInv, NEW code \in Codes, Resolve(code)
    PROVE  TInv'
    <1> DEFINE r == [lookup |-> cur, code |-> code]
    <1>1. cur \in Lookups
      BY DEF Resolve, TInv, TypeOK
    <1>2. resps' \in Seq([lookup : Lookups, code : Codes])
      <2>1. r \in [lookup : Lookups, code : Codes]
        BY <1>1
      <2> HIDE DEF r
      <2>2. Append(resps, r) \in Seq([lookup : Lookups, code : Codes])
        BY <2>1, AppendTo DEF TInv, TypeOK
      <2> QED
        BY <2>2 DEF Resolve, r
    <1>4. wpc' = "idle" /\ cur' = NULL /\ ignored' \subseteq Lookups
      BY DEF Resolve, FreeRequest, TInv, TypeOK
    <1>5. TypeOK'
      BY <1>2, <1>4 DEF Resolve, TInv, TypeOK, request, daemon, history
    <1>6. Retries' /\ NoLongWait'
      BY DEF Resolve, TInv, Retries, NoLongWait, Seconds, request, daemon
    <1> QED
      BY <1>5, <1>6 DEF TInv

LEMMA SecondTInv ==
    ASSUME TInv, Second
    PROVE  TInv'
    <1>1. \A n \in Nat : Less(n) \in Nat /\ Less(n) <= n
      BY DEF Less
    <1>2. due' \in [Lookups -> Nat] /\ slot' \in Nat /\ old' \subseteq Lookups
      BY <1>1 DEF Second, TInv, TypeOK, Waiting
    <1>3. eai_again_seen' \in BOOLEAN
      <2>1. eai_again_seen' = eai_again_seen
        BY DEF Second
      <2> QED
        BY <2>1, Zenon DEF TInv, TypeOK
    <1>4. TypeOK'
      BY <1>2, <1>3 DEF Second, TInv, TypeOK, worker, history
    <1>5. Retries'
      BY DEF Second, TInv, Retries
    <1>6. NoLongWait'
      <2>1. \A n \in Seconds : Less(n) \in Seconds
        BY LimitBounds DEF Less, Seconds
      <2>2. due' = [k \in Lookups |-> Less(due[k])] /\ slot' = Less(slot) /\ retry' = retry
        BY DEF Second
      <2>3. Seconds' = Seconds
        BY DEF Seconds, Limit
      <2> QED
        BY <2>1, <2>2, <2>3 DEF TInv, NoLongWait
    <1> QED
      BY <1>4, <1>5, <1>6 DEF TInv

LEMMA StepTInv ==
    ASSUME TInv, [Next]_vars
    PROVE  TInv'
    <1>1. CASE SomeAsk
      BY <1>1, AskTInv DEF SomeAsk
    <1>2. CASE Complete
      BY <1>2, CompleteTInv
    <1>3. CASE Interrupt
      <2>1. TypeOK'
        BY <1>3, LookupAssumption DEF Interrupt, TInv, TypeOK, request, daemon, worker, history
      <2> QED
        BY <1>3, <2>1 DEF Interrupt, TInv, Retries, NoLongWait, Seconds, request, daemon
    <1>4. CASE TakeRequest
      BY <1>4, TakeRequestTInv
    <1>5. CASE SleepEnds
      <2>1. TypeOK'
        BY <1>5 DEF SleepEnds, TInv, TypeOK, request, daemon, history
      <2> QED
        BY <1>5, <2>1 DEF SleepEnds, TInv, Retries, NoLongWait, Seconds, request, daemon
    <1>6. CASE SleepInterrupted
      <2>1. TypeOK'
        BY <1>6, LookupAssumption DEF SleepInterrupted, TInv, TypeOK, request, daemon, history
      <2> QED
        BY <1>6, <2>1 DEF SleepInterrupted, TInv, Retries, NoLongWait, Seconds,
                          request, daemon
    <1>7. CASE SomeAnswer
      BY <1>7, ResolveTInv DEF SomeAnswer
    <1>8. CASE Second
      BY <1>8, SecondTInv
    <1>9. CASE UNCHANGED vars
      <2>1. TypeOK'
        BY <1>9 DEF vars, TInv, TypeOK, request, daemon, worker, history
      <2> QED
        BY <1>9, <2>1 DEF vars, TInv, Retries, NoLongWait, Seconds, request, daemon
    <1> QED
      BY <1>1, <1>2, <1>3, <1>4, <1>5, <1>6, <1>7, <1>8, <1>9 DEF Next, TakeOrSleep

LEMMA AlwaysTInv == Spec => []TInv
    <1> QED
      BY InitTInv, StepTInv, PTL DEF Spec

\* The types of the state, whatever is asked and answered.
THEOREM TypeCorrect == Spec => []TypeOK
    <1>1. TInv => TypeOK
      BY DEF TInv
    <1> QED
      BY <1>1, AlwaysTInv, PTL

\* However many lookups fail on the shared timeslot, none is put off by more
\* than the longest interval (manage_dns_retry_interval).
THEOREM WaitsAreBounded == Spec => []NoLongWait
    <1>1. TInv => NoLongWait
      BY DEF TInv
    <1> QED
      BY <1>1, AlwaysTInv, PTL

-----------------------------------------------------------------------------
(* Every lookup is in one place until it is called back.                   *)

\* Appending to a queue of distinct elements.
LEMMA AppendHolds ==
    ASSUME NEW S, NEW q \in Seq(S), NEW x \in S
    PROVE  /\ \A k : (\E i \in 1..Len(Append(q, x)) : Append(q, x)[i] = k)
                       <=> (\E i \in 1..Len(q) : q[i] = k) \/ k = x
           /\ (\A i, j \in 1..Len(q) : q[i] = q[j] => i = j)
                /\ ~(\E i \in 1..Len(q) : q[i] = x)
                => \A i, j \in 1..Len(Append(q, x)) :
                        Append(q, x)[i] = Append(q, x)[j] => i = j
    <1> DEFINE t == Append(q, x)
    <1>1. /\ t \in Seq(S) /\ Len(t) = Len(q) + 1 /\ Len(q) \in Nat
          /\ \A i \in 1..Len(q) : t[i] = q[i]
          /\ t[Len(q) + 1] = x
      BY AppendTo
    <1> HIDE DEF t
    <1>2. \A i \in 1..Len(t) : i \in 1..Len(q) \/ i = Len(q) + 1
      BY <1>1
    <1>3. \A k : (\E i \in 1..Len(t) : t[i] = k) <=> (\E i \in 1..Len(q) : q[i] = k) \/ k = x
      BY <1>1, <1>2
    <1>4. ASSUME \A i, j \in 1..Len(q) : q[i] = q[j] => i = j,
                 ~(\E i \in 1..Len(q) : q[i] = x)
          PROVE  \A i, j \in 1..Len(t) : t[i] = t[j] => i = j
      BY <1>1, <1>2, <1>4
    <1> QED
      BY <1>3, <1>4 DEF t

\* Taking the head off a queue of distinct elements.
LEMMA TailHolds ==
    ASSUME NEW S, NEW q \in Seq(S), q # <<>>,
           \A i, j \in 1..Len(q) : q[i] = q[j] => i = j
    PROVE  /\ \A k : (\E i \in 1..Len(Tail(q)) : Tail(q)[i] = k)
                       <=> (\E i \in 1..Len(q) : q[i] = k) /\ k # Head(q)
           /\ \A i, j \in 1..Len(Tail(q)) : Tail(q)[i] = Tail(q)[j] => i = j
           /\ \E i \in 1..Len(q) : q[i] = Head(q)
    <1> DEFINE t == Tail(q)
               h == Head(q)
    <1>1. /\ t \in Seq(S) /\ Len(t) = Len(q) - 1 /\ Len(q) \in Nat \ {0}
          /\ h = q[1] /\ h \in S
          /\ \A i \in 1..Len(t) : t[i] = q[i + 1]
      BY TakeFrom
    <1> HIDE DEF t, h
    <1>2. \A i \in 1..Len(t) : i + 1 \in 1..Len(q) /\ i + 1 # 1
      BY <1>1
    <1>3. \A i \in 1..Len(q) : i = 1 \/ (i - 1 \in 1..Len(t) /\ t[i - 1] = q[i])
      BY <1>1
    <1>4. 1 \in 1..Len(q)
      BY <1>1
    <1>5. ASSUME NEW k
          PROVE  (\E i \in 1..Len(t) : t[i] = k) <=> (\E i \in 1..Len(q) : q[i] = k) /\ k # h
      <2>1. ASSUME NEW i \in 1..Len(t), t[i] = k
            PROVE  (\E n \in 1..Len(q) : q[n] = k) /\ k # h
        BY <1>1, <1>2, <1>4, <2>1
      <2>2. ASSUME NEW i \in 1..Len(q), q[i] = k, k # h
            PROVE  \E n \in 1..Len(t) : t[n] = k
        BY <1>1, <1>3, <2>2
      <2> QED
        BY <2>1, <2>2
    <1>6. \A i, j \in 1..Len(t) : t[i] = t[j] => i = j
      <2> SUFFICES ASSUME NEW i \in 1..Len(t), NEW j \in 1..Len(t), t[i] = t[j]
                   PROVE  i = j
        OBVIOUS
      <2>1. i + 1 = j + 1
        BY <1>1, <1>2
      <2> QED
        BY <1>1, <2>1
    <1>7. \E i \in 1..Len(q) : q[i] = h
      BY <1>1, <1>4
    <1> QED
      BY <1>5, <1>6, <1>7 DEF t, h

\* A lookup that was not asked for was not called back.
HInv == CalledBackOnce /\ \A l \in Lookups : kind[l] = "none" => calls[l] = 0

\* How the places of the requests follow from the queue and the responses.
LEMMA QueueAppended ==
    ASSUME TypeOK, NEW l \in Lookups, queue' = Append(queue, l)
    PROVE  /\ \A k : InQueue(k)' <=> InQueue(k) \/ k = l
           /\ (\A i, j \in 1..Len(queue) : queue[i] = queue[j] => i = j) /\ ~InQueue(l)
                => \A i, j \in 1..Len(queue') : queue'[i] = queue'[j] => i = j
    <1>1. queue \in Seq(Lookups)
      BY DEF TypeOK
    <1> QED
      BY <1>1, AppendHolds DEF InQueue

LEMMA QueueTaken ==
    ASSUME TypeOK, HeldOnce, queue # <<>>, queue' = Tail(queue)
    PROVE  /\ \A k : InQueue(k)' <=> InQueue(k) /\ k # Head(queue)
           /\ \A i, j \in 1..Len(queue') : queue'[i] = queue'[j] => i = j
           /\ InQueue(Head(queue))
    <1>1. queue \in Seq(Lookups) /\ \A i, j \in 1..Len(queue) : queue[i] = queue[j] => i = j
      BY DEF TypeOK, HeldOnce
    <1> QED
      BY <1>1, TailHolds DEF InQueue

LEMMA RespsTaken ==
    ASSUME TypeOK, HeldOnce, TakeResponse
    PROVE  /\ Answered \in Lookups /\ InResps(Answered)
           /\ \A k : InResps(k)' <=> InResps(k) /\ k # Answered
           /\ \A i, j \in 1..Len(resps') : resps'[i].lookup = resps'[j].lookup => i = j
    <1>1. /\ Answered \in Lookups
          /\ resps[1].lookup = Answered /\ Len(resps) \in Nat \ {0}
          /\ Len(resps') = Len(resps) - 1
          /\ \A i \in 1..Len(resps') : resps'[i] = resps[i + 1]
      BY ResponseTaken
    <1>2. \A i, j \in 1..Len(resps) : resps[i].lookup = resps[j].lookup => i = j
      BY DEF HeldOnce
    <1>3. \A i \in 1..Len(resps') : i + 1 \in 1..Len(resps) /\ i + 1 # 1
      BY <1>1
    <1>4. \A i \in 1..Len(resps) : i = 1 \/ (i - 1 \in 1..Len(resps') /\ resps'[i - 1] = resps[i])
      BY <1>1
    <1>5. 1 \in 1..Len(resps)
      BY <1>1
    <1>6. ASSUME NEW k PROVE InResps(k)' <=> InResps(k) /\ k # Answered
      <2>1. ASSUME NEW i \in 1..Len(resps'), resps'[i].lookup = k
            PROVE  (\E n \in 1..Len(resps) : resps[n].lookup = k) /\ k # Answered
        BY <1>1, <1>2, <1>3, <1>5, <2>1
      <2>2. ASSUME NEW i \in 1..Len(resps), resps[i].lookup = k, k # Answered
            PROVE  \E n \in 1..Len(resps') : resps'[n].lookup = k
        BY <1>1, <1>4, <2>2
      <2> QED
        BY <2>1, <2>2 DEF InResps
    <1>7. \A i, j \in 1..Len(resps') : resps'[i].lookup = resps'[j].lookup => i = j
      <2> SUFFICES ASSUME NEW i \in 1..Len(resps'), NEW j \in 1..Len(resps'),
                          resps'[i].lookup = resps'[j].lookup
                   PROVE  i = j
        OBVIOUS
      <2>1. i + 1 = j + 1
        BY <1>1, <1>2, <1>3
      <2> QED
        BY <1>1, <2>1
    <1> QED
      BY <1>1, <1>5, <1>6, <1>7 DEF InResps

LEMMA RespsAppended ==
    ASSUME TypeOK, HeldOnce, NEW r \in [lookup : Lookups, code : Codes],
           ~InResps(r.lookup), resps' = Append(resps, r)
    PROVE  /\ \A k : InResps(k)' <=> InResps(k) \/ k = r.lookup
           /\ \A i, j \in 1..Len(resps') : resps'[i].lookup = resps'[j].lookup => i = j
    <1>1. /\ Len(resps') = Len(resps) + 1 /\ Len(resps) \in Nat
          /\ \A i \in 1..Len(resps) : resps'[i] = resps[i]
          /\ resps'[Len(resps) + 1] = r
      <2>1. resps \in Seq([lookup : Lookups, code : Codes])
        BY DEF TypeOK
      <2> QED
        BY <2>1, AppendTo
    <1>2. \A i \in 1..Len(resps') : i \in 1..Len(resps) \/ i = Len(resps) + 1
      BY <1>1
    <1>3. Len(resps) + 1 \in 1..Len(resps') /\ \A i \in 1..Len(resps) : i \in 1..Len(resps')
      BY <1>1
    <1>4. \A k : InResps(k)' <=> InResps(k) \/ k = r.lookup
      BY <1>1, <1>2, <1>3 DEF InResps
    <1>5. \A i, j \in 1..Len(resps') : resps'[i].lookup = resps'[j].lookup => i = j
      BY <1>1, <1>2 DEF InResps, HeldOnce
    <1> QED
      BY <1>4, <1>5

LEMMA InitHInv == Init => HInv
    <1> SUFFICES ASSUME Init PROVE HInv
      OBVIOUS
    <1>1. \A k : ~InQueue(k) /\ ~InResps(k)
      BY DEF Init, InQueue, InResps
    <1>2. HeldOnce
      BY <1>1 DEF Init, HeldOnce, InQueue, InResps
    <1>3. \A l \in Lookups : l \notin Waiting /\ cur # l /\ calls[l] = 0
      <2>1. \A l \in Lookups : kind[l] = "none" /\ calls[l] = 0
        BY DEF Init
      <2>2. cur = NULL /\ NULL \notin Lookups
        BY LookupAssumption DEF Init
      <2> QED
        BY <2>1, <2>2 DEF Waiting
    <1> QED
      BY <1>1, <1>2, <1>3 DEF HInv, CalledBackOnce

\* A step that leaves the queues, the worker's request, kind and calls alone.
LEMMA SameHands ==
    ASSUME HInv, UNCHANGED <<queue, resps, cur, kind, calls>>
    PROVE  HInv'
    <1>1. \A k : (InQueue(k)' <=> InQueue(k)) /\ (InResps(k)' <=> InResps(k))
      BY DEF InQueue, InResps
    <1>2. Waiting' = Waiting
      BY DEF Waiting
    <1>3. HeldOnce'
      BY <1>1 DEF HInv, CalledBackOnce, HeldOnce
    <1> QED
      BY <1>1, <1>2, <1>3 DEF HInv, CalledBackOnce

LEMMA AskHInv ==
    ASSUME TInv, HInv, NEW l \in Lookups, NEW k \in Kinds, Ask(l, k)
    PROVE  HInv'
    <1>0. TypeOK /\ HeldOnce
      BY DEF TInv, HInv, CalledBackOnce
    <1>1. /\ kind[l] = "none" /\ kind' = [kind EXCEPT ![l] = k]
          /\ queue' = Append(queue, l) /\ resps' = resps /\ cur' = cur
          /\ calls' = calls /\ calls[l] = 0
      BY DEF Ask, worker, history, HInv
    <1>2. l \notin Waiting
      BY <1>1 DEF Waiting
    <1>3. ~InQueue(l) /\ ~InResps(l) /\ cur # l
      BY <1>2 DEF HInv, CalledBackOnce
    <1>4. /\ \A n : InQueue(n)' <=> InQueue(n) \/ n = l
          /\ \A i, j \in 1..Len(queue') : queue'[i] = queue'[j] => i = j
      BY <1>0, <1>1, <1>3, QueueAppended DEF HeldOnce
    <1>5. \A n : InResps(n)' <=> InResps(n)
      BY <1>1 DEF InResps
    <1>6. \A n \in Lookups : n \in Waiting' <=> n \in Waiting \/ n = l
      <2>1. kind \in [Lookups -> Kinds \cup {"none"}]
        BY <1>0 DEF TypeOK
      <2> QED
        BY <1>1, <2>1 DEF Waiting
    <1>7. HeldOnce'
      BY <1>0, <1>1, <1>3, <1>4, <1>5 DEF HeldOnce
    <1>8. \A n \in Lookups : kind'[n] = "none" => calls'[n] = 0
      BY <1>0, <1>1 DEF HInv, TypeOK
    <1>9. \A n \in Lookups : n \in Waiting' <=> InQueue(n)' \/ InResps(n)' \/ cur' = n
      BY <1>1, <1>4, <1>5, <1>6 DEF HInv, CalledBackOnce
    <1>10. \A n \in Lookups : calls'[n] <= 1
      BY <1>1 DEF HInv, CalledBackOnce
    <1> QED
      BY <1>7, <1>8, <1>9, <1>10 DEF HInv, CalledBackOnce

\* What Complete does with the queues: it calls back or queues again.
LEMMA CompleteEither ==
    ASSUME Complete
    PROVE  /\ TakeResponse /\ cur' = cur /\ kind' = kind
           /\ \/ queue' = queue /\ calls' = [calls EXCEPT ![Answered] = @ + 1]
              \/ queue' = Append(queue, Answered) /\ calls' = calls
    <1>1. cur' = cur /\ kind' = kind
      BY DEF Complete
    <1>2. TakeResponse
      BY Zenon DEF Complete, CompleteSuccess, CompleteForward, CompleteReverse
    <1>3. CASE CompleteSuccess
      BY <1>1, <1>2, <1>3 DEF CompleteSuccess, Callback
    <1>4. CASE CompleteForward
      <2>1. Requeue(Answered) \/ Callback(Answered)
        BY <1>4, Zenon DEF CompleteForward
      <2> QED
        BY <1>1, <1>2, <2>1 DEF Requeue, Callback
    <1>5. CASE CompleteReverse
      <2>1. Requeue(Answered) \/ Callback(Answered)
        BY <1>5, Zenon DEF CompleteReverse
      <2> QED
        BY <1>1, <1>2, <2>1 DEF Requeue, Callback
    <1> QED
      BY <1>3, <1>4, <1>5 DEF Complete

LEMMA CompleteHInv ==
    ASSUME TInv, HInv, Complete
    PROVE  HInv'
    <1> DEFINE l == Answered
    <1>0. TypeOK /\ HeldOnce
      BY DEF TInv, HInv, CalledBackOnce
    <1>1. /\ TakeResponse /\ cur' = cur /\ kind' = kind
          /\ \/ queue' = queue /\ calls' = [calls EXCEPT ![l] = @ + 1]
             \/ queue' = Append(queue, l) /\ calls' = calls
      BY CompleteEither
    <1>2. /\ l \in Lookups /\ InResps(l)
          /\ \A k : InResps(k)' <=> InResps(k) /\ k # l
          /\ \A i, j \in 1..Len(resps') : resps'[i].lookup = resps'[j].lookup => i = j
      BY <1>0, <1>1, RespsTaken
    <1> HIDE DEF l
    <1>3. ~InQueue(l) /\ cur # l
      BY <1>0, <1>2 DEF HeldOnce
    <1>4. l \in Waiting /\ calls[l] = 0 /\ kind[l] # "none"
      BY <1>2 DEF HInv, CalledBackOnce, Waiting
    <1>5. calls \in [Lookups -> Nat]
      BY <1>0 DEF TypeOK
    <1>6. CASE queue' = queue /\ calls' = [calls EXCEPT ![l] = @ + 1]
      <2>1. \A k : InQueue(k)' <=> InQueue(k)
        BY <1>6 DEF InQueue
      <2>2. HeldOnce'
        BY <1>0, <1>1, <1>2, <1>6, <2>1 DEF HeldOnce
      <2>3. calls'[l] = 1 /\ \A k \in Lookups : k # l => calls'[k] = calls[k]
        BY <1>2, <1>4, <1>5, <1>6
      <2>4. \A k \in Lookups : k \in Waiting' <=> k \in Waiting /\ k # l
        BY <1>1, <1>2, <2>3 DEF Waiting
      <2>5. \A k \in Lookups : k \in Waiting' <=> InQueue(k)' \/ InResps(k)' \/ cur' = k
        BY <1>1, <1>2, <1>3, <2>1, <2>4 DEF HInv, CalledBackOnce
      <2>6. \A k \in Lookups : calls'[k] <= 1 /\ (kind'[k] = "none" => calls'[k] = 0)
        BY <1>1, <1>4, <2>3 DEF HInv, CalledBackOnce
      <2> QED
        BY <2>2, <2>5, <2>6 DEF HInv, CalledBackOnce
    <1>7. CASE queue' = Append(queue, l) /\ calls' = calls
      <2>1. /\ \A k : InQueue(k)' <=> InQueue(k) \/ k = l
            /\ \A i, j \in 1..Len(queue') : queue'[i] = queue'[j] => i = j
        BY <1>0, <1>2, <1>3, <1>7, QueueAppended DEF HeldOnce
      <2>2. HeldOnce'
        BY <1>0, <1>1, <1>2, <1>3, <2>1 DEF HeldOnce
      <2>3. Waiting' = Waiting
        BY <1>1, <1>7 DEF Waiting
      <2>4. \A k \in Lookups : k \in Waiting' <=> InQueue(k)' \/ InResps(k)' \/ cur' = k
        BY <1>1, <1>2, <1>4, <2>1, <2>3 DEF HInv, CalledBackOnce
      <2>5. \A k \in Lookups : calls'[k] <= 1 /\ (kind'[k] = "none" => calls'[k] = 0)
        BY <1>1, <1>7 DEF HInv, CalledBackOnce
      <2> QED
        BY <2>2, <2>4, <2>5 DEF HInv, CalledBackOnce
    <1> QED
      BY <1>1, <1>6, <1>7

LEMMA TakeRequestHInv ==
    ASSUME TInv, HInv, TakeRequest
    PROVE  HInv'
    <1>0. TypeOK /\ HeldOnce
      BY DEF TInv, HInv, CalledBackOnce
    <1>1. /\ queue # <<>> /\ cur' = Head(queue) /\ queue' = Tail(queue) /\ cur = NULL
          /\ resps' = resps /\ kind' = kind /\ calls' = calls
      BY <1>0 DEF TakeRequest, request, history, TypeOK
    <1>2. /\ \A k : InQueue(k)' <=> InQueue(k) /\ k # cur'
          /\ \A i, j \in 1..Len(queue') : queue'[i] = queue'[j] => i = j
          /\ InQueue(cur') /\ cur' \in Lookups
      <2>1. queue \in Seq(Lookups)
        BY <1>0 DEF TypeOK
      <2> QED
        BY <1>0, <1>1, <2>1, QueueTaken, TakeFrom
    <1>3. \A k : InResps(k)' <=> InResps(k)
      BY <1>1 DEF InResps
    <1>4. HeldOnce'
      BY <1>0, <1>1, <1>2, <1>3 DEF HeldOnce
    <1>5. Waiting' = Waiting
      BY <1>1 DEF Waiting
    <1>6. \A k \in Lookups : k \in Waiting' <=> InQueue(k)' \/ InResps(k)' \/ cur' = k
      BY <1>1, <1>2, <1>3, <1>5, LookupAssumption DEF HInv, CalledBackOnce
    <1> QED
      BY <1>1, <1>4, <1>6 DEF HInv, CalledBackOnce

LEMMA ResolveHInv ==
    ASSUME TInv, HInv, NEW code \in Codes, Resolve(code)
    PROVE  HInv'
    <1> DEFINE r == [lookup |-> cur, code |-> code]
    <1>0. TypeOK /\ HeldOnce
      BY DEF TInv, HInv, CalledBackOnce
    <1>1. /\ resps' = Append(resps, r) /\ cur' = NULL /\ cur \in Lookups
          /\ queue' = queue /\ kind' = kind /\ calls' = calls
      BY <1>0 DEF Resolve, FreeRequest, request, history, TypeOK
    <1>2. r \in [lookup : Lookups, code : Codes] /\ r.lookup = cur
      BY <1>1
    <1>3. ~InQueue(cur) /\ ~InResps(cur)
      BY <1>0 DEF HeldOnce
    <1> HIDE DEF r
    <1>4. /\ \A k : InResps(k)' <=> InResps(k) \/ k = cur
          /\ \A i, j \in 1..Len(resps') : resps'[i].lookup = resps'[j].lookup => i = j
      BY <1>0, <1>1, <1>2, <1>3, RespsAppended
    <1>5. \A k : InQueue(k)' <=> InQueue(k)
      BY <1>1 DEF InQueue
    <1>6. ~InQueue(NULL) /\ ~InResps(NULL)
      <2>1. queue \in Seq(Lookups) /\ resps \in Seq([lookup : Lookups, code : Codes])
        BY <1>0 DEF TypeOK
      <2>2. \A i \in 1..Len(queue) : queue[i] \in Lookups
        BY <2>1
      <2>3. \A i \in 1..Len(resps) : resps[i].lookup \in Lookups
        BY <2>1, LookupsOf
      <2> QED
        BY <2>2, <2>3, LookupAssumption DEF InQueue, InResps
    <1>7. HeldOnce'
      <2>1. ~InQueue(cur)' /\ ~InResps(cur)'
        BY <1>1, <1>4, <1>5, <1>6, LookupAssumption
      <2>2. \A l \in Lookups : ~(InQueue(l)' /\ InResps(l)')
        BY <1>0, <1>3, <1>4, <1>5 DEF HeldOnce
      <2> QED
        BY <1>0, <1>1, <1>4, <2>1, <2>2 DEF HeldOnce
    <1>8. Waiting' = Waiting
      BY <1>1 DEF Waiting
    <1>9. \A k \in Lookups : k \in Waiting' <=> InQueue(k)' \/ InResps(k)' \/ cur' = k
      BY <1>1, <1>4, <1>5, <1>8, LookupAssumption DEF HInv, CalledBackOnce
    <1> QED
      BY <1>1, <1>7, <1>9 DEF HInv, CalledBackOnce

LEMMA StepHInv ==
    ASSUME TInv, HInv, [Next]_vars
    PROVE  HInv'
    <1>1. CASE SomeAsk
      BY <1>1, AskHInv DEF SomeAsk
    <1>2. CASE Complete
      BY <1>2, CompleteHInv
    <1>3. CASE Interrupt
      BY <1>3, SameHands DEF Interrupt, request, worker, history
    <1>4. CASE TakeRequest
      BY <1>4, TakeRequestHInv
    <1>5. CASE SleepEnds
      BY <1>5, SameHands DEF SleepEnds, request, history
    <1>6. CASE SleepInterrupted
      BY <1>6, SameHands DEF SleepInterrupted, request, history
    <1>7. CASE SomeAnswer
      BY <1>7, ResolveHInv DEF SomeAnswer
    <1>8. CASE Second
      BY <1>8, SameHands DEF Second, worker, history
    <1>9. CASE UNCHANGED vars
      BY <1>9, SameHands DEF vars, request, worker, history
    <1> QED
      BY <1>1, <1>2, <1>3, <1>4, <1>5, <1>6, <1>7, <1>8, <1>9 DEF Next, TakeOrSleep

LEMMA AlwaysHInv == Spec => []HInv
    <1> QED
      BY InitHInv, StepHInv, AlwaysTInv, PTL DEF Spec

\* A request is in one place until its callback is called, which happens once
\* (getaddrinfo_sometime_complete, getnameinfo_sometime_complete).
THEOREM EachIsCalledBackOnce == Spec => []CalledBackOnce
    <1>1. HInv => CalledBackOnce
      BY DEF HInv
    <1> QED
      BY <1>1, AlwaysHInv, PTL

-----------------------------------------------------------------------------
(* The lookups wait in the order in which they are due.                    *)

\* A lookup that is not left over from before a reset is due no later than the
\* timeslot, which is where the next one is put.
DueBySlot == \A l \in Lookups : l \notin late => due[l] <= slot

OInv == FirstDueIsFirst /\ DueBySlot

LEMMA InitOInv == Init => OInv
    <1> SUFFICES ASSUME Init PROVE OInv
      OBVIOUS
    <1>1. FirstDueIsFirst
      BY DEF Init, FirstDueIsFirst
    <1>2. DueBySlot
      BY DEF Init, DueBySlot
    <1> QED
      BY <1>1, <1>2 DEF OInv

\* A step that leaves the order of the queue and what is due alone.
LEMMA SameOrder ==
    ASSUME OInv, UNCHANGED <<queue, cur, due, slot, late>>
    PROVE  OInv'
    <1>1. FirstDueIsFirst'
      BY DEF OInv, FirstDueIsFirst
    <1>2. DueBySlot'
      BY DEF OInv, DueBySlot
    <1> QED
      BY <1>1, <1>2 DEF OInv

\* A lookup not yet in the queue is put at its end, due at the timeslot.
LEMMA PutLast ==
    ASSUME TypeOK, OInv, NEW l \in Lookups, ~InQueue(l), cur # l,
           queue' = Append(queue, l), cur' = cur,
           due' = [due EXCEPT ![l] = slot'], slot' \in Nat, slot <= slot',
           late' \in {late, late \ {l}}
    PROVE  OInv'
    <1>1. /\ due \in [Lookups -> Nat] /\ slot \in Nat
          /\ queue \in Seq(Lookups) /\ cur \in Lookups \cup {NULL}
      BY DEF TypeOK
    <1>2. /\ Len(queue') = Len(queue) + 1 /\ Len(queue) \in Nat
          /\ \A i \in 1..Len(queue) : queue'[i] = queue[i]
          /\ queue'[Len(queue) + 1] = l
      BY <1>1, AppendTo
    <1>3. \A i \in 1..Len(queue) : queue[i] \in Lookups /\ queue[i] # l
      BY <1>1, ElementsOf DEF InQueue
    <1>4. due'[l] = slot' /\ \A k \in Lookups : k # l => due'[k] = due[k]
      BY <1>1
    <1>5. \A k \in Lookups : k # l /\ k \notin late' => k \notin late /\ due[k] <= slot'
      BY <1>1 DEF OInv, DueBySlot
    <1>6. DueBySlot'
      BY <1>4, <1>5 DEF DueBySlot
    <1>7. \A i \in 1..Len(queue') : i \in 1..Len(queue) \/ i = Len(queue) + 1
      BY <1>2
    <1>8. ASSUME NEW i \in 1..Len(queue'), NEW j \in 1..Len(queue'), i < j,
                 queue'[i] \notin late'
          PROVE  due'[queue'[i]] <= due'[queue'[j]]
      <2>1. i \in 1..Len(queue) /\ queue'[i] = queue[i] /\ queue[i] # l
            /\ queue[i] \in Lookups
        BY <1>2, <1>3, <1>7, <1>8
      <2>2. queue[i] \notin late /\ due[queue[i]] <= slot' /\ due'[queue'[i]] = due[queue[i]]
        BY <1>4, <1>5, <1>8, <2>1
      <2>3. CASE j = Len(queue) + 1
        BY <1>2, <1>4, <2>2, <2>3
      <2>4. CASE j \in 1..Len(queue)
        <3>1. due'[queue'[j]] = due[queue[j]]
          BY <1>2, <1>3, <1>4, <2>4
        <3> QED
          BY <1>8, <2>1, <2>2, <2>4, <3>1 DEF OInv, FirstDueIsFirst
      <2> QED
        BY <1>7, <2>3, <2>4
    <1>9. ASSUME cur' # NULL, cur' \notin late', NEW j \in 1..Len(queue')
          PROVE  due'[cur'] <= due'[queue'[j]]
      <2>1. cur \in Lookups /\ cur # l /\ cur \notin late /\ due[cur] <= slot'
            /\ due'[cur'] = due[cur]
        BY <1>1, <1>4, <1>5, <1>9
      <2>2. CASE j = Len(queue) + 1
        BY <1>2, <1>4, <2>1, <2>2
      <2>3. CASE j \in 1..Len(queue)
        <3>1. due'[queue'[j]] = due[queue[j]]
          BY <1>2, <1>3, <1>4, <2>3
        <3> QED
          BY <1>9, <2>1, <2>3, <3>1 DEF OInv, FirstDueIsFirst
      <2> QED
        BY <1>7, <2>2, <2>3
    <1>10. FirstDueIsFirst'
      BY <1>8, <1>9 DEF FirstDueIsFirst
    <1> QED
      BY <1>6, <1>10 DEF OInv

\* The timeslot is moved on for a lookup that leaves the queues.
LEMMA MovedOn ==
    ASSUME TypeOK, OInv, NEW l \in Lookups, ~InQueue(l), cur # l,
           queue' = queue, cur' = cur,
           due' = [due EXCEPT ![l] = slot'], slot' \in Nat, slot <= slot',
           late' = late \ {l}
    PROVE  OInv'
    <1>1. /\ due \in [Lookups -> Nat] /\ slot \in Nat
          /\ queue \in Seq(Lookups) /\ cur \in Lookups \cup {NULL}
      BY DEF TypeOK
    <1>2. \A i \in 1..Len(queue) : queue[i] \in Lookups /\ queue[i] # l
      BY <1>1, ElementsOf DEF InQueue
    <1>3. due'[l] = slot' /\ \A k \in Lookups : k # l => due'[k] = due[k]
      BY <1>1
    <1>4. DueBySlot'
      BY <1>1, <1>3 DEF OInv, DueBySlot
    <1>5. FirstDueIsFirst'
      BY <1>1, <1>2, <1>3 DEF OInv, FirstDueIsFirst
    <1> QED
      BY <1>4, <1>5 DEF OInv

\* After a success nothing is due later, or everything that is due is left over.
LEMMA SuccessOInv ==
    ASSUME TypeOK, OInv, CompleteSuccess, cur' = cur
    PROVE  OInv'
    <1>1. /\ due \in [Lookups -> Nat] /\ slot \in Nat
          /\ queue \in Seq(Lookups) /\ cur \in Lookups \cup {NULL}
      BY DEF TypeOK
    <1>2. due' = due /\ queue' = queue
      BY DEF CompleteSuccess, Callback, NothingRescheduled
    <1>3. slot' \in {slot, 0} /\ late' = IF slot' < slot THEN {k \in Lookups : due[k] > 0}
                                                         ELSE late
      BY DEF CompleteSuccess, ResetTimeslot
    <1>4. CASE slot' < slot
      <2>1. late' = {k \in Lookups : due[k] > 0} /\ slot' = 0
        BY <1>1, <1>3, <1>4
      <2>2. \A k \in Lookups : k \notin late' => due'[k] = 0
        BY <1>1, <1>2, <2>1
      <2>3. \A i \in 1..Len(queue) : queue[i] \in Lookups
        BY <1>1, ElementsOf
      <2>4. \A k \in Lookups : due'[k] >= 0
        BY <1>1, <1>2
      <2>5. DueBySlot'
        BY <2>1, <2>2 DEF DueBySlot
      <2>6. FirstDueIsFirst'
        BY <1>1, <1>2, <2>2, <2>3, <2>4 DEF FirstDueIsFirst
      <2> QED
        BY <2>5, <2>6 DEF OInv
    <1>5. CASE ~(slot' < slot)
      BY <1>1, <1>2, <1>3, <1>5, SameOrder
    <1> QED
      BY <1>4, <1>5

LEMMA CompleteOInv ==
    ASSUME TInv, HInv, OInv, Complete
    PROVE  OInv'
    <1> DEFINE l == Answered
    <1>0. TypeOK /\ HeldOnce
      BY DEF TInv, HInv, CalledBackOnce
    <1>1. TakeResponse /\ cur' = cur
      BY CompleteEither
    <1>2. l \in Lookups /\ InResps(l)
      BY <1>0, <1>1, RespsTaken
    <1>3. ~InQueue(l) /\ cur # l
      BY <1>0, <1>2 DEF HeldOnce
    <1>4. ASSUME NEW f \in BOOLEAN, f => IgnoreErrors, retry[l] > 0,
                 manage_dns_retry_interval(l, f)
          PROVE  /\ due' = [due EXCEPT ![l] = slot'] /\ slot' \in Nat /\ slot <= slot'
                 /\ late' = late \ {l}
      <2>1. slot' \in Nat /\ slot <= slot' /\ late' = late \ {l}
        BY <1>2, <1>4, Rescheduled
      <2>2. due' = [due EXCEPT ![l] = slot']
        BY <1>4 DEF manage_dns_retry_interval, NextRetry
      <2> QED
        BY <2>1, <2>2
    <1> HIDE DEF l
    <1>5. CASE CompleteSuccess
      BY <1>0, <1>1, <1>5, SuccessOInv
    <1>6. CASE CompleteForward
      <2>1. CASE /\ retry[l] > 0 /\ manage_dns_retry_interval(l, IgnoreErrors)
                 /\ queue' = Append(queue, l)
        <3>1. IgnoreErrors \in BOOLEAN
          BY LookupAssumption
        <3>2. /\ due' = [due EXCEPT ![l] = slot'] /\ slot' \in Nat /\ slot <= slot'
              /\ late' = late \ {l}
          BY <1>4, <2>1, <3>1
        <3> QED
          BY <1>0, <1>1, <1>2, <1>3, <2>1, <3>2, PutLast
      <2>2. CASE queue' = queue /\ due' = due /\ slot' = slot /\ late' = late
        BY <1>1, <2>2, SameOrder
      <2> QED
        BY <1>6, <2>1, <2>2 DEF l, CompleteForward, Requeue, Callback, WantsRetry,
                                NothingRescheduled
    <1>7. CASE CompleteReverse
      <2>1. retry[l] > 0 /\ manage_dns_retry_interval(l, FALSE)
        BY <1>2, <1>7, Zenon DEF l, CompleteReverse, TInv, Retries
      <2>2. /\ due' = [due EXCEPT ![l] = slot'] /\ slot' \in Nat /\ slot <= slot'
            /\ late' = late \ {l}
        BY <1>4, <2>1
      <2>3. queue' = Append(queue, l) \/ queue' = queue
        BY <1>7 DEF l, CompleteReverse, Requeue, Callback
      <2>4. CASE queue' = Append(queue, l)
        BY <1>0, <1>1, <1>2, <1>3, <2>2, <2>4, PutLast
      <2>5. CASE queue' = queue
        BY <1>0, <1>1, <1>2, <1>3, <2>2, <2>5, MovedOn
      <2> QED
        BY <2>3, <2>4, <2>5
    <1> QED
      BY <1>5, <1>6, <1>7 DEF Complete

LEMMA AskOInv ==
    ASSUME TInv, HInv, OInv, NEW l \in Lookups, NEW k \in Kinds, Ask(l, k)
    PROVE  OInv'
    <1>0. TypeOK
      BY DEF TInv
    <1>1. /\ kind[l] = "none" /\ queue' = Append(queue, l) /\ cur' = cur
          /\ slot' = slot /\ due' = [due EXCEPT ![l] = slot'] /\ late' = late
      BY DEF Ask, Earliest, worker, daemon, history
    <1>2. slot \in Nat /\ slot <= slot
      BY <1>0 DEF TypeOK
    <1>3. l \notin Waiting
      BY <1>1 DEF Waiting
    <1>4. ~InQueue(l) /\ cur # l
      BY <1>3 DEF HInv, CalledBackOnce
    <1> QED
      BY <1>0, <1>1, <1>2, <1>4, PutLast

LEMMA TakeRequestOInv ==
    ASSUME TInv, OInv, TakeRequest
    PROVE  OInv'
    <1>1. /\ queue \in Seq(Lookups) /\ queue # <<>> /\ cur' = Head(queue)
          /\ queue' = Tail(queue) /\ due' = due /\ slot' = slot /\ late' = late
      BY DEF TInv, TypeOK, TakeRequest, request, daemon, history
    <1>2. /\ Len(queue') = Len(queue) - 1 /\ Len(queue) \in Nat \ {0}
          /\ cur' = queue[1]
          /\ \A i \in 1..Len(queue') : queue'[i] = queue[i + 1]
      BY <1>1, TakeFrom
    <1>3. \A i \in 1..Len(queue') : i + 1 \in 1..Len(queue) /\ 1 < i + 1
      BY <1>2
    <1>4. 1 \in 1..Len(queue)
      BY <1>2
    <1>5. ASSUME NEW i \in 1..Len(queue'), NEW j \in 1..Len(queue'), i < j,
                 queue'[i] \notin late'
          PROVE  due'[queue'[i]] <= due'[queue'[j]]
      <2>1. i + 1 < j + 1
        BY <1>2, <1>5
      <2> QED
        BY <1>1, <1>2, <1>3, <1>5, <2>1 DEF OInv, FirstDueIsFirst
    <1>6. ASSUME cur' \notin late', NEW j \in 1..Len(queue')
          PROVE  due'[cur'] <= due'[queue'[j]]
      BY <1>1, <1>2, <1>3, <1>4, <1>6 DEF OInv, FirstDueIsFirst
    <1>7. FirstDueIsFirst'
      BY <1>5, <1>6 DEF FirstDueIsFirst
    <1>8. DueBySlot'
      BY <1>1 DEF OInv, DueBySlot
    <1> QED
      BY <1>7, <1>8 DEF OInv

LEMMA SecondOInv ==
    ASSUME TInv, OInv, Second
    PROVE  OInv'
    <1>1. /\ due \in [Lookups -> Nat] /\ slot \in Nat
          /\ queue \in Seq(Lookups) /\ cur \in Lookups \cup {NULL}
      BY DEF TInv, TypeOK
    <1>2. /\ due' = [k \in Lookups |-> Less(due[k])] /\ slot' = Less(slot)
          /\ queue' = queue /\ cur' = cur /\ late' = late
      BY DEF Second, worker, history
    <1>3. \A m, n \in Nat : m <= n => Less(m) <= Less(n)
      BY DEF Less
    <1>4. \A k \in Lookups : due'[k] = Less(due[k])
      BY <1>2
    <1>5. \A i \in 1..Len(queue) : queue[i] \in Lookups
      BY <1>1, ElementsOf
    <1>6. ASSUME NEW i \in 1..Len(queue), NEW j \in 1..Len(queue), i < j,
                 queue[i] \notin late
          PROVE  due'[queue[i]] <= due'[queue[j]]
      <2>1. due[queue[i]] <= due[queue[j]]
        BY <1>6 DEF OInv, FirstDueIsFirst
      <2>2. due[queue[i]] \in Nat /\ due[queue[j]] \in Nat
        BY <1>1, <1>5, <1>6
      <2>3. Less(due[queue[i]]) <= Less(due[queue[j]])
        BY <1>3, <2>1, <2>2
      <2> QED
        BY <1>4, <1>5, <1>6, <2>3
    <1>7. ASSUME cur # NULL, cur \notin late, NEW j \in 1..Len(queue)
          PROVE  due'[cur] <= due'[queue[j]]
      BY <1>1, <1>3, <1>4, <1>5, <1>7 DEF OInv, FirstDueIsFirst
    <1>8. FirstDueIsFirst'
      BY <1>2, <1>6, <1>7 DEF FirstDueIsFirst
    <1>9. DueBySlot'
      BY <1>1, <1>2, <1>3, <1>4 DEF OInv, DueBySlot
    <1> QED
      BY <1>8, <1>9 DEF OInv

LEMMA StepOInv ==
    ASSUME TInv, HInv, OInv, [Next]_vars
    PROVE  OInv'
    <1>1. CASE SomeAsk
      BY <1>1, AskOInv DEF SomeAsk
    <1>2. CASE Complete
      BY <1>2, CompleteOInv
    <1>3. CASE Interrupt
      BY <1>3, SameOrder DEF Interrupt, request, daemon, worker, history
    <1>4. CASE TakeRequest
      BY <1>4, TakeRequestOInv
    <1>5. CASE SleepEnds
      BY <1>5, SameOrder DEF SleepEnds, request, daemon, history
    <1>6. CASE SleepInterrupted
      BY <1>6, SameOrder DEF SleepInterrupted, request, daemon, history
    <1>7. CASE SomeAnswer
      <2>1. /\ cur' = NULL /\ queue' = queue /\ due' = due /\ slot' = slot
            /\ late' = late
        BY <1>7 DEF SomeAnswer, Resolve, FreeRequest, request, daemon, history
      <2>2. FirstDueIsFirst'
        BY <2>1 DEF OInv, FirstDueIsFirst
      <2>3. DueBySlot'
        BY <2>1 DEF OInv, DueBySlot
      <2> QED
        BY <2>2, <2>3 DEF OInv
    <1>8. CASE Second
      BY <1>8, SecondOInv
    <1>9. CASE UNCHANGED vars
      BY <1>9, SameOrder DEF vars, request, daemon, worker, history
    <1> QED
      BY <1>1, <1>2, <1>3, <1>4, <1>5, <1>6, <1>7, <1>8, <1>9 DEF Next, TakeOrSleep

\* Lookups wait in the order in which they are due, except those left over from
\* before a reset of the timeslot (getaddrinfo_sometime_ex,
\* manage_dns_retry_interval and the one worker).
THEOREM OrderIsKept == Spec => []FirstDueIsFirst
    <1>1. OInv => FirstDueIsFirst
      BY DEF OInv
    <1> QED
      BY <1>1, InitOInv, StepOInv, AlwaysTInv, AlwaysHInv, PTL DEF Spec
=============================================================================
