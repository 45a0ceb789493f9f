--------------------------- MODULE SynchronyProofs ---------------------------
(***************************************************************************)
(* What is proved of clock_select() and local_clock(), for every setting   *)
(* of the thresholds: a majority of right sources keeps the truechimers    *)
(* near the truth, and a daemon whose offsets are right to within Bound    *)
(* keeps the clock near it for as long as it says that it is synchronised. *)
(***************************************************************************)
EXTENDS Discipline, Selection, FiniteSetTheorems, TLAPS

-----------------------------------------------------------------------------
(* Selection                                                                *)

\* The candidates whose interval holds v.
Covering(cs, v) == {c \in cs : LowEnd(c) <= v /\ v <= HighEnd(c)}

\* The counter of the scan from the low end, n in clock_select(), is the number
\* of intervals that hold the point the scan is at.
LEMMA CountUpCovers ==
    ASSUME NEW cs \in SUBSET Candidate, IsFiniteSet(cs), NEW v \in Int
    PROVE  CountUp(cs, v) = Cardinality(Covering(cs, v))
<1> DEFINE begun == {c \in cs : LowEnd(c) <= v}
           ended == {c \in cs : HighEnd(c) < v}
<1>1. \A c \in cs : LowEnd(c) \in Int /\ HighEnd(c) \in Int /\ LowEnd(c) < HighEnd(c)
  BY DEF Candidate, LowEnd, HighEnd
<1>2. IsFiniteSet(begun)
  BY FS_Subset
<1>3. Cardinality(begun \ ended) = Cardinality(begun) - Cardinality(begun \cap ended)
  BY <1>2, FS_Difference
<1>4. begun \cap ended = ended
  BY <1>1
<1>5. begun \ ended = Covering(cs, v)
  BY <1>1 DEF Covering
<1> QED
  BY <1>3, <1>4, <1>5 DEF CountUp

\* ... and so is the counter of the scan from the high end.
LEMMA CountDownCovers ==
    ASSUME NEW cs \in SUBSET Candidate, IsFiniteSet(cs), NEW v \in Int
    PROVE  CountDown(cs, v) = Cardinality(Covering(cs, v))
<1> DEFINE begun == {c \in cs : HighEnd(c) >= v}
           ended == {c \in cs : LowEnd(c) > v}
<1>1. \A c \in cs : LowEnd(c) \in Int /\ HighEnd(c) \in Int /\ LowEnd(c) < HighEnd(c)
  BY DEF Candidate, LowEnd, HighEnd
<1>2. IsFiniteSet(begun)
  BY FS_Subset
<1>3. Cardinality(begun \ ended) = Cardinality(begun) - Cardinality(begun \cap ended)
  BY <1>2, FS_Difference
<1>4. begun \cap ended = ended
  BY <1>1
<1>5. begun \ ended = Covering(cs, v)
  BY <1>1 DEF Covering
<1> QED
  BY <1>3, <1>4, <1>5 DEF CountDown

\* Where a scan stops, some right source's interval holds the point, if at
\* least half of the sources are right.
LEMMA RightSourceCovers ==
    ASSUME NEW cs \in SUBSET Candidate, IsFiniteSet(cs),
           NEW right \in SUBSET cs, 2 * Cardinality(right) >= Cardinality(cs),
           NEW allow \in Nat, 2 * allow < Cardinality(cs),
           NEW v \in Int, Cardinality(Covering(cs, v)) >= Cardinality(cs) - allow
    PROVE  \E c \in right : LowEnd(c) <= v /\ v <= HighEnd(c)
<1>1. Covering(cs, v) \subseteq cs
  BY DEF Covering
<1>2. /\ Cardinality(cs) \in Nat /\ Cardinality(right) \in Nat
      /\ Cardinality(Covering(cs, v)) \in Nat
  BY <1>1, FS_Subset, FS_CardinalityType
<1>3. Cardinality(right) + Cardinality(Covering(cs, v)) > Cardinality(cs)
  BY <1>2
<1>4. right \cap Covering(cs, v) # {}
  BY <1>1, <1>3, FS_MajoritiesIntersect
<1> QED
  BY <1>4 DEF Covering

\* When at least half of the candidates are right, their intervals hold the
\* true offset, and their root distances are at most D, then every truechimer
\* that is not one by decree (the TRUE flag) has an offset within 2 * D and
\* its own root distance of the true one, whatever the others say: what
\* clock_select()'s intersection (ntp_proto.c:3605) is for.
THEOREM TruechimersAreNearTheTruth ==
    ASSUME NEW cs \in SUBSET Candidate, IsFiniteSet(cs),
           NEW truth \in Int, NEW D \in Nat,
           NEW right \in SUBSET cs, 2 * Cardinality(right) >= Cardinality(cs),
           \A c \in right :
              LowEnd(c) <= truth /\ truth <= HighEnd(c) /\ c.synch <= D,
           NEW chimer \in Truechimers(cs), "TRUE" \notin chimer.flags
    PROVE  Magnitude(chimer.offset - truth) <= 2 * D + chimer.synch
<1>1. PICK low \in Ends(cs), high \in Ends(cs) :
         /\ IsIntersection(cs, low, high)
         /\ HighEnd(chimer) >= low /\ LowEnd(chimer) <= high
  BY DEF Truechimers
<1>2. PICK allow \in 0 .. Cardinality(cs) :
         2 * allow < Cardinality(cs) /\ Found(cs, allow, low, high)
  BY <1>1 DEF IsIntersection
<1>3. allow \in Nat /\ Cardinality(cs) \in Nat
  BY FS_CardinalityType
<1>4. low \in Int /\ high \in Int
  BY DEF Ends, Candidate, LowEnd, HighEnd
<1>5. chimer \in Candidate
  BY DEF Truechimers
<1>6. PICK c \in right : LowEnd(c) <= low /\ low <= HighEnd(c)
  <2>1. Cardinality(Covering(cs, low)) >= Cardinality(cs) - allow
    BY <1>2, <1>4, CountUpCovers DEF Found, IsLow
  <2> QED
    BY <2>1, <1>2, <1>3, <1>4, RightSourceCovers
<1>7. PICK d \in right : LowEnd(d) <= high /\ high <= HighEnd(d)
  <2>1. Cardinality(Covering(cs, high)) >= Cardinality(cs) - allow
    BY <1>2, <1>4, CountDownCovers DEF Found, IsHigh
  <2> QED
    BY <2>1, <1>2, <1>3, <1>4, RightSourceCovers
<1>8. c \in Candidate /\ d \in Candidate
  OBVIOUS
<1>9. low >= truth - 2 * D
  BY <1>4, <1>6, <1>8 DEF Candidate, LowEnd, HighEnd
<1>10. high <= truth + 2 * D
  BY <1>4, <1>7, <1>8 DEF Candidate, LowEnd, HighEnd
<1> QED
  BY <1>1, <1>4, <1>5, <1>9, <1>10 DEF Candidate, LowEnd, HighEnd, Magnitude

-----------------------------------------------------------------------------
(* Discipline                                                               *)

USE DisciplineAssumption

LEMMA InitTypeOK == Init => TypeOK
<1> SUFFICES ASSUME Init PROVE TypeOK
  OBVIOUS
<1>1. errors \subseteq Int /\ Timers
  BY DEF Init, Timers
<1>2. Flags
  BY DEF Init, Flags
<1>3. Slews
  BY DEF Init, Slews, Small, Over
<1> QED
  BY <1>1, <1>2, <1>3 DEF TypeOK

LEMMA StartTypeOK ==
    ASSUME TypeOK, NEW asked \in Options, NEW given \in BOOLEAN, Start(asked, given)
    PROVE  Flags' /\ Timers' /\ Slews'
<1>1. Flags'
  BY DEF TypeOK, Flags, Start
<1>2. Timers'
  BY DEF TypeOK, Timers, Start
<1>3. Slews'
  BY DEF TypeOK, Slews, Small, Over, Start
<1> QED
  BY <1>1, <1>2, <1>3

LEMMA StopTypeOK == TypeOK /\ Stop => Flags' /\ Timers' /\ Slews'
<1> SUFFICES ASSUME TypeOK, Stop PROVE Flags' /\ Timers' /\ Slews'
  OBVIOUS
<1>1. Flags'
  BY DEF TypeOK, Flags, Stop, RunEnds
<1>2. Timers'
  BY DEF TypeOK, Timers, Stop, RunEnds, counts
<1>3. Slews'
  BY DEF TypeOK, Slews, Small, Over, Stop
<1> QED
  BY <1>1, <1>2, <1>3

LEMMA UpdateTypeOK ==
    ASSUME TypeOK, NEW offset \in Int, Update(offset)
    PROVE  Flags' /\ Timers' /\ Slews'
<1>1. CASE PanicExit(offset)
  <2>1. Flags'
    BY <1>1 DEF TypeOK, Flags, PanicExit, Exits, RunEnds, daemon
  <2>2. Timers'
    BY <1>1 DEF TypeOK, Timers, PanicExit, Exits, RunEnds, daemon, counts
  <2>3. Slews'
    BY <1>1 DEF TypeOK, Slews, Small, Over, PanicExit, daemon
  <2> QED
    BY <2>1, <2>2, <2>3
<1>2. CASE SetAndExit(offset)
  <2>1. Flags'
    BY <1>2 DEF TypeOK, Flags, SetAndExit, Exits, RunEnds
  <2>2. Timers'
    BY <1>2 DEF TypeOK, Timers, SetAndExit, Exits, RunEnds, SetClock
  <2>3. Slews'
    BY <1>2 DEF TypeOK, Slews, Small, Over, SetAndExit, SetClock
  <2> QED
    BY <2>1, <2>2, <2>3
<1>3. CASE Ignore(offset)
  <2>1. Flags'
    BY <1>3 DEF TypeOK, Flags, Ignore, Observe
  <2>2. Timers'
    BY <1>3 DEF TypeOK, Timers, Ignore, Observe, Lesser
  <2>3. Slews'
    BY <1>3 DEF TypeOK, Slews, Small, Over, Ignore
  <2> QED
    BY <2>1, <2>2, <2>3
<1>4. CASE StepClock(offset)
  <2>1. Flags'
    BY <1>4 DEF TypeOK, Flags, StepClock, Observe, Reset
  <2>2. Timers'
    BY <1>4 DEF TypeOK, Timers, StepClock, Observe, Reset, SetClock, Lesser
  <2>3. Slews'
    BY <1>4 DEF TypeOK, Slews, Small, Over, StepClock, Reset, SetClock, PassToKernel
  <2> QED
    BY <2>1, <2>2, <2>3
<1>5. CASE Slew(offset)
  <2>1. Flags'
    BY <1>5 DEF TypeOK, Flags, Slew, Observe, Reset
  <2>2. Timers'
    BY <1>5 DEF TypeOK, Timers, Slew, Observe, Reset, Lesser
  <2>3. Slews'
    BY <1>5 DEF TypeOK, Slews, Small, Over, Outlier, Slew, Reset
  <2> QED
    BY <2>1, <2>2, <2>3
<1> QED
  BY <1>1, <1>2, <1>3, <1>4, <1>5 DEF Update

LEMMA SecondTypeOK == TypeOK /\ Second => Flags' /\ Timers' /\ Slews'
<1> SUFFICES ASSUME TypeOK, Second PROVE Flags' /\ Timers' /\ Slews'
  OBVIOUS
<1>1. Flags'
  BY DEF TypeOK, Flags, Second, counts
<1>2. Timers'
  BY DEF TypeOK, Timers, Second, counts, Lesser
<1>3. Slews'
  <2>1. \A x \in Small : x - Sign(x) \in Small /\ Sign(x) \in Int /\ 0 \in Small
    BY DEF Small, Over, Sign
  <2>2. DaemonSlew \in {0, Sign(clock_offset)}
    BY DEF DaemonSlew
  <2>3. clock_offset - DaemonSlew \in Small /\ DaemonSlew \in Int
    BY <2>1, <2>2 DEF TypeOK, Slews, Small
  <2> QED
    BY <2>1, <2>3 DEF TypeOK, Slews, Second, Small
<1> QED
  BY <1>1, <1>2, <1>3

LEMMA DisturbTypeOK ==
    ASSUME TypeOK, NEW e \in -Far .. Far, Disturb(e)
    PROVE  Flags' /\ Timers' /\ Slews'
<1>1. Flags'
  BY DEF TypeOK, Flags, Disturb, daemon
<1>2. Timers'
  BY DEF TypeOK, Timers, Disturb, daemon
<1>3. Slews'
  BY DEF TypeOK, Slews, Small, Over, Disturb, daemon
<1> QED
  BY <1>1, <1>2, <1>3

LEMMA StutterTypeOK == TypeOK /\ UNCHANGED vars => TypeOK'
  BY DEF TypeOK, Flags, Timers, Slews, Small, Over, vars, daemon, counts, history

\* The variables of the discipline keep their types in every run of the daemon:
\* what is left to slew stays under the step thresholds, the startup clamp and
\* the stepout timer stay in their ranges.
THEOREM TypeCorrect == Spec => []TypeOK
<1>1. TypeOK /\ [Next]_vars => TypeOK'
  <2> SUFFICES ASSUME TypeOK, [Next]_vars PROVE TypeOK'
    OBVIOUS
  <2>1. CASE UNCHANGED vars
    BY <2>1, StutterTypeOK
  <2>2. CASE Next
    <3>1. errors' = errors /\ errors \subseteq Int
      BY <2>2 DEF Next, TypeOK
    <3>2. ASSUME NEW asked \in Options, NEW given \in BOOLEAN, Start(asked, given)
          PROVE  TypeOK'
      BY <3>1, <3>2, StartTypeOK DEF TypeOK
    <3>3. CASE Stop
      BY <3>1, <3>3, StopTypeOK DEF TypeOK
    <3>4. ASSUME NEW e \in errors, Update(err + e)
          PROVE  TypeOK'
      <4>1. err + e \in Int
        BY <3>1 DEF TypeOK, Slews
      <4> QED
        BY <3>1, <3>4, <4>1, UpdateTypeOK DEF TypeOK
    <3>5. CASE Second
      BY <3>1, <3>5, SecondTypeOK DEF TypeOK
    <3>6. ASSUME NEW e \in -Far .. Far, Disturb(e)
          PROVE  TypeOK'
      BY <3>1, <3>6, DisturbTypeOK DEF TypeOK
    <3> QED
      BY <2>2, <3>2, <3>3, <3>4, <3>5, <3>6 DEF Next
  <2> QED
    BY <2>1, <2>2
<1> QED
  BY <1>1, InitTypeOK, PTL DEF Spec

-----------------------------------------------------------------------------
(* The inductive invariant of the discipline.                               *)

\* What an update leaves of -g is nothing.
PanicInv == updated => ~allow_panic

\* While offsets are taken, calm is at least the time since the last one; the
\* SPIK state is entered by an offset over the threshold, not by -G.
SpikeInv ==
    running /\ state \in {"SYNC", "SPIK"} =>
        /\ ~force_step_once /\ mu <= calm
        /\ state = "SPIK" => outliers > 0

\* During the startup clamp the daemon slews, not the kernel, and the clamp is
\* on until the first update.
ClampInv ==
    running /\ ~mode_ntpdate =>
        /\ freq_cnt > 0 => kernel = 0
        /\ state = "NSET" => freq_cnt > 0

Near(pending) == Magnitude(err - pending) <= Bound

\* A clock that is said to be synchronised is right to within Bound but for
\* what one of the three ways to slew has still to do.
NearInv ==
    running /\ leap = "NOWARNING" =>
        /\ ~mode_ntpdate /\ state \in {"FREQ", "SYNC", "SPIK"}
        /\ ~disturbed =>
              \/ state = "FREQ" /\ kernel = 0 /\ Near(adjtime)
              \/ state # "FREQ" /\ adjtime = 0 /\ kernel = 0 /\ Near(clock_offset)
              \/ state # "FREQ" /\ adjtime = 0 /\ freq_cnt = 0 /\ Near(kernel)

\* Thresholds that are 0 never step, and offsets that are worse than Bound
\* bring the clock as far off.
Bounded ==
    /\ Errors \subseteq -Bound .. Bound
    /\ MaxFwd > 0 /\ MaxBack > 0

LEMMA PanicInvInductive == TypeOK /\ PanicInv /\ [Next]_vars => PanicInv'
<1> SUFFICES ASSUME TypeOK, PanicInv, [Next]_vars PROVE PanicInv'
  OBVIOUS
<1> USE DEF PanicInv, TypeOK, Flags
<1>1. CASE UNCHANGED vars
  BY <1>1 DEF vars, daemon, history
<1>2. ASSUME NEW asked \in Options, NEW given \in BOOLEAN, Start(asked, given)
      PROVE  PanicInv'
  BY <1>2 DEF Start
<1>3. CASE Stop
  BY <1>3 DEF Stop, RunEnds
<1>4. ASSUME NEW e \in errors, Update(err + e)
      PROVE  PanicInv'
  BY <1>4 DEF Update, PanicExit, SetAndExit, Ignore, StepClock, Slew, Exits, RunEnds
<1>5. CASE Second
  BY <1>5 DEF Second
<1>6. ASSUME NEW e \in -Far .. Far, Disturb(e)
      PROVE  PanicInv'
  BY <1>6 DEF Disturb, daemon
<1> QED
  BY <1>1, <1>2, <1>3, <1>4, <1>5, <1>6 DEF Next

LEMMA SpikeInvInductive == TypeOK /\ SpikeInv /\ [Next]_vars => SpikeInv'
<1> SUFFICES ASSUME TypeOK, SpikeInv, [Next]_vars PROVE SpikeInv'
  OBVIOUS
<1> USE DEF SpikeInv, TypeOK, Flags, Timers
<1>1. CASE UNCHANGED vars
  BY <1>1 DEF vars, daemon, history
<1>2. ASSUME NEW asked \in Options, NEW given \in BOOLEAN, Start(asked, given)
      PROVE  SpikeInv'
  BY <1>2 DEF Start
<1>3. CASE Stop
  BY <1>3 DEF Stop, RunEnds
<1>4. ASSUME NEW e \in errors, Update(err + e)
      PROVE  SpikeInv'
  <2>1. CASE PanicExit(err + e) \/ SetAndExit(err + e)
    BY <2>1 DEF PanicExit, SetAndExit, Exits, RunEnds
  <2>2. CASE Ignore(err + e)
    <3>1. CASE state = "SYNC"
      <4>1. Over(err + e)
        BY <1>4, <2>2, <3>1 DEF Ignore, Outlier, Update
      <4> QED
        BY <1>4, <2>2, <3>1, <4>1 DEF Ignore, Observe, Lesser, Update
    <3>2. CASE state = "SPIK"
      <4>1. Over(err + e)
        BY <1>4, <2>2, <3>2 DEF Ignore, Outlier, Update
      <4> QED
        BY <1>4, <2>2, <3>2, <4>1 DEF Ignore, Observe, Lesser, Update
    <3> QED
      BY <2>2, <3>1, <3>2 DEF Ignore
  <2>3. CASE StepClock(err + e)
    BY <2>3 DEF StepClock, Reset, Observe
  <2>4. CASE Slew(err + e)
    BY <2>4 DEF Slew, Reset, Observe, Outlier
  <2> QED
    BY <1>4, <2>1, <2>2, <2>3, <2>4 DEF Update
<1>5. CASE Second
  BY <1>5 DEF Second, Lesser
<1>6. ASSUME NEW e \in -Far .. Far, Disturb(e)
      PROVE  SpikeInv'
  BY <1>6 DEF Disturb, daemon
<1> QED
  BY <1>1, <1>2, <1>3, <1>4, <1>5, <1>6 DEF Next

LEMMA ClampInvInductive == TypeOK /\ ClampInv /\ [Next]_vars => ClampInv'
<1> SUFFICES ASSUME TypeOK, ClampInv, [Next]_vars PROVE ClampInv'
  OBVIOUS
<1> USE DEF ClampInv, TypeOK, Flags, Timers
<1>1. CASE UNCHANGED vars
  BY <1>1 DEF vars, daemon, history
<1>2. ASSUME NEW asked \in Options, NEW given \in BOOLEAN, Start(asked, given)
      PROVE  ClampInv'
  BY <1>2 DEF Start
<1>3. CASE Stop
  BY <1>3 DEF Stop, RunEnds
<1>4. ASSUME NEW e \in errors, Update(err + e)
      PROVE  ClampInv'
  <2>1. CASE PanicExit(err + e) \/ SetAndExit(err + e)
    BY <2>1 DEF PanicExit, SetAndExit, Exits, RunEnds
  <2>2. CASE Ignore(err + e)
    BY <1>4, <2>2 DEF Ignore, Update
  <2>3. CASE StepClock(err + e)
    BY <1>4, <2>3 DEF StepClock, Reset, PassToKernel, Update
  <2>4. CASE Slew(err + e)
    BY <1>4, <2>4 DEF Slew, Reset, Update
  <2> QED
    BY <1>4, <2>1, <2>2, <2>3, <2>4 DEF Update
<1>5. CASE Second
  BY <1>5 DEF Second, Sign
<1>6. ASSUME NEW e \in -Far .. Far, Disturb(e)
      PROVE  ClampInv'
  BY <1>6 DEF Disturb, daemon
<1> QED
  BY <1>1, <1>2, <1>3, <1>4, <1>5, <1>6 DEF Next

LEMMA NearInvInductive ==
    ASSUME Bounded, errors = Errors, TypeOK, ClampInv, NearInv, [Next]_vars
    PROVE  NearInv'
<1> USE DEF NearInv, Near
<1>1. CASE UNCHANGED vars
  BY <1>1 DEF vars, daemon, history
<1>2. ASSUME NEW asked \in Options, NEW given \in BOOLEAN, Start(asked, given)
      PROVE  NearInv'
  BY <1>2 DEF Start
<1>3. CASE Stop
  BY <1>3 DEF Stop, RunEnds, TypeOK, Flags
<1>4. ASSUME NEW e \in errors, Update(err + e)
      PROVE  NearInv'
  <2>1. CASE PanicExit(err + e) \/ SetAndExit(err + e)
    BY <2>1 DEF PanicExit, SetAndExit, Exits, RunEnds
  <2>2. CASE Ignore(err + e)
    BY <1>4, <2>2 DEF Ignore, Update
  <2>3. CASE StepClock(err + e)
    BY <2>3 DEF StepClock
  <2>4. CASE Slew(err + e)
    <3>1. /\ running' /\ leap' = "NOWARNING" /\ err' = err /\ mode_ntpdate' = mode_ntpdate
          /\ clock_offset' = err + e /\ disturbed' = (state # "NSET" /\ adjtime # 0)
          /\ ~mode_ntpdate /\ running
      BY <1>4, <2>4 DEF Slew, Reset, Update
    <3>2. Magnitude(err - (err + e)) <= Bound
      BY <1>4 DEF Bounded, Magnitude, TypeOK, Slews
    <3>3. CASE state = "NSET"
      <4>1. state' = "FREQ" /\ adjtime' = err + e /\ freq_cnt' = freq_cnt
        BY <2>4, <3>3 DEF Slew, Reset
      <4>2. kernel' = 0
        BY <2>4, <3>1, <3>3, <4>1 DEF Slew, ClampInv, TypeOK, Timers
      <4> QED
        BY <3>1, <3>2, <4>1, <4>2
    <3>4. CASE state # "NSET"
      <4>1. state' = "SYNC" /\ adjtime' = adjtime
        BY <2>4, <3>4 DEF Slew, Reset
      <4>2. CASE freq_cnt' = 0
        <5>1. kernel' = err + e
          BY <2>4, <4>2 DEF Slew
        <5> QED
          BY <3>1, <3>2, <3>4, <4>1, <4>2, <5>1
      <4>3. CASE freq_cnt' # 0
        <5>1. kernel' = kernel /\ freq_cnt' = freq_cnt
          BY <2>4, <3>4, <4>3 DEF Slew
        <5>2. kernel = 0
          BY <3>1, <4>3, <5>1 DEF ClampInv, TypeOK, Timers
        <5> QED
          BY <3>1, <3>2, <3>4, <4>1, <5>1, <5>2
      <4> QED
        BY <4>2, <4>3
    <3> QED
      BY <3>3, <3>4
  <2> QED
    BY <1>4, <2>1, <2>2, <2>3, <2>4 DEF Update
<1>5. CASE Second
  <2> SUFFICES ASSUME running', leap' = "NOWARNING" PROVE NearInv'
    OBVIOUS
  <2>1. /\ running /\ leap = "NOWARNING" /\ state' = state /\ mode_ntpdate' = mode_ntpdate
        /\ disturbed' = disturbed
    BY <1>5 DEF Second
  <2>2. /\ clock_offset \in Int /\ kernel \in Int /\ adjtime \in Int /\ err \in Int
        /\ freq_cnt \in Nat /\ Bound \in Nat
    BY DEF TypeOK, Timers, Slews, Small
  <2>3. \A x \in Int : Sign(x) \in -1 .. 1 /\ Sign(0) = 0
    BY DEF Sign
  <2>4. ASSUME ~disturbed, state = "FREQ", kernel = 0, Near(adjtime)
        PROVE  kernel' = 0 /\ Near(adjtime)'
    <3>1. DaemonSlew = 0
      BY <2>4 DEF DaemonSlew
    <3>2. kernel' = 0 /\ adjtime' = adjtime - Sign(adjtime) /\ err' = err - Sign(adjtime)
      BY <1>5, <2>2, <2>3, <2>4, <3>1 DEF Second
    <3>3. err' - adjtime' = err - adjtime
      BY <2>2, <2>3, <3>2
    <3> QED
      BY <2>4, <3>2, <3>3 DEF Near
  <2>5. ASSUME ~disturbed, state # "FREQ", adjtime = 0, kernel = 0, Near(clock_offset)
        PROVE  adjtime' = 0 /\ kernel' = 0 /\ Near(clock_offset)'
    <3>1. DaemonSlew \in Int
      BY <2>2, <2>3 DEF DaemonSlew
    <3>2. /\ kernel' = 0 /\ adjtime' = 0
          /\ clock_offset' = clock_offset - DaemonSlew /\ err' = err - DaemonSlew
      BY <1>5, <2>2, <2>3, <2>5, <3>1 DEF Second
    <3>3. err' - clock_offset' = err - clock_offset
      BY <2>2, <3>1, <3>2
    <3> QED
      BY <2>5, <3>2, <3>3 DEF Near
  <2>6. ASSUME ~disturbed, state # "FREQ", adjtime = 0, freq_cnt = 0, Near(kernel)
        PROVE  adjtime' = 0 /\ freq_cnt' = 0 /\ Near(kernel)'
    <3>1. DaemonSlew = 0
      BY <2>6 DEF DaemonSlew
    <3>2. /\ kernel' = kernel - Sign(kernel) /\ adjtime' = 0 /\ freq_cnt' = 0
          /\ err' = err - Sign(kernel)
      BY <1>5, <2>2, <2>3, <2>6, <3>1 DEF Second
    <3>3. err' - kernel' = err - kernel
      BY <2>2, <2>3, <3>2
    <3> QED
      BY <2>6, <3>2, <3>3 DEF Near
  <2> QED
    BY <2>1, <2>4, <2>5, <2>6
<1>6. ASSUME NEW e \in -Far .. Far, Disturb(e)
      PROVE  NearInv'
  BY <1>6 DEF Disturb, daemon
<1> QED
  BY <1>1, <1>2, <1>3, <1>4, <1>5, <1>6 DEF Next

-----------------------------------------------------------------------------
\* PanicOnce in every execution: after the first update of a run nothing moves
\* the clock by more than the panic threshold, -g or not, because local_clock()
\* clears allow_panic whenever it does not exit (ntp_loopfilter.c:559).
THEOREM OnlyTheFirstUpdateMayPanic == Spec => PanicOnce
<1> DEFINE A == updated /\ disturbs' = disturbs =>
                   Panic = 0 \/ Magnitude(err' - err) <= Larger(Panic, 2)
<1>1. Init => PanicInv
  BY DEF Init, PanicInv
<1>2. TypeOK /\ PanicInv /\ [Next]_vars => [A]_vars
  <2> SUFFICES ASSUME TypeOK, PanicInv, Next, updated, disturbs' = disturbs, Panic # 0
               PROVE  Magnitude(err' - err) <= Larger(Panic, 2)
    OBVIOUS
  <2>1. err \in Int /\ ~allow_panic /\ Panic \in Nat
    BY DEF TypeOK, Slews, PanicInv
  <2>2. CASE err' = err
    BY <2>1, <2>2 DEF Magnitude, Larger
  <2>3. CASE Second
    <3>1. \A x \in Int : Sign(x) \in -1 .. 1
      BY DEF Sign
    <3>2. \E a, b \in -1 .. 1 : err' = err - a - b
      <4>1. DaemonSlew \in -1 .. 1 /\ Sign(kernel) \in -1 .. 1 /\ Sign(adjtime) \in -1 .. 1
        BY <3>1 DEF DaemonSlew, TypeOK, Slews, Small
      <4> QED
        BY <2>3, <4>1 DEF Second
    <3> QED
      BY <2>1, <3>2 DEF Magnitude, Larger
  <2>4. ASSUME NEW e \in errors, Update(err + e)
        PROVE  err' = err \/ (err' \in Int /\ Magnitude(err' - err) <= Panic)
    <3>1. err + e \in Int
      BY <2>1 DEF TypeOK
    <3>2. CASE SetClock(err + e) /\ ~Panics(err + e)
      BY <2>1, <3>1, <3>2 DEF SetClock, Panics, Magnitude
    <3> QED
      BY <2>4, <3>2
         DEF Update, PanicExit, SetAndExit, Ignore, StepClock, Slew
  <2>5. ASSUME NEW e \in errors, Update(err + e)
        PROVE  Magnitude(err' - err) <= Larger(Panic, 2)
    <3>1. CASE err' \in Int /\ Magnitude(err' - err) <= Panic
      <4>1. \A x \in Int : Magnitude(x) <= Panic => Magnitude(x) <= Larger(Panic, 2)
        BY <2>1 DEF Magnitude, Larger
      <4>2. err' - err \in Int
        BY <2>1, <3>1
      <4> QED
        BY <3>1, <4>1, <4>2
    <3>2. err' = err \/ (err' \in Int /\ Magnitude(err' - err) <= Panic)
      BY <2>4, <2>5
    <3>3. CASE err' = err
      BY <2>2, <3>3
    <3> QED
      BY <3>1, <3>2, <3>3
  <2>6. ASSUME NEW asked \in Options, NEW given \in BOOLEAN, Start(asked, given)
        PROVE  err' = err
    BY <2>6 DEF Start
  <2>7. CASE Stop
    BY <2>2, <2>7 DEF Stop
  <2>8. ASSUME NEW e \in -Far .. Far, Disturb(e)
        PROVE  FALSE
    BY <2>8 DEF Disturb, TypeOK, Timers
  <2> QED
    BY <2>2, <2>3, <2>5, <2>6, <2>7, <2>8 DEF Next
<1> QED
  BY <1>1, <1>2, TypeCorrect, PanicInvInductive, PTL DEF Spec, PanicOnce

\* SpikesOutlastStepout in every execution: a synchronised clock is stepped
\* only when every offset of the stepout time was over the threshold.
THEOREM SpikesAlwaysOutlastStepout == Spec => SpikesOutlastStepout
<1> DEFINE A == \A e \in errors :
                   running /\ state \in {"SYNC", "SPIK"} /\ StepClock(err + e) =>
                      outliers > 0 /\ calm = MinStep
<1>1. Init => SpikeInv
  BY DEF Init, SpikeInv
<1>2. TypeOK /\ SpikeInv /\ [Next]_vars => [A]_vars
  BY DEF TypeOK, Timers, SpikeInv, StepClock, StepoutOver
<1> QED
  BY <1>1, <1>2, TypeCorrect, SpikeInvInductive, PTL DEF Spec, SpikesOutlastStepout

\* InSyncIsClose in every execution, for every setting with both step thresholds
\* on, when no offset is wrong by more than Bound (TruechimersAreNearTheTruth
\* says why a majority of right sources sees to that): a daemon that says it is
\* synchronised is within the larger step threshold and Bound of the truth.
THEOREM SynchronisedIsClose == ASSUME Bounded PROVE Spec => []InSyncIsClose
<1>1. Init => errors = Errors /\ ClampInv /\ NearInv
  BY DEF Init, ClampInv, NearInv
<1>2. errors = Errors /\ [Next]_vars => (errors = Errors)'
  BY DEF Next, vars
<1>3. errors = Errors /\ TypeOK /\ ClampInv /\ NearInv /\ [Next]_vars => NearInv'
  BY NearInvInductive
<1>4. TypeOK /\ NearInv => InSyncIsClose
  <2> SUFFICES ASSUME TypeOK, NearInv, running, leap = "NOWARNING", ~disturbed
               PROVE  Magnitude(err) <= Close
    BY DEF InSyncIsClose
  <2>1. PICK pending \in {clock_offset, kernel, adjtime} : Near(pending)
    BY DEF NearInv
  <2>2. pending \in Small /\ err \in Int
    BY DEF TypeOK, Slews
  <2>3. pending \in -MaxBack .. MaxFwd
    BY <2>2 DEF Small, Over, Bounded
  <2> QED
    BY <2>1, <2>2, <2>3 DEF Near, Magnitude, Close, Larger
<1> QED
  BY <1>1, <1>2, <1>3, <1>4, TypeCorrect, ClampInvInductive, PTL DEF Spec
=============================================================================
