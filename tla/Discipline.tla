------------------------------ MODULE Discipline ------------------------------
(***************************************************************************)
(* The clock discipline: local_clock() of ntp_loopfilter.c, its state      *)
(* machine, the steps and slews it gives the clock, and what clock_update()*)
(* of ntp_proto.c makes of its verdict, from run to run of the daemon.     *)
(*                                                                         *)
(* `err' is what the clock lacks to the true time.  clock_select() hands   *)
(* over an offset that is wrong by one of Errors.  A second is a unit of   *)
(* time and a slew moves the clock by one unit of offset in a second.  The *)
(* kernel discipline is on; frequency, jitter and the time constant, which *)
(* weigh the corrections, are left out.                                    *)
(***************************************************************************)
EXTENDS Integers

CONSTANTS
    Errors,             \* how wrong an offset may be
    Bound,              \* ... and how wrong it is if half of the sources are right
    MaxFwd, MaxBack,    \* clock_max_fwd, clock_max_back: the step thresholds
    MinStep,            \* clock_minstep: the stepout threshold
    Panic,              \* clock_panic; 0, as for the thresholds, means never
    Options,            \* the sets of options the daemon is started with
    Far,                \* how wrong the clock may be to begin with
    MaxDisturb, MaxFail, MaxRuns    \* bounds: changes of the clock from
                                    \* outside, failures to set it, restarts

ASSUME DisciplineAssumption ==
    /\ Errors \subseteq Int /\ Bound \in Nat
    /\ MaxFwd \in Nat /\ MaxBack \in Nat /\ MinStep \in Nat \ {0} /\ Panic \in Nat
    /\ Options \subseteq SUBSET {"g", "G", "q"}
    /\ Far \in Nat /\ MaxDisturb \in Nat /\ MaxFail \in Nat /\ MaxRuns \in Nat

VARIABLES
    errors,         \* Errors, which does not change: as a variable it is
                    \* computed once
    running,        \* the daemon is in its loop
    exited,         \* the daemon called exit(), which is the C library's here
    state,          \* the clock state
    mu,             \* the time since clock_epoch, to MinStep
    leap,           \* sys_leap
    freq_cnt,       \* the startup clamp
    allow_panic, force_step_once, mode_ntpdate, freq_set,
    clock_offset,   \* what the daemon is to slew ...
    kernel, adjtime,    \* ... the kernel's discipline, and adjtime()
    err,
    disturbs, fails, runs,
    options,        \* history: the options this run was started with
    updated,        \* history: this run took an update
    disturbed,      \* history: no update was taken since the last disturbance;
                    \* what adjtime() goes on with from an earlier run is one
    calm, outliers  \* history: since the last offset under the step threshold,
                    \* the time, to MinStep, and how many were over it, to 2

daemon == <<state, mu, leap, freq_cnt, allow_panic, force_step_once, mode_ntpdate,
            freq_set, clock_offset>>
counts == <<disturbs, fails, runs>>
history == <<options, updated, disturbed, calm, outliers>>
vars == <<errors, running, exited, daemon, kernel, adjtime, err, counts, history>>

Magnitude(x) == IF x < 0 THEN -x ELSE x
Larger(x, y) == IF x > y THEN x ELSE y
Lesser(x, y) == IF x < y THEN x ELSE y
Sign(x) == IF x > 0 THEN 1 ELSE IF x < 0 THEN -1 ELSE 0

Init ==
    /\ errors = Errors
    /\ running = FALSE /\ exited = FALSE
    /\ state = "NSET" /\ mu = 0 /\ leap = "NOTINSYNC" /\ freq_cnt = 0
    /\ allow_panic = FALSE /\ force_step_once = FALSE /\ mode_ntpdate = FALSE
    /\ freq_set = FALSE /\ clock_offset = 0 /\ kernel = 0 /\ adjtime = 0
    /\ err \in -Far .. Far
    /\ disturbs = 0 /\ fails = 0 /\ runs = 0
    /\ options = {} /\ updated = FALSE /\ disturbed = FALSE /\ calm = 0 /\ outliers = 0

\* getCmdOpts(), for -g, -G and -q; init_loopfilter(); and, but for -q,
\* loop_config(LOOP_DRIFTINIT), with a frequency from the file or without.  A
\* slew that an earlier run ordered of adjtime() may go on.
Start(asked, given) ==
    /\ ~running /\ ~exited /\ runs <= MaxRuns
    /\ running' = TRUE /\ runs' = runs + 1
    /\ allow_panic' = (allow_panic \/ "g" \in asked)
    /\ force_step_once' = (force_step_once \/ "G" \in asked)
    /\ mode_ntpdate' = (mode_ntpdate \/ "q" \in asked)
    /\ freq_set' = (freq_set \/ given)
    /\ freq_cnt' = MinStep
    /\ state' = IF freq_set' THEN "FSET" ELSE "NSET"
    /\ mu' = 0 /\ leap' = "NOTINSYNC" /\ clock_offset' = 0
    /\ kernel' = IF mode_ntpdate' THEN kernel ELSE 0
    /\ options' = asked /\ updated' = FALSE /\ disturbed' = FALSE
    /\ calm' = 0 /\ outliers' = 0
    /\ UNCHANGED <<exited, adjtime, err, disturbs, fails>>

RunEnds ==
    /\ running' = FALSE
    /\ options' = {} /\ updated' = FALSE /\ disturbed' = FALSE /\ calm' = 0 /\ outliers' = 0

\* finish_safe(): rtems_ntp_loopfilter_globals_fini() clears what Start does not
\* set, but for allow_panic, which no clean-up clears.
Stop ==
    /\ running
    /\ RunEnds
    /\ force_step_once' = FALSE /\ mode_ntpdate' = FALSE /\ freq_set' = FALSE
    /\ state' = "NSET" /\ freq_cnt' = 0 /\ clock_offset' = 0
    /\ UNCHANGED <<exited, mu, leap, allow_panic, kernel, adjtime, err, counts>>

-----------------------------------------------------------------------------
(* local_clock(), for the offset of the clock that clock_select() found      *)

\* Mutants: a clock that is ahead has no outliers; a transition leaves
\* clock_epoch alone; allow_panic is for the whole run.
OutlierBehind(offset) == (offset > MaxFwd /\ MaxFwd > 0) \/ force_step_once
ResetStateOnly(trans, offset) == state' = trans /\ clock_offset' = offset /\ UNCHANGED mu
PanicsUnlessAsked(offset) == Magnitude(offset) > Panic /\ Panic > 0 /\ "g" \notin options

Panics(offset) == Magnitude(offset) > Panic /\ Panic > 0 /\ ~allow_panic
Over(offset) == (offset > MaxFwd /\ MaxFwd > 0) \/ (-offset > MaxBack /\ MaxBack > 0)
Outlier(offset) == Over(offset) \/ force_step_once
StepoutOver == mu >= MinStep

\* Mutant: the jump is left out of the target time.
SetToItself(offset) == UNCHANGED <<err, fails>>

\* step_systime(), which may fail to set the clock; the caller does not look.
SetClock(offset) ==
    \/ err' = err - offset /\ UNCHANGED fails
    \/ fails < MaxFail /\ fails' = fails + 1 /\ UNCHANGED err

\* rstclock()
Reset(trans, offset) == state' = trans /\ clock_offset' = offset /\ mu' = 0

\* ntp_adjtime() at the end, unless the startup clamp is on
PassToKernel == kernel' = IF freq_cnt = 0 THEN clock_offset' ELSE kernel

Observe(offset) ==
    /\ calm' = IF Over(offset) THEN calm ELSE 0
    /\ outliers' = IF Over(offset) THEN Lesser(2, outliers + 1) ELSE 0
    /\ UNCHANGED <<runs, disturbs, options>>

\* ntpd.c alone turns exit() into the end of its task (rtems-bsd-program.h); in
\* the files of libntp and ntpd it ends the system, with all its programs.
Exits == RunEnds /\ exited' = TRUE

\* clock_update() exits.
PanicExit(offset) ==
    /\ Panics(offset)
    /\ Exits
    /\ UNCHANGED <<daemon, kernel, adjtime, err, counts>>

\* -q: set the clock and exit
SetAndExit(offset) ==
    /\ ~Panics(offset) /\ mode_ntpdate
    /\ allow_panic' = FALSE
    /\ Exits
    /\ IF Over(offset)
       THEN SetClock(offset) /\ UNCHANGED adjtime
       ELSE adjtime' = offset /\ UNCHANGED <<err, fails>>
    /\ UNCHANGED <<state, mu, leap, freq_cnt, force_step_once, mode_ntpdate, freq_set,
                   clock_offset, kernel, disturbs, runs>>

\* The offset is ignored: the first outlier of a synchronised clock, or any
\* offset before the stepout threshold in SPIK state (an outlier) and FREQ
\* state.
Ignore(offset) ==
    /\ ~Panics(offset) /\ ~mode_ntpdate
    /\ \/ state = "SYNC" /\ Outlier(offset)
       \/ state = "SPIK" /\ Outlier(offset) /\ ~StepoutOver
       \/ state = "FREQ" /\ ~StepoutOver
    /\ state' = IF state = "SYNC" THEN "SPIK" ELSE state
    /\ allow_panic' = FALSE /\ force_step_once' = FALSE /\ updated' = TRUE
    /\ Observe(offset)
    /\ UNCHANGED <<running, exited, mu, leap, freq_cnt, mode_ntpdate, freq_set, clock_offset,
                   kernel, adjtime, err, fails, disturbed>>

\* clock_update() clears all associations, and is not synchronised any more.
StepClock(offset) ==
    /\ ~Panics(offset) /\ ~mode_ntpdate /\ Outlier(offset)
    /\ \/ state \in {"NSET", "FSET"}
       \/ state \in {"SPIK", "FREQ"} /\ StepoutOver
    /\ SetClock(offset)
    /\ Reset(IF state = "NSET" THEN "FREQ" ELSE "SYNC", 0)
    /\ IF state = "NSET" THEN UNCHANGED kernel ELSE PassToKernel
    /\ leap' = "NOTINSYNC"
    /\ allow_panic' = FALSE /\ force_step_once' = FALSE /\ updated' = TRUE
    /\ disturbed' = (disturbed /\ fails' # fails)
    /\ Observe(offset)
    /\ UNCHANGED <<running, exited, freq_cnt, mode_ntpdate, freq_set, adjtime>>

\* An offset close to 0 (under CLOCK_FLOOR) ends the startup clamp.
Slew(offset) ==
    /\ ~Panics(offset) /\ ~mode_ntpdate /\ ~Outlier(offset)
    /\ state = "FREQ" => StepoutOver
    /\ IF state = "NSET"
       THEN adjtime' = offset /\ Reset("FREQ", offset) /\ UNCHANGED freq_cnt
       ELSE /\ Reset("SYNC", offset) /\ UNCHANGED adjtime
            /\ freq_cnt' = IF offset = 0 THEN 0 ELSE freq_cnt
    /\ kernel' = IF freq_cnt' = 0 THEN offset ELSE kernel
    /\ leap' = "NOWARNING"
    /\ allow_panic' = FALSE /\ updated' = TRUE
    /\ disturbed' = (state # "NSET" /\ adjtime # 0)
    /\ Observe(offset)
    /\ UNCHANGED <<running, exited, force_step_once, mode_ntpdate, freq_set, err, fails>>

Update(offset) ==
    /\ running
    /\ PanicExit(offset) \/ SetAndExit(offset) \/ Ignore(offset) \/ StepClock(offset)
       \/ Slew(offset)

-----------------------------------------------------------------------------
\* A second passes: adj_host_clock(), the kernel, and what adjtime() began.
\* The daemon's slew goes through adjtime(), where it replaces what is left.
DaemonSlew == IF running /\ state = "SYNC" /\ freq_cnt > 0 THEN Sign(clock_offset) ELSE 0

Second ==
    /\ ~exited
    /\ freq_cnt' = IF running /\ state = "SYNC" /\ freq_cnt > 0 THEN freq_cnt - 1 ELSE freq_cnt
    /\ clock_offset' = clock_offset - DaemonSlew
    /\ adjtime' = IF DaemonSlew # 0 THEN 0 ELSE adjtime - Sign(adjtime)
    /\ kernel' = kernel - Sign(kernel)
    /\ err' = err - Sign(kernel) - (IF DaemonSlew # 0 THEN DaemonSlew ELSE Sign(adjtime))
    /\ IF running
       THEN mu' = Lesser(MinStep, mu + 1) /\ calm' = Lesser(MinStep, calm + 1)
       ELSE UNCHANGED <<mu, calm>>
    /\ UNCHANGED <<running, exited, state, leap, allow_panic, force_step_once, mode_ntpdate,
                   freq_set, counts, options, updated, disturbed, outliers>>

\* The clock is set by something else, or was drifting.
Disturb(e) ==
    /\ ~exited /\ disturbs < MaxDisturb
    /\ disturbs' = disturbs + 1
    /\ err' = e /\ disturbed' = running
    /\ UNCHANGED <<running, exited, daemon, kernel, adjtime, fails, runs, options, updated, calm,
                   outliers>>

Next ==
    /\ UNCHANGED errors
    /\ \/ \E asked \in Options, given \in BOOLEAN : Start(asked, given)
       \/ Stop
       \/ \E e \in errors : Update(err + e)
       \/ Second
       \/ \E e \in -Far .. Far : Disturb(e)

Spec == Init /\ [][Next]_vars

\* Time passes, and sources go on to be polled.
FairSpec ==
    /\ Spec
    /\ WF_vars(UNCHANGED errors /\ Second)
    /\ WF_vars(UNCHANGED errors /\ \E e \in errors : Update(err + e))

-----------------------------------------------------------------------------
\* The step threshold and an error more: as far as the clock is from the truth
\* while offsets are under the threshold.
Close == Larger(MaxFwd, MaxBack) + Bound

\* An offset under the step thresholds.
Small == {offset \in Int : ~Over(offset)}

Flags ==
    /\ running \in BOOLEAN /\ exited \in BOOLEAN
    /\ allow_panic \in BOOLEAN /\ force_step_once \in BOOLEAN /\ mode_ntpdate \in BOOLEAN
    /\ freq_set \in BOOLEAN /\ updated \in BOOLEAN /\ disturbed \in BOOLEAN
    /\ state \in {"NSET", "FSET", "SPIK", "FREQ", "SYNC"}
    /\ leap \in {"NOTINSYNC", "NOWARNING"}
    /\ options \in Options \cup {{}}

Timers ==
    /\ mu \in 0 .. MinStep /\ freq_cnt \in 0 .. MinStep
    /\ disturbs \in 0 .. MaxDisturb /\ fails \in 0 .. MaxFail /\ runs \in 0 .. MaxRuns + 1
    /\ calm \in 0 .. MinStep /\ outliers \in 0 .. 2

Slews ==
    clock_offset \in Small /\ kernel \in Small /\ adjtime \in Small /\ err \in Int

TypeOK == errors \subseteq Int /\ Flags /\ Timers /\ Slews

\* While the daemon tells its clients that it is synchronised, its clock is
\* close to the truth, though a minority of its sources may lie, updates may be
\* ignored and setting the clock may fail; unless the clock was changed by
\* something else and no update was taken since.
InSyncIsClose ==
    running /\ leap = "NOWARNING" /\ ~disturbed => Magnitude(err) <= Close

\* Once the clock is synchronised it is stepped only when offsets were over the
\* step threshold for the whole stepout time, and more than one of them
\* (ntp_loopfilter.c:696, "a single spike ... is always suppressed").
SpikesOutlastStepout ==
    [][\A e \in errors :
         running /\ state \in {"SYNC", "SPIK"} /\ StepClock(err + e) =>
            outliers > 0 /\ calm = MinStep]_vars

\* Only the first update a run takes can move the clock by more than the panic
\* threshold, even with -g (ntp_loopfilter.c:541).
PanicOnce ==
    [][updated /\ disturbs' = disturbs =>
         Panic = 0 \/ Magnitude(err' - err) <= Larger(Panic, 2)]_vars

\* Once nothing changes the clock from outside any more, it comes close to the
\* truth and stays there, or the daemon stops.
Converges == <>[](~running \/ Magnitude(err) <= Close)

\* "The allow_panic defaults to FALSE, so the first panic will exit"
\* (ntp_loopfilter.c:544): a run without -g ends when the offset of its first
\* update exceeds the panic threshold.
FirstPanicExits ==
    [][\A e \in errors :
         /\ running /\ Update(err + e)
         /\ "g" \notin options /\ Panic > 0 /\ Magnitude(err + e) > Panic
         => ~running']_vars
=============================================================================
