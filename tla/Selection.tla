------------------------------ MODULE Selection ------------------------------
(***************************************************************************)
(* clock_select() of ntp_proto.c: from the sources that are fit, the       *)
(* intersection algorithm keeps the truechimers, the clustering algorithm  *)
(* the best of them, and what is left votes on the offset of the clock.    *)
(*                                                                         *)
(* A candidate is an element of peers[]: the peer's offset, `synch' (its   *)
(* root distance), `error' (its jitter) and flags.  Times are integers in  *)
(* a unit so large that the precision of the clock is 0.                   *)
(***************************************************************************)
EXTENDS Integers, FiniteSets, Folds

CONSTANTS MinClock, MinSane     \* sys_minclock, sys_minsane

ASSUME SelectionAssumption == MinClock \in Nat /\ MinSane \in Nat

Candidate == [id : Nat, offset : Int, synch : Nat \ {0}, error : Nat,
              flags : SUBSET {"TRUE", "PREFER"}]

LowEnd(c) == c.offset - c.synch
HighEnd(c) == c.offset + c.synch

Ends(cs) == {LowEnd(c) : c \in cs} \cup {HighEnd(c) : c \in cs}

(***************************************************************************)
(* The scans: n after all the ends up to v upwards, and down to v          *)
(* downwards.  Of ends that are equal the lower ones come first upwards,   *)
(* the upper ones downwards; doubles hardly are.                           *)
(***************************************************************************)
CountUp(cs, v) ==
    Cardinality({c \in cs : LowEnd(c) <= v}) - Cardinality({c \in cs : HighEnd(c) < v})

CountDown(cs, v) ==
    Cardinality({c \in cs : HighEnd(c) >= v}) - Cardinality({c \in cs : LowEnd(c) > v})

\* Where a scan stops with `allow' falsetickers allowed for.
IsLow(cs, allow, v) ==
    /\ v \in Ends(cs) /\ CountUp(cs, v) >= Cardinality(cs) - allow
    /\ \A w \in Ends(cs) : w < v => CountUp(cs, w) < Cardinality(cs) - allow

IsHigh(cs, allow, v) ==
    /\ v \in Ends(cs) /\ CountDown(cs, v) >= Cardinality(cs) - allow
    /\ \A w \in Ends(cs) : w > v => CountDown(cs, w) < Cardinality(cs) - allow

Found(cs, allow, low, high) == IsLow(cs, allow, low) /\ IsHigh(cs, allow, high) /\ high > low

\* Mutant: half of the sources may be falsetickers.
IsIntersectionOfHalf(cs, low, high) ==
    \E allow \in 0 .. Cardinality(cs) : 2 * allow <= Cardinality(cs) /\ Found(cs, allow, low, high)

\* The smallest number of falsetickers, less than half, that leaves an interval.
IsIntersection(cs, low, high) ==
    \E allow \in 0 .. Cardinality(cs) :
        /\ 2 * allow < Cardinality(cs)
        /\ Found(cs, allow, low, high)
        /\ \A less \in 0 .. allow - 1 :
              ~\E l, h \in Ends(cs) : Found(cs, less, l, h)

Truechimers(cs) ==
    {c \in cs :
        \/ "TRUE" \in c.flags
        \/ \E low, high \in Ends(cs) :
              IsIntersection(cs, low, high) /\ HighEnd(c) >= low /\ LowEnd(c) <= high}

-----------------------------------------------------------------------------
Sum(S, f(_)) == MapThenFoldSet(LAMBDA a, b : a + b, 0, f, LAMBDA T : CHOOSE x \in T : TRUE, S)
Product(S, f(_)) == MapThenFoldSet(LAMBDA a, b : a * b, 1, f, LAMBDA T : CHOOSE x \in T : TRUE, S)

\* The select jitter of a candidate, squared and times the number of others.
SelJit(cs, c) == Sum(cs, LAMBDA d : (d.offset - c.offset) * (d.offset - c.offset))

Worst(cs) ==
    LET metric(c) == SelJit(cs, c) * c.synch * c.synch
    IN  CHOOSE c \in cs : \A d \in cs : metric(d) <= metric(c)

\* No candidate is voted off any more: few are left, the worst is no worse
\* than the jitter of any, or it has the immunity idol.
Settled(cs) ==
    \/ Cardinality(cs) <= (IF MinClock > 1 THEN MinClock ELSE 1)
    \/ \A c \in cs : SelJit(cs, Worst(cs)) <= c.error * c.error * (Cardinality(cs) - 1)
    \/ Worst(cs).flags # {}

Survivors(candidates) ==
    LET cluster[cs \in SUBSET candidates] ==
            IF cs = {} \/ Settled(cs) THEN cs ELSE cluster[cs \ {Worst(cs)}]
    IN  cluster[candidates]

\* clock_combine(): the mean, weighted by the inverse of the root distance,
\* rounded either way
Combined(cs) ==
    LET weight(c) == Product(cs \ {c}, LAMBDA d : d.synch)
        total == Sum(cs, weight)
        z == Sum(cs, LAMBDA c : weight(c) * c.offset)
    IN  {z \div total, -((-z) \div total)}

\* sys_offset, when the fit sources are cs: the offset of a preferred survivor
\* counts alone; without enough survivors there is none.
SysOffsets(cs) ==
    LET left == Survivors(Truechimers(cs))
        preferred == {c \in left : "PREFER" \in c.flags}
    IN  CASE left = {} \/ Cardinality(left) < MinSane -> {}
          [] preferred # {} -> {c.offset : c \in preferred}
          [] OTHER          -> Combined(left)
=============================================================================
