---------------------------- MODULE DisciplineMC ----------------------------
(* An instance of Discipline whose offsets are what Selection makes of up   *)
(* to three sources, their offsets written relative to the true one.  At    *)
(* most half of them lie: of those here the third.                          *)
EXTENDS Discipline, Selection

SomeOptions == {{}, {"g"}, {"q"}, {"g", "G"}}

Source(i, offset, synch, flags) ==
    [id |-> i, offset |-> offset, synch |-> synch, error |-> 1, flags |-> flags]

Truthful(i) == {Source(i, o, 1, {}) : o \in -1 .. 1}
Any(i) == {Source(i, o, s, fs) : o \in -5 .. 5, s \in 1 .. 2, fs \in {{}, {"PREFER"}}}

Casts ==
    {{a} : a \in Truthful(1)} \cup {{a, b} : a \in Truthful(1), b \in Any(3)} \cup
    {{a, b, c} : a \in Truthful(1), b \in Truthful(2), c \in Any(3)}

SelectedErrors == UNION {SysOffsets(cs) : cs \in Casts}
=============================================================================
