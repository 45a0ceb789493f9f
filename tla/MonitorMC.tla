----------------------------- MODULE MonitorMC -----------------------------
(* An instance of Monitor: two clients, room for one or for two.            *)
EXTENDS Monitor, TLC

SomeLights == {{}, {"limited", "kod"}}
SomeDepths == {[min |-> 0, max |-> 1, inc |-> 2], [min |-> 1, max |-> 2, inc |-> 2],
               [min |-> 1, max |-> 2, inc |-> 0]}
SomeSteps == {-3, 3}
Symmetry == Permutations(Clients)
=============================================================================
