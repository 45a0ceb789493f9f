----------------------------- MODULE RestrictMC -----------------------------
(* An instance of Restrict: four addresses, rules that nest, two hosts.    *)
EXTENDS Restrict

Rule(a, mask, mflags, rflags) ==
    [addr |-> a, mask |-> mask, mflags |-> mflags, rflags |-> rflags]

SomeRules == {Rule(0, 0, 0, {"limited"}), Rule(2, 2, 0, {"ignore"}),
              Rule(2, 3, 0, {"noquery"}), Rule(3, 3, NTPONLY, {})}
SomeSourceRules == {[mflags |-> SOURCE, rflags |-> {"limited"}]}

Ask(op, a, mask, peerlimit, rflags) ==
    [op |-> op, addr |-> a, mask |-> mask, mflags |-> 0,
     ippeerlimit |-> peerlimit, rflags |-> rflags]

SomeRequests == {Ask("unflag", 0, 0, 0, {"limited"}),
                 Ask("remove", 0, 0, 0, {}),
                 Ask("remove", 2, 2, 0, {}),
                 Ask("flags", 2, 2, 0, {"limited"}),
                 Ask("unflag", 1, 3, NTPONLY + INTERFACE, {"ignore"})}
=============================================================================
