--------------------------- MODULE AssociationsMC ---------------------------
(* Instances of Associations.                                              *)
EXTENDS Associations
CONSTANTS h1, h2, h3, p1

AllHosts == {h1, h2, h3}
OnePool == {p1}

Configuration(hosts, lines, honest) == [hosts |-> hosts, lines |-> lines, honest |-> honest]
SomeConfigurations ==
    {Configuration({}, 0, AllHosts), Configuration({}, 2, AllHosts),
     Configuration({h1}, 1, AllHosts), Configuration({h2}, 0, {h1, h2})}
=============================================================================
