------------------------------ MODULE OnWireMC ------------------------------
(* An instance of OnWire: enough timestamps for two exchanges of a client   *)
(* with a stray packet, and for one and a half between peers.               *)
EXTENDS OnWire

SomeStamps == [client |-> 9, active |-> 7]
=============================================================================
