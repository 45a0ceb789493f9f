---------------------------- MODULE WorkThreadMC ----------------------------
(* Finite instances of WorkThread: requests are model values, and the      *)
(* rings start empty and grow by one slot.                                 *)
EXTENDS WorkThread
=============================================================================
