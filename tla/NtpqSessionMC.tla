---------------------------- MODULE NtpqSessionMC ----------------------------
(* Finite instances of NtpqSession: tasks are model values.                *)
EXTENDS NtpqSession, TLC

Symmetry == Permutations(Callers)
=============================================================================
