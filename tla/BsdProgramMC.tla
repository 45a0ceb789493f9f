---------------------------- MODULE BsdProgramMC ----------------------------
(* Finite instances of BsdProgram: everything is a model value.            *)
EXTENDS BsdProgram
=============================================================================
