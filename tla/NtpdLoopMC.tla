---------------------------- MODULE NtpdLoopMC -----------------------------
(* Two tasks that may each run the daemon, and stop it.                    *)
EXTENDS NtpdLoop
CONSTANTS ta, tb
MCTasks == {ta, tb}
=============================================================================
