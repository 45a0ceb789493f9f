--------------------------- MODULE BlockingService ---------------------------
(***************************************************************************)
(* What the blocking worker promises the callers of                        *)
(* queue_blocking_request: a request is answered at most once, it never    *)
(* leaves the worker's hands unanswered, and the one exception is the      *)
(* requests queued to a worker that was already told to leave: they are    *)
(* lost when it goes.  What a worker leaves behind may end the program     *)
(* later on, but not before a first worker had answered.                   *)
(***************************************************************************)
CONSTANT Requests

VARIABLES
  status,    \* of each request: new, waiting, answered or lost
  leaving    \* the worker was told to leave and is not yet replaceable

Init == status = [r \in Requests |-> "new"] /\ leaving = FALSE

Ask(r) ==
  /\ status[r] = "new"
  /\ status' = [status EXCEPT ![r] = "waiting"]
  /\ UNCHANGED leaving

Answer(r) ==
  /\ status[r] = "waiting"
  /\ status' = [status EXCEPT ![r] = "answered"]
  /\ UNCHANGED leaving

Dismiss ==
  /\ ~leaving /\ leaving' = TRUE
  /\ \A r \in Requests : status[r] # "waiting"
  /\ UNCHANGED status

Go ==
  /\ leaving /\ leaving' = FALSE
  /\ status' = [r \in Requests |->
                  IF status[r] = "waiting" THEN "lost" ELSE status[r]]

Die ==
  /\ \E r \in Requests : status[r] = "answered"
  /\ leaving' = FALSE
  /\ status' = [r \in Requests |->
                  IF status[r] = "waiting" THEN "lost" ELSE status[r]]

Next == Dismiss \/ Go \/ Die \/ \E r \in Requests : Ask(r) \/ Answer(r)

Spec == Init /\ [][Next]_<<status, leaving>>
=============================================================================
