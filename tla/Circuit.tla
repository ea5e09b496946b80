------------------------------- MODULE Circuit -------------------------------
(***************************************************************************)
(* What a circuit breaker promises to show: it opens from closed or from a *)
(* failed test, is tested only after it has been open, and closes from a   *)
(* test and from nothing else. The gauge circuit_state of                  *)
(* src/src/docket-alarm/docket-alarm.policy.ts reports these three states. *)
(***************************************************************************)
VARIABLE state

Init == state = "closed"

Break    == state \in {"closed", "half"} /\ state' = "open"
HalfOpen == state = "open" /\ state' = "half"
Reset    == state = "half" /\ state' = "closed"

Spec == Init /\ [][Break \/ HalfOpen \/ Reset]_state
=============================================================================
