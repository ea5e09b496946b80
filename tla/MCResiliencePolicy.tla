------------------------- MODULE MCResiliencePolicy -------------------------
(* An instance of ResiliencePolicy for TLC: two search slots and the login *)
(* are enough for a test, a call it halts and a late failure beside it.    *)
EXTENDS ResiliencePolicy
CONSTANTS s1, s2
=============================================================================
