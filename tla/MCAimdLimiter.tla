--------------------------- MODULE MCAimdLimiter ---------------------------
(* Instances of AimdLimiter for TLC: one or two pods, a ceiling of four or *)
(* five for 20, and a floor of one for 2.                                  *)
EXTENDS AimdLimiter
CONSTANTS p1, p2, k1, k2
=============================================================================
