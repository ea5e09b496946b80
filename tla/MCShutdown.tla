----------------------------- MODULE MCShutdown -----------------------------
(* An instance of Shutdown for TLC: one request may be in flight while     *)
(* another one still arrives.                                              *)
EXTENDS Shutdown
CONSTANTS r1, r2
=============================================================================
