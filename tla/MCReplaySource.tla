---------------------------- MODULE MCReplaySource ----------------------------
(***************************************************************************)
(* TLC instance of ReplaySource.  Two sessions of two rows, so that a      *)
(* restart can hit the first session (seek) and the second (rebuild), and  *)
(* a frame lost or gained shifts another one; two further cycles.          *)
(***************************************************************************)
EXTENDS ReplaySource

ASSUME BoundsReachTheHardCases == Rows >= 2 /\ MaxRequests >= 1 /\ MaxCycles >= 1
===============================================================================
