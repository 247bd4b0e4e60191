----------------------------- MODULE MCPcapSource -----------------------------
(***************************************************************************)
(* TLC instance of PcapSource.  Passes of up to two frames, so that a      *)
(* restart can cut the first one short, which shows in the stamps two      *)
(* cycles later; a queue of one, which blocks the push after next.         *)
(***************************************************************************)
EXTENDS PcapSource

ASSUME BoundsReachTheHardCases == Frames >= 2 /\ MaxCycles >= 2 /\ MaxRequests >= 1 /\ Queue < Frames
===============================================================================
