------------------------------ MODULE MCLifecycle ------------------------------
(***************************************************************************)
(* TLC instance of Lifecycle.  Two processes, so that the second boots     *)
(* from what the first left behind; two sessions in a process, so that the *)
(* second follows one that was closed, failed or refused.                  *)
(***************************************************************************)
EXTENDS Lifecycle

ASSUME BoundsReachTheHardCases == MaxBoots >= 2 /\ MaxSessions >= 2
=============================================================================
