----------------------------- MODULE MCReconnect -----------------------------
(* Two losses of the camera and two attempts that fail with it there: a loss  *)
(* during a reconnect, a failure after a failure, and a stop at any step.     *)
EXTENDS Reconnect
=============================================================================
