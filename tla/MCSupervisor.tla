------------------------------ MODULE MCSupervisor ------------------------------
(* Two plugins, of which one is restarted; live source and playback; a backoff   *)
(* and a stagger of one tick; the core's grace is longer than the plugins'.      *)
EXTENDS Supervisor
=============================================================================
