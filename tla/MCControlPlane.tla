----------------------------- MODULE MCControlPlane -----------------------------
(* Two dashboards, two processes, two planes, three values of the settings of which *)
(* one is deployed.                                                                 *)
EXTENDS ControlPlane
=============================================================================
