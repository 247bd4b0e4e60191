---------------------------- MODULE MCHealthMonitor ----------------------------
(* Every device provider; ages are told apart up to one tick, an answer may be *)
(* late by two commands, a camera reconnects once.                             *)
EXTENDS HealthMonitor
=============================================================================
