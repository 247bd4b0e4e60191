------------------------------- MODULE MCBridge -------------------------------
(***************************************************************************)
(* TLC instance of Bridge.  The environments: "unixfd" comes without a     *)
(* geometry and without a Bayer flag, "shm" with the configured geometry,  *)
(* which the camera need not keep to.                                      *)
(***************************************************************************)
EXTENDS Bridge

MCConfs ==
  {c \in ConfType :
     /\ c.transport = "unixfd" => c.env = None /\ ~c.bayer
     /\ c.transport = "shm" => c.env = Bound /\ c.bayer = c.debayer
     /\ ~c.advertise => ~c.debayer /\ ~c.normalize /\ ~c.bounded}

ASSUME BoundsReachTheHardCases ==
  /\ \E s, t \in Sizes : s <= Bound /\ Bound < t
  /\ MaxChanges >= 1 /\ MaxFlips >= 1
===============================================================================
