-------------------------- MODULE MCRecordingSession --------------------------
(***************************************************************************)
(* TLC instance of RecordingSession.  The assumption keeps the bounds big  *)
(* enough for the cases the properties are about: a source that offers     *)
(* more than the appsrc and the frame in flight can hold, so that a push   *)
(* blocks or is dropped; a row queue that overflows; a file that rotates.  *)
(***************************************************************************)
EXTENDS RecordingSession

ASSUME BoundsReachTheHardCases ==
  /\ MaxFrames >= MaxQueue + 2
  /\ MaxFrames > QueueMax
  /\ MaxFiles >= 2
=============================================================================
