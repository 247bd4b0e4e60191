---------------------------- MODULE MCPtsTimeline ----------------------------
(***************************************************************************)
(* TLC instance of PtsTimeline: the two ways a recording keeps its own     *)
(* frames, and the forced re-encode, which rides the decode branch.        *)
(***************************************************************************)
EXTENDS PtsTimeline

MCModes == {"raw", "copy", "reencode"}
=============================================================================
