------------------------------ MODULE MCUvcFrames ------------------------------
(* Four frames, so that a FID comes back twice, of three payloads, so that there is a *)
(* middle; two URBs to a bulk payload; two losses.                                *)
EXTENDS UvcFrames
=============================================================================
