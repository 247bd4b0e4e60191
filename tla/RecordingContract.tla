-------------------------- MODULE RecordingContract --------------------------
(***************************************************************************)
(* What a recording session promises its caller, whatever threads it is    *)
(* made of: frames are accepted while it is open and never again; the      *)
(* files hold a prefix of them; and once closing has begun a verdict is    *)
(* reached, which calls the recording complete only when every accepted    *)
(* frame is in the files.  Nothing about the recording changes afterwards. *)
(***************************************************************************)
EXTENDS Naturals

VARIABLES phase, accepted, stored, verdict

contractVars == <<phase, accepted, stored, verdict>>

Init ==
  /\ phase = "open"
  /\ accepted = 0
  /\ stored = 0
  /\ verdict = "none"

Accept ==
  /\ phase = "open"
  /\ accepted' = accepted + 1
  /\ UNCHANGED <<phase, stored, verdict>>

Store ==
  /\ phase # "final"
  /\ stored < accepted
  /\ stored' = stored + 1
  /\ UNCHANGED <<phase, accepted, verdict>>

Close ==
  /\ phase = "open"
  /\ phase' = "closing"
  /\ UNCHANGED <<accepted, stored, verdict>>

Finalize ==
  /\ phase = "closing"
  /\ phase' = "final"
  /\ \/ stored = accepted /\ verdict' = "complete"
     \/ verdict' = "truncated"
  /\ UNCHANGED <<accepted, stored>>

Next == Accept \/ Store \/ Close \/ Finalize

Spec == Init /\ [][Next]_contractVars /\ WF_contractVars(Finalize)
=============================================================================
