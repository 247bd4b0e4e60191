---------------------------- MODULE PlaybackControl ----------------------------
(***************************************************************************)
(* The policy of a playback's control surface: PlaybackState of            *)
(* cam_driver/playback.py.  Three threads meet in it: the main loop serves *)
(* requests, the source's feeder stops at the pacing point while paused,   *)
(* and the start gate's timer releases a playback that was booted paused.  *)
(*                                                                         *)
(* Each operator is the part of an action that concerns this state.  What  *)
(* the lock covers is one step; who may hold it for longer is the source's *)
(* business (ReplaySource).  Pace, position and speed are left out: they   *)
(* decide when a frame is due, not whether it is delivered.                *)
(***************************************************************************)
EXTENDS Naturals

VARIABLES
  state,     \* "playing", "paused" or "finished"
  loop,
  pending,   \* _restart_pending
  preroll,   \* _preroll_pending: the first frame of a paused boot goes out
  refusal,   \* last_error is set
  armed,     \* _gate_armed
  gate,      \* the gate's timer thread: not running, waiting, or past its checks
  touched    \* history: a request came while the timer was still waiting

policyVars == <<state, loop, pending, preroll, refusal>>
gateVars == <<armed, gate, touched>>

Ops == {"pause", "resume", "restart", "set_loop"}

ControlTypeOK ==
  /\ state \in {"playing", "paused", "finished"}
  /\ loop \in BOOLEAN /\ pending \in BOOLEAN /\ preroll \in BOOLEAN
  /\ refusal \in BOOLEAN /\ armed \in BOOLEAN /\ touched \in BOOLEAN
  /\ gate \in {"off", "waiting", "resume"}

\* Booted playing or paused; a paused one may have a gate, whose instant may
\* already be past: then it is released at once and keeps its preroll.
ControlInit ==
  /\ \E boot \in {"playing", "paused"}, when \in {"never", "past", "future"} :
       /\ state = IF when = "past" THEN "playing" ELSE boot
       /\ preroll = (boot = "paused")
       /\ armed = (boot = "paused" /\ when = "future")
  /\ gate = IF armed THEN "waiting" ELSE "off"
  /\ loop \in BOOLEAN
  /\ pending = FALSE /\ refusal = FALSE /\ touched = FALSE

-------------------------------------------------------------------------------
(* Requests. *)

\* Before anything else, and without the lock: the schedule is called off.
CallOffGate ==
  /\ armed' = FALSE
  /\ touched' = (touched \/ gate = "waiting")
  /\ gate' = gate

\* Refused, or already so: the reply is all there is.
AlreadySo(op) ==
  \/ op # "restart" /\ state = "finished"
  \/ op = "pause" /\ state = "paused"
  \/ op = "resume" /\ state = "playing"

\* What a request does under the lock.  A restart of a finished playback plays
\* from the top; otherwise it leaves the state as it was.
Serve(op) ==
  IF AlreadySo(op) THEN UNCHANGED policyVars
  ELSE /\ state' = CASE op = "pause" -> "paused"
                     [] op = "resume" -> "playing"
                     [] op = "restart" /\ state = "finished" -> "playing"
                     [] OTHER -> state
       /\ loop' = IF op = "set_loop" THEN ~loop ELSE loop
       /\ pending' = (pending \/ op = "restart")
       /\ refusal' = FALSE
       /\ preroll' = preroll

\* The restart hook raised.
RefuseRestart == pending' = FALSE /\ refusal' = TRUE /\ UNCHANGED <<state, loop, preroll>>

-------------------------------------------------------------------------------
(* The feeder, and the source's restart mechanism. *)

TakeRestart == pending' = FALSE /\ UNCHANGED <<state, loop, preroll, refusal>>

TakePreroll == preroll' = FALSE /\ UNCHANGED <<state, loop, pending, refusal>>

\* wait_if_paused: does it go on waiting, and with what verdict does it return.
StaysHeld(stop) == state = "paused" /\ ~stop /\ ~pending

Verdict(stop) == CASE stop -> "stop" [] ~stop /\ pending -> "restart" [] OTHER -> "resume"

\* The verdict "restart" consumes the flag.
TakeVerdict(stop) == IF Verdict(stop) = "restart" THEN TakeRestart ELSE UNCHANGED policyVars

MarkFinished ==
  IF state = "finished" THEN UNCHANGED policyVars
  ELSE state' = "finished" /\ refusal' = FALSE /\ UNCHANGED <<loop, pending, preroll>>

-------------------------------------------------------------------------------
(* The start gate's timer thread. *)

\* Looks at the flag and at the state without the lock ...
GateFires ==
  /\ gate = "waiting"
  /\ gate' = IF armed /\ state = "paused" THEN "resume" ELSE "off"
  /\ armed' = FALSE
  /\ UNCHANGED <<touched, policyVars>>

\* ... and makes its request.
GateResumes ==
  /\ gate = "resume"
  /\ gate' = "off" /\ armed' = FALSE /\ touched' = touched
  /\ Serve("resume")

\* A timer that has fired cannot be cancelled.
CancelGate ==
  /\ armed' = FALSE
  /\ gate' = IF gate = "waiting" THEN "off" ELSE gate
  /\ touched' = touched
===============================================================================
