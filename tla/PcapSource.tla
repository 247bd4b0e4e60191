------------------------------ MODULE PcapSource ------------------------------
(***************************************************************************)
(* A USB capture played back: cam_driver/sources/pcapsrc.py over the       *)
(* policy of PlaybackControl.                                              *)
(*                                                                         *)
(* feeder   its thread: reads the frames of one pass over the capture      *)
(*          after the other, paces them and delivers them                  *)
(* mini     MJPEG only: the mini-pipeline between the feeder and the       *)
(*          recorder, a bounded queue that ends with an end of stream      *)
(* main     the main loop: requests, and what the mini-pipeline posts      *)
(* stop     in the signal handler, or from the main loop                   *)
(* gate     the timer of PlaybackControl                                   *)
(*                                                                         *)
(* A capture gives the same frames on every pass (UvcFrames); they are one *)
(* unit of time apart here.                                                *)
(***************************************************************************)
EXTENDS PlaybackControl, Sequences

CONSTANTS
  Frames,       \* bound: frames of a pass
  Queue,        \* buffers the mini-pipeline holds before a push blocks
  MaxCycles,    \* bound: loop wraps and restarts
  MaxRequests,  \* bound: requests of the operator
  MaxErrors     \* bound: errors of the mini-pipeline

ASSUME PcapAssumption ==
  /\ Frames \in Nat /\ Queue \in Nat \ {0}
  /\ MaxCycles \in Nat /\ MaxRequests \in Nat /\ MaxErrors \in Nat

VARIABLES
  capture,   \* [mjpeg, frames, corrupt, decodes]: corrupt passes end in a ValueError
  feeder,    \* where the feeder is
  idx,       \* frames of this pass it has read
  cycle, span,
  eosSent,
  finished, failed,
  inside,    \* stamps of the buffers in the mini-pipeline, oldest first
  mini,      \* "playing", "eos" (sent after the buffers), "drained", "error" or "null"
  bus,
  mainAt, stop, requests, errors,
  last,      \* history: stamp of the last frame that came out
  early,     \* history: the span was measured on a pass that a restart cut short
  spare      \* history: one frame may still go out although paused

feederVars == <<feeder, idx, cycle, span, eosSent>>
endVars == <<finished, failed>>
miniVars == <<inside, mini, bus>>
mainVars == <<mainAt, stop, requests, errors>>
history == <<last, early, spare>>
pcapVars == <<policyVars, gateVars, capture, feederVars, endVars, miniVars, mainVars, history>>

FeederPoint == {"read", "hold", "poll", "pace", "deliver", "restart", "wrap", "feedEnds",
                "drain", "late", "end", "mark", "off"}

\* The stamp of frame n of the cycle.
Stamp(n) == cycle * span + n

PcapTypeOK ==
  /\ ControlTypeOK
  /\ capture \in [mjpeg : BOOLEAN, frames : 0..Frames, corrupt : BOOLEAN, decodes : BOOLEAN]
  /\ feeder \in FeederPoint /\ idx \in 0..capture.frames
  /\ cycle \in 0..(MaxCycles + 1) /\ span \in Nat /\ eosSent \in BOOLEAN
  /\ finished \in BOOLEAN /\ failed \in BOOLEAN
  /\ inside \in Seq(Nat) /\ Len(inside) <= Queue
  /\ mini \in {"playing", "eos", "drained", "error", "null"} /\ bus \subseteq {"eos", "error"}
  /\ mainAt \in {"idle", "waiting"} /\ stop \in {"no", "join", "done"}
  /\ requests \in 0..MaxRequests /\ errors \in 0..MaxErrors
  /\ last \in Nat /\ early \in BOOLEAN /\ spare \in BOOLEAN

Stopped == stop # "no"

\* open, configure and start.  A capture without a frame is an error of every pass.
PcapInit ==
  /\ ControlInit
  /\ capture \in [mjpeg : BOOLEAN, frames : 0..Frames, corrupt : BOOLEAN, decodes : BOOLEAN]
  /\ capture.frames = 0 => capture.corrupt
  /\ ~capture.mjpeg => capture.decodes
  /\ feeder = "read" /\ idx = 0 /\ cycle = 0 /\ span = 0 /\ eosSent = FALSE
  /\ finished = FALSE /\ failed = FALSE
  /\ inside = <<>> /\ bus = {}
  /\ mini = (IF capture.mjpeg THEN "playing" ELSE "null")
  /\ mainAt = "idle" /\ stop = "no" /\ requests = 0 /\ errors = 0
  /\ last = 0 /\ early = FALSE /\ spare = TRUE

-------------------------------------------------------------------------------
(* The feeder. *)

FeederOnly == UNCHANGED <<gateVars, capture, bus, mainVars>>
GoOn == UNCHANGED <<policyVars, cycle, span, eosSent, endVars, inside, mini, history>>

\* The next frame of the pass, or its end.
Read ==
  /\ feeder = "read" /\ idx < capture.frames
  /\ IF Stopped \/ failed THEN feeder' = "end" /\ UNCHANGED idx
     ELSE feeder' = "hold" /\ idx' = idx + 1
  /\ GoOn /\ FeederOnly

PassEnds ==
  /\ feeder = "read" /\ idx = capture.frames /\ ~capture.corrupt
  /\ feeder' = "wrap"
  /\ UNCHANGED idx /\ GoOn /\ FeederOnly

PassRaises ==
  /\ feeder = "read" /\ idx = capture.frames /\ capture.corrupt
  /\ failed' = TRUE
  /\ feeder' = "end"
  /\ UNCHANGED <<policyVars, idx, cycle, span, eosSent, finished, inside, mini, history>>
  /\ FeederOnly

AfterHold(resume) ==
  feeder' = CASE Verdict(Stopped) = "stop" -> "end"
              [] Verdict(Stopped) = "restart" -> "restart"
              [] OTHER -> resume

Held == UNCHANGED <<idx, cycle, span, eosSent, endVars, inside, mini, history>>

\* The preview of a paused boot goes straight out; else the first hold.
Hold ==
  /\ feeder = "hold"
  /\ IF preroll THEN TakePreroll /\ feeder' = "deliver"
     ELSE ~StaysHeld(Stopped) /\ TakeVerdict(Stopped) /\ AfterHold("poll")
  /\ Held /\ FeederOnly

\* A restart that came since is taken, too.
Poll ==
  /\ feeder = "poll"
  /\ TakeRestart
  /\ feeder' = IF pending THEN "restart" ELSE "pace"
  /\ Held /\ FeederOnly

\* Fault: a pause that comes during the sleep is not seen.
PaceAndGo ==
  /\ feeder = "pace"
  /\ feeder' = "deliver"
  /\ UNCHANGED policyVars /\ Held /\ FeederOnly

\* Its time has come, or a stop cut the sleep; a pause that came meanwhile holds it here.
Pace ==
  /\ feeder = "pace"
  /\ ~StaysHeld(Stopped) /\ TakeVerdict(Stopped) /\ AfterHold("deliver")
  /\ Held /\ FeederOnly

Delivered ==
  /\ feeder' = "read"
  /\ spare' = (spare /\ state # "paused")
  /\ UNCHANGED <<policyVars, idx, cycle, span, eosSent, endVars, mini, early>>
  /\ FeederOnly

\* The consumer's callback.
DeliverRaw ==
  /\ feeder = "deliver" /\ ~capture.mjpeg
  /\ last' = Stamp(idx)
  /\ UNCHANGED inside /\ Delivered

\* Pushed with its stamp; a full queue blocks.
Push ==
  /\ feeder = "deliver" /\ capture.mjpeg /\ mini # "null" /\ Len(inside) < Queue
  /\ inside' = Append(inside, Stamp(idx))
  /\ UNCHANGED last /\ Delivered

\* Flushing: the stamp is taken back.
PushRejected ==
  /\ feeder = "deliver" /\ capture.mjpeg /\ mini = "null"
  /\ UNCHANGED <<inside, last>> /\ Delivered

\* One cycle, measured on the first pass, as far as it got.
Measured == IF span = 0 THEN idx ELSE span

\* The next cycle is shifted past this one.
NextCycle ==
  /\ cycle < MaxCycles \/ (cycle = MaxCycles /\ (Stopped \/ failed))
  /\ cycle' = cycle + 1 /\ span' = Measured
  /\ idx' = 0
  /\ feeder' = "read"

Wraps == UNCHANGED <<policyVars, eosSent, endVars, inside, mini, last, spare>>

Restart ==
  /\ feeder = "restart"
  /\ NextCycle
  /\ early' = (early \/ (span = 0 /\ idx < capture.frames))
  /\ Wraps /\ FeederOnly

\* Fault: a loop starts over with the stamps of the cycle that ended.
WrapUnshifted ==
  /\ feeder = "wrap" /\ loop
  /\ span' = Measured /\ cycle' = cycle /\ idx' = 0 /\ feeder' = "read"
  /\ UNCHANGED early /\ Wraps /\ FeederOnly

Wrap ==
  /\ feeder = "wrap" /\ loop
  /\ NextCycle
  /\ UNCHANGED early /\ Wraps /\ FeederOnly

FeedEnds ==
  /\ feeder = "wrap" /\ ~loop
  /\ span' = Measured
  /\ feeder' = "feedEnds"
  /\ UNCHANGED <<policyVars, idx, cycle, eosSent, endVars, inside, mini, history>> /\ FeederOnly

\* Fault: it is over as soon as the last frame is pushed.
SendNoEos ==
  /\ feeder = "feedEnds"
  /\ feeder' = "end"
  /\ UNCHANGED <<policyVars, idx, cycle, span, eosSent, endVars, inside, mini, history>> /\ FeederOnly

\* The mini-pipeline is told, and drains.
SendEos ==
  /\ feeder = "feedEnds"
  /\ LET sends == capture.mjpeg /\ ~Stopped /\ ~failed /\ mini # "null"
     IN /\ eosSent' = sends
        /\ mini' = IF sends /\ mini = "playing" THEN "eos" ELSE mini
        /\ feeder' = IF sends THEN "drain" ELSE "end"
  /\ UNCHANGED <<policyVars, idx, cycle, span, endVars, inside, history>> /\ FeederOnly

DrainEnds ==
  /\ feeder = "drain" /\ (finished \/ Stopped)
  /\ feeder' = "end"
  /\ UNCHANGED idx /\ GoOn /\ FeederOnly

\* Ten seconds without an answer: it has failed.
DrainTimesOut ==
  /\ feeder = "drain" /\ ~finished /\ ~Stopped
  /\ feeder' = "late"
  /\ UNCHANGED idx /\ GoOn /\ FeederOnly

DrainFails ==
  /\ feeder = "late"
  /\ failed' = TRUE /\ eosSent' = FALSE
  /\ feeder' = "end"
  /\ UNCHANGED <<policyVars, idx, cycle, span, finished, inside, mini, history>> /\ FeederOnly

\* Unless the bus tells, the feeder's end is the end.
FeedOver ==
  /\ feeder = "end"
  /\ finished' = (finished \/ ~eosSent)
  /\ feeder' = "mark"
  /\ UNCHANGED <<policyVars, idx, cycle, span, eosSent, failed, inside, mini, history>> /\ FeederOnly

Mark ==
  /\ feeder = "mark"
  /\ IF (finished \/ failed) /\ state # "finished"
     THEN state' = "finished" /\ refusal' = failed /\ UNCHANGED <<loop, pending, preroll>>
     ELSE UNCHANGED policyVars
  /\ feeder' = "off"
  /\ Held /\ FeederOnly

FeederPaces == Read \/ Hold \/ Poll \/ Pace \/ DeliverRaw \/ Push \/ PushRejected
FeederTurns == PassEnds \/ PassRaises \/ Restart \/ Wrap \/ FeedEnds
FeederCloses == SendEos \/ DrainEnds \/ DrainTimesOut \/ DrainFails \/ FeedOver \/ Mark
Feeder == FeederPaces \/ FeederTurns \/ FeederCloses

-------------------------------------------------------------------------------
(* The mini-pipeline. *)

MiniOnly ==
  UNCHANGED <<policyVars, gateVars, capture, feederVars, endVars, mainAt, stop, requests, early,
              spare>>

\* The recorder's branch hands on a buffer, with its stamp.
Record ==
  /\ inside # <<>> /\ mini \in {"playing", "eos"}
  /\ last' = Head(inside) /\ inside' = Tail(inside)
  /\ UNCHANGED <<mini, bus, errors>> /\ MiniOnly

\* Both branches are at the end; one that cannot parse never gets there.
Drain ==
  /\ mini = "eos" /\ inside = <<>> /\ capture.decodes
  /\ mini' = "drained" /\ bus' = bus \cup {"eos"}
  /\ UNCHANGED <<inside, errors, last>> /\ MiniOnly

MiniError ==
  /\ mini \in {"playing", "eos"} /\ errors < MaxErrors
  /\ errors' = errors + 1
  /\ mini' = "error" /\ bus' = bus \cup {"error"}
  /\ UNCHANGED <<inside, last>> /\ MiniOnly

-------------------------------------------------------------------------------
(* The main loop, and a stop. *)

MainOnly == UNCHANGED <<capture, feederVars, inside, mini, errors, last, early>>

OnMiniEos ==
  /\ mainAt = "idle" /\ stop # "join" /\ "eos" \in bus
  /\ bus' = bus \ {"eos"}
  /\ finished' = TRUE
  /\ UNCHANGED <<policyVars, gateVars, failed, mainAt, stop, requests, spare>> /\ MainOnly

OnMiniError ==
  /\ mainAt = "idle" /\ stop # "join" /\ "error" \in bus
  /\ bus' = bus \ {"error"}
  /\ finished' = TRUE /\ failed' = TRUE
  /\ UNCHANGED <<policyVars, gateVars, mainAt, stop, requests, spare>> /\ MainOnly

\* Nothing can be asked of a capture that has ended.  A restart waits for the feeder.
Ask(op) ==
  /\ mainAt = "idle" /\ stop # "join" /\ requests < MaxRequests
  /\ requests' = requests + 1
  /\ CallOffGate
  /\ IF state = "finished" THEN UNCHANGED <<policyVars, mainAt, spare>>
     ELSE /\ Serve(op)
          /\ mainAt' = IF op = "restart" THEN "waiting" ELSE "idle"
          /\ spare' = IF op = "pause" /\ state = "playing" THEN preroll \/ feeder = "deliver" ELSE spare
  /\ UNCHANGED <<endVars, bus, stop>> /\ MainOnly

\* It was taken, or a second has passed.
Answer ==
  /\ mainAt = "waiting" /\ stop # "join"
  /\ mainAt' = "idle"
  /\ UNCHANGED <<policyVars, gateVars, endVars, bus, stop, requests, spare>> /\ MainOnly

\* Fault: the mini-pipeline is not flushed.
StopUnflushed ==
  /\ stop = "no" /\ stop' = "join"
  /\ CancelGate
  /\ UNCHANGED <<policyVars, capture, feederVars, endVars, inside, mini, bus, mainAt, requests,
                  errors, history>>

\* The sleeps end; the mini-pipeline is flushed, which frees a push that blocks.
Stop ==
  /\ stop = "no" /\ stop' = "join"
  /\ CancelGate
  /\ inside' = <<>> /\ bus' = {} /\ mini' = "null"
  /\ UNCHANGED <<policyVars, capture, feederVars, endVars, mainAt, requests, errors, history>>

\* Within five seconds; a read through the file may take longer.
Joined ==
  /\ stop = "join" /\ feeder \in {"off", "read"}
  /\ stop' = "done"
  /\ UNCHANGED <<policyVars, gateVars, capture, feederVars, endVars, miniVars, mainAt, requests,
                  errors, history>>

GateThread ==
  /\ GateFires \/ GateResumes
  /\ UNCHANGED <<capture, feederVars, endVars, miniVars, mainVars, history>>

Mini == Record \/ Drain
MainPlays == OnMiniEos \/ OnMiniError \/ Answer

PcapNext ==
  \/ Feeder \/ Mini \/ MiniError
  \/ MainPlays \/ (\E op \in Ops : Ask(op))
  \/ Stop \/ Joined \/ GateThread

PcapSpec == PcapInit /\ [][PcapNext]_pcapVars

\* Threads run on; nobody has to ask, to stop, or to fail.
PcapFairSpec ==
  /\ PcapSpec
  /\ WF_pcapVars(Feeder) /\ WF_pcapVars(Mini) /\ WF_pcapVars(MainPlays) /\ WF_pcapVars(Joined)

-------------------------------------------------------------------------------
(* Properties. *)

\* A frame comes out: to the consumer's callback, or to the recorder's.
FrameOut ==
  \/ ~capture.mjpeg /\ feeder = "deliver" /\ feeder' = "read"
  \/ inside # <<>> /\ inside' = Tail(inside) /\ mini' # "null"

\* playback.py promises stamps that stay strictly monotonic across cycles; a restart
\* within the first pass is the exception.
StampsIncrease == [][FrameOut => last' > last \/ early]_pcapVars

\* pause holds the feeder: after the reply no frame is delivered but the one that had
\* passed the second hold, and the preview of a paused boot; a restart frees none.
PauseHolds ==
  [][feeder = "deliver" /\ feeder' = "read" /\ state = "paused" => spare]_pcapVars

\* A playback that has ended without an error was played to the last frame of its last
\* pass, and all of it has left the mini-pipeline, so that a stop truncates nothing; and
\* it is told as failed if and only if it failed before it was told.
EndIsHonest ==
  /\ PcapTypeOK
  /\ finished /\ ~failed /\ ~Stopped =>
       inside = <<>> /\ last = Stamp(capture.frames) /\ ~capture.corrupt
  /\ state = "finished" => refusal = failed

\* Nothing moves in a mini-pipeline that failed, nor in front of it.
Blocked == feeder = "deliver" /\ mini = "error" /\ Len(inside) = Queue

\* Wherever a stop finds the feeder, it ends: in a hold, a sleep, a blocked push or the
\* drain.  The end of the playback is told, and an accepted restart taken by the feeder,
\* unless the mini-pipeline failed in front of it; a failure while paused is not told, and
\* a restart that comes after the last frame of a pass that is not repeated is lost.
FeederGoesOn ==
  /\ Stopped ~> feeder = "off"
  /\ finished ~> state = "finished" \/ state = "paused" \/ Blocked
  /\ pending ~> ~pending \/ feeder = "off" \/ cycle = MaxCycles \/ Blocked

\* What playback.py says of loops, without the exception.
StampsAlwaysIncrease == [][FrameOut => last' > last]_pcapVars
===============================================================================
