---------------------------- MODULE Sources_proofs ----------------------------
(***************************************************************************)
(* Proofs about the live sources and captured USB traffic.                 *)
(*                                                                         *)
(* Reconnect: what shutdown leaves behind, for every kind of source and any *)
(* number of losses and failed attempts.  The argument needs no fairness:   *)
(* the device is let go because a worker that shutdown did not wait for     *)
(* long enough is past the point where it opens anything (Over), and        *)
(* nothing captures because whoever set `stopping` stops the source before  *)
(* anybody goes on, and whoever starts it looks at nothing afterwards       *)
(* (Quiet).                                                                *)
(*                                                                         *)
(* PcapSource: how a capture ends and what it delivers, for any number of   *)
(* frames, cycles, requests and errors.  PassInv says what the feeder has   *)
(* read where it is, MiniInv what there is of the mini-pipeline, StampInv   *)
(* that what is in the pipeline is stamped in order and below what comes    *)
(* next, WholeInv that a good end leaves nothing undelivered, HoldInv that  *)
(* a pause lets out at most the frame that was on its way.                  *)
(*                                                                         *)
(* UvcFrames: whose frames come out of a capture, for any number of frames,  *)
(* payloads, URBs and losses.  Pending says that what is pending is one      *)
(* payload as the camera sent it, or lacks its beginning; Assembling that    *)
(* what is accumulated from the beginning of a payload on has no hole, and   *)
(* what is not cannot pass for a frame (Dirty); Emitted that the frames that *)
(* came out are whole, each once, before the one that is being sent.         *)
(* Keeping says, of frames that came out or not, what is to be expected:     *)
(* Current that a frame is begun by its first payload and accumulated from   *)
(* there on, AtRest that the assembly can begin it, Past that it came out.   *)
(***************************************************************************)
EXTENDS Reconnect, PcapSource, UvcFrames, SequenceTheorems, TLAPS

-------------------------------------------------------------------------------
(* Reconnect.                                                              *)

\* The main thread has left the loop.
Left == {"halt", "null", "join", "close", "done"}

Over ==
  /\ main \in Left => stopping
  /\ main = "done" => request = "none"
  /\ main \in {"close", "done"} => worker # "reopen"
  /\ worker \in {"open", "ptp", "stream"} => Gige
  /\ main = "done" => ~held /\ ~reading /\ worker \notin {"open", "ptp", "stream"}

Quiet == stopping /\ request # "halt" /\ main # "halt" /\ acquiring => lateStart

IInv == TypeOK /\ FlagIsWorkers /\ Over /\ Quiet


LEMMA InitIInv == Init => IInv
<1> SUFFICES ASSUME Init PROVE IInv
  OBVIOUS
<1>1. FlagsTypeOK
  BY Zenon DEF Init, FlagsTypeOK
<1>2. PointsTypeOK /\ FlagIsWorkers /\ Over /\ Quiet
  BY KindsAssumption, BoundsAssumption
     DEF Init, PointsTypeOK, FlagIsWorkers, Over, Quiet, Left, MainSteps, RequestSteps, WorkerSteps
<1> QED BY <1>1, <1>2 DEF IInv, TypeOK

(* What the actions may make of each variable.                             *)
LEMMA StepEffects ==
  ASSUME IInv, [Next]_vars
  PROVE  /\ link' \in {link, TRUE, FALSE}
         /\ held' \in {held, TRUE, FALSE}
         /\ acquiring' \in {acquiring, TRUE, FALSE, acquiring /\ ~Gige}
         /\ started' \in {started, TRUE, FALSE}
         /\ stopping' \in {stopping, TRUE}
         /\ fatal' \in {fatal, TRUE}
         /\ reconnecting' \in {reconnecting, TRUE, FALSE}
         /\ idleStop' \in {idleStop, TRUE, FALSE}
         /\ reading' \in {reading, TRUE, FALSE}
         /\ mismatch' \in {mismatch, TRUE, FALSE}
         /\ lateStart' \in {lateStart, lateStart \/ stopping}
         /\ kind' = kind
         /\ main' \in MainSteps
         /\ request' \in RequestSteps
         /\ worker' \in WorkerSteps
         /\ backoff' \in 0..BackoffTop
         /\ drops' \in 0..MaxDrops
         /\ fails' \in 0..MaxFails
<1> USE BoundsAssumption DEF IInv, TypeOK, PointsTypeOK, MainSteps, RequestSteps,
      WorkerSteps, Next, Ended, vars, source, pipeline, bounds, MainFree, Goto, Raise,
      Mishap, StopSource, StartSource, CloseSource, Flags, IoFree, ReopenHolds, Main, Boot,
      Arm, ArmRaises, ShutdownHalt, ShutdownNull, Join, Close, Request, RequestHalt,
      RequestDrain, IdleRequest, Worker, WorkerHalt, WorkerCheck, ReleaseOld, ReopenReader,
      ConfigChanged, Probe, Rebuild, OpenDevice, OpenFails, AwaitPtp, CreateStream,
      StreamFails, Recheck, Rearm, RearmFails, GiveStop, GiveClose, Retry, End, Signal,
      Watchdog, QuitLoop, ReadDevice, ReadDone, RefuseFrame, Drop, Return
<1>1. link' \in {link, TRUE, FALSE}
  OBVIOUS
<1>2. held' \in {held, TRUE, FALSE}
  OBVIOUS
<1>3. acquiring' \in {acquiring, TRUE, FALSE, acquiring /\ ~Gige}
  OBVIOUS
<1>4. started' \in {started, TRUE, FALSE}
  OBVIOUS
<1>5. stopping' \in {stopping, TRUE}
  OBVIOUS
<1>6. fatal' \in {fatal, TRUE}
  OBVIOUS
<1>7. reconnecting' \in {reconnecting, TRUE, FALSE}
  OBVIOUS
<1>8. idleStop' \in {idleStop, TRUE, FALSE}
  OBVIOUS
<1>9. reading' \in {reading, TRUE, FALSE}
  OBVIOUS
<1>10. mismatch' \in {mismatch, TRUE, FALSE}
  OBVIOUS
<1>11. lateStart' \in {lateStart, lateStart \/ stopping}
  OBVIOUS
<1>12. kind' = kind
  OBVIOUS
<1>13. main' \in MainSteps
  OBVIOUS
<1>14. request' \in RequestSteps
  OBVIOUS
<1>15. worker' \in WorkerSteps
  OBVIOUS
<1>16. backoff' \in 0..BackoffTop
  OBVIOUS
<1>17. drops' \in 0..MaxDrops
  OBVIOUS
<1>18. fails' \in 0..MaxFails
  OBVIOUS
<1> HIDE DEF Next
<1> QED
  BY <1>1, <1>2, <1>3, <1>4, <1>5, <1>6, <1>7, <1>8, <1>9, <1>10, <1>11, <1>12, <1>13,
      <1>14, <1>15, <1>16, <1>17, <1>18

(* Every action keeps the types.                                           *)
LEMMA TypeStep == IInv /\ [Next]_vars => TypeOK'
<1> SUFFICES ASSUME IInv, [Next]_vars PROVE TypeOK'
  OBVIOUS
<1> USE StepEffects DEF IInv, TypeOK, FlagsTypeOK
<1>1. link' \in BOOLEAN
  BY Zenon
<1>2. held' \in BOOLEAN
  BY Zenon
<1>3. acquiring' \in BOOLEAN
  BY Zenon
<1>4. started' \in BOOLEAN
  BY Zenon
<1>5. stopping' \in BOOLEAN
  BY Zenon
<1>6. fatal' \in BOOLEAN
  BY Zenon
<1>7. reconnecting' \in BOOLEAN
  BY Zenon
<1>8. idleStop' \in BOOLEAN
  BY Zenon
<1>9. reading' \in BOOLEAN
  BY Zenon
<1>10. mismatch' \in BOOLEAN
  BY Zenon
<1>11. lateStart' \in BOOLEAN
  BY Zenon
<1>12. PointsTypeOK'
  BY DEF PointsTypeOK
<1> QED
  BY <1>1, <1>2, <1>3, <1>4, <1>5, <1>6, <1>7, <1>8, <1>9, <1>10, <1>11, <1>12

(* Only the watchdog takes the flag, only the worker that ends gives it up.*)
LEMMA FlagStep == IInv /\ [Next]_vars => FlagIsWorkers'
<1> SUFFICES ASSUME IInv, [Next]_vars PROVE FlagIsWorkers'
  OBVIOUS
<1> USE DEF IInv, FlagIsWorkers, vars, source, pipeline, bounds, MainFree, Goto, Raise,
      Mishap, StopSource, StartSource, CloseSource, Flags, IoFree, ReopenHolds
<1>1. CASE Main
  BY <1>1 DEF Main, Boot, Arm, ArmRaises, ShutdownHalt, ShutdownNull, Join, Close
<1>2. CASE Request
  BY <1>2 DEF Request, RequestHalt, RequestDrain, IdleRequest
<1>3. CASE Worker
  BY <1>3 DEF Worker, WorkerHalt, WorkerCheck, ReleaseOld, ReopenReader, ConfigChanged,
      Probe, Rebuild, OpenDevice, OpenFails, AwaitPtp, CreateStream, StreamFails, Recheck,
      Rearm, RearmFails, GiveStop, GiveClose, Retry, End
<1>4. CASE Signal \/ Watchdog \/ QuitLoop
  BY <1>4 DEF Signal, Watchdog, QuitLoop
<1>5. CASE ReadDevice \/ ReadDone \/ RefuseFrame \/ Drop \/ Return
  BY <1>5 DEF ReadDevice, ReadDone, RefuseFrame, Drop, Return
<1>6. CASE Ended \/ UNCHANGED vars
  BY <1>6 DEF Ended
<1> QED
  BY <1>1, <1>2, <1>3, <1>4, <1>5, <1>6 DEF Next

(* No worker that shutdown left behind opens anything.                     *)
LEMMA OverStep == IInv /\ [Next]_vars => Over'
<1> SUFFICES ASSUME IInv, [Next]_vars PROVE Over'
  OBVIOUS
<1> USE DEF IInv, Over, Left, Gige, SlowSteps, vars, source, pipeline, bounds, MainFree,
      Goto, Raise, Mishap, StopSource, StartSource, CloseSource, Flags, IoFree, ReopenHolds
<1>1. CASE Main
  BY <1>1 DEF Main, Boot, Arm, ArmRaises, ShutdownHalt, ShutdownNull, Join, Close
<1>2. CASE Request
  BY <1>2 DEF Request, RequestHalt, RequestDrain, IdleRequest
<1>3. CASE Worker
  BY <1>3 DEF Worker, WorkerHalt, WorkerCheck, ReleaseOld, ReopenReader, ConfigChanged,
      Probe, Rebuild, OpenDevice, OpenFails, AwaitPtp, CreateStream, StreamFails, Recheck,
      Rearm, RearmFails, GiveStop, GiveClose, Retry, End
<1>4. CASE Signal \/ Watchdog \/ QuitLoop
  BY <1>4 DEF Signal, Watchdog, QuitLoop
<1>5. CASE ReadDevice \/ ReadDone \/ RefuseFrame \/ Drop \/ Return
  BY <1>5 DEF ReadDevice, ReadDone, RefuseFrame, Drop, Return
<1>6. CASE Ended \/ UNCHANGED vars
  BY <1>6 DEF Ended
<1> QED
  BY <1>1, <1>2, <1>3, <1>4, <1>5, <1>6 DEF Next

(* Whoever stops the run stops the source before anybody goes on.          *)
LEMMA QuietStep == IInv /\ [Next]_vars => Quiet'
<1> SUFFICES ASSUME IInv, [Next]_vars PROVE Quiet'
  OBVIOUS
<1> USE DEF IInv, Quiet, Over, Left, TypeOK, vars, source, pipeline, bounds, MainFree, Goto,
      Raise, Mishap, StopSource, StartSource, CloseSource, Flags, IoFree, ReopenHolds
<1>1. CASE Main
  BY <1>1 DEF Main, Boot, Arm, ArmRaises, ShutdownHalt, ShutdownNull, Join, Close
<1>2. CASE Request
  BY <1>2 DEF Request, RequestHalt, RequestDrain, IdleRequest
<1>3. CASE Worker
  BY <1>3 DEF Worker, WorkerHalt, WorkerCheck, ReleaseOld, ReopenReader, ConfigChanged,
      Probe, Rebuild, OpenDevice, OpenFails, AwaitPtp, CreateStream, StreamFails, Recheck,
      Rearm, RearmFails, GiveStop, GiveClose, Retry, End
<1>4. CASE Signal \/ Watchdog \/ QuitLoop
  BY <1>4 DEF Signal, Watchdog, QuitLoop
<1>5. CASE ReadDevice \/ ReadDone \/ RefuseFrame \/ Drop \/ Return
  BY <1>5 DEF ReadDevice, ReadDone, RefuseFrame, Drop, Return
<1>6. CASE Ended \/ UNCHANGED vars
  BY <1>6 DEF Ended
<1> QED
  BY <1>1, <1>2, <1>3, <1>4, <1>5, <1>6 DEF Next

LEMMA Invariance == Spec => []IInv
<1>1. IInv /\ [Next]_vars => IInv'
  BY TypeStep, FlagStep, OverStep, QuietStep DEF IInv, TypeOK
<1> QED BY InitIInv, <1>1, PTL DEF Spec

-----------------------------------------------------------------------------
(* The theorems.                                                           *)

(* Every variable keeps its type; the backoff stays within its limit.      *)
THEOREM TypeCorrect == Spec => []TypeOK
<1>1. IInv => TypeOK
  BY DEF IInv
<1> QED BY <1>1, Invariance, PTL

(* The reconnect flag is set exactly while there is a worker, however that *)
(* ends (pipeline._reconnect, _watchdog).                                  *)
THEOREM FlagHasAnOwner == Spec => []FlagIsWorkers
<1>1. IInv => FlagIsWorkers
  BY DEF IInv
<1> QED BY <1>1, Invariance, PTL

(* After shutdown no camera is held and nothing captures but what was on   *)
(* its way to when the stop came, whatever the worker that outlived the    *)
(* join still does (pipeline.shutdown, _join_reconnect).                   *)
THEOREM ShutdownReleases == Spec => []QuietRelease
<1>1. IInv => QuietRelease
  BY DEF IInv, Over, Quiet, Left, QuietRelease, ReleasedAtExit, QuietAtExit
<1> QED BY <1>1, Invariance, PTL

-------------------------------------------------------------------------------
(* PcapSource.                                                             *)

(* A frame the feeder has read and not yet delivered or dropped.           *)
InHand == feeder \in {"hold", "poll", "pace", "deliver", "restart"}

(* The pass is over; what is behind it.                                    *)
Behind == feeder \in {"drain", "late", "end", "mark", "off"}

(* Where the feeder is tells what it has read.                             *)
PassInv ==
  /\ InHand => idx > 0
  /\ feeder \in {"wrap", "feedEnds"} => idx = capture.frames /\ ~capture.corrupt
  /\ span = 0 => cycle = 0
  /\ capture.frames = 0 => capture.corrupt

(* The mini-pipeline is there for MJPEG, until a stop flushes it; it ends  *)
(* only after the feeder has told it, and posts what became of it.         *)
MiniInv ==
  /\ mini = "null" <=> ~capture.mjpeg \/ Stopped
  /\ mini = "null" => bus = {} /\ inside = <<>>
  /\ mini \in {"eos", "drained"} => Behind /\ idx = capture.frames /\ ~capture.corrupt
  /\ mini = "drained" => inside = <<>>
  /\ "eos" \in bus => mini = "drained"
  /\ "error" \in bus => mini = "error"

(* The stamps on their way out follow the last one that came out, and stay *)
(* behind the frame in hand.                                               *)
Newest == IF inside = <<>> THEN last ELSE inside[Len(inside)]

StampInv ==
  ~early =>
    /\ span # 0 => span = capture.frames
    /\ \A k \in 1..Len(inside) : last < inside[k]
    /\ \A j, k \in 1..Len(inside) : j < k => inside[j] < inside[k]
    /\ Newest <= Stamp(idx)
    /\ InHand => Newest < Stamp(idx)

(* What is last is the frame last read, unless a frame is in hand or was   *)
(* dropped.                                                                *)
WholeInv ==
  /\ ~failed /\ ~Stopped =>
       /\ feeder \in {"wrap", "feedEnds", "drain"} => Newest = Stamp(idx)
       /\ feeder = "read" /\ idx > 0 => Newest = Stamp(idx)
       /\ Behind => idx = capture.frames /\ ~capture.corrupt /\ Newest = Stamp(idx)
       /\ feeder \in {"drain", "late"} => capture.mjpeg
       /\ capture.mjpeg /\ feeder \in {"end", "mark", "off"} => mini = "drained"
       /\ finished => inside = <<>> /\ Behind
       /\ finished /\ capture.mjpeg => mini = "drained"
  /\ state = "finished" => feeder = "off" /\ refusal = failed

(* What may go out of a pause was announced when it came.                  *)
HoldInv ==
  /\ feeder \in {"poll", "pace", "deliver"} => ~preroll
  /\ state = "paused" /\ ~spare => feeder # "deliver" /\ ~preroll

PcapIInv == PcapTypeOK /\ PassInv /\ MiniInv /\ StampInv /\ WholeInv /\ HoldInv

-------------------------------------------------------------------------------
(* The steps, one action each.                                             *)
LEMMA PcapStepCases ==
  ASSUME [PcapNext]_pcapVars
  PROVE  \/ UNCHANGED pcapVars
         \/ Read \/ PassEnds \/ PassRaises \/ Hold \/ Poll \/ Pace
         \/ DeliverRaw \/ Push \/ PushRejected
         \/ Restart \/ Wrap \/ FeedEnds \/ SendEos
         \/ DrainEnds \/ DrainTimesOut \/ DrainFails \/ FeedOver \/ Mark
         \/ Record \/ Drain \/ MiniError
         \/ OnMiniEos \/ OnMiniError \/ Answer \/ \E op \in Ops : Ask(op)
         \/ Stop \/ Joined \/ GateThread
BY DEF PcapNext, Feeder, FeederPaces, FeederTurns, FeederCloses, Mini, MainPlays

(* The policy's part of a step.                                            *)
LEMMA PolicyStep ==
  ASSUME ControlTypeOK,
         \/ UNCHANGED policyVars \/ TakeRestart \/ TakePreroll
         \/ \E o : Serve(o)
         \/ state' = "finished" /\ refusal' = failed /\ UNCHANGED <<loop, pending, preroll>>,
         failed \in BOOLEAN
  PROVE  /\ state' \in {"playing", "paused", "finished"}
         /\ loop' \in BOOLEAN /\ pending' \in BOOLEAN /\ preroll' \in BOOLEAN
         /\ refusal' \in BOOLEAN
<1> USE DEF ControlTypeOK
<1>1. CASE UNCHANGED policyVars
  BY <1>1 DEF policyVars
<1>2. CASE TakeRestart
  BY <1>2, Zenon DEF TakeRestart
<1>3. CASE TakePreroll
  BY <1>3, Zenon DEF TakePreroll
<1>4. CASE state' = "finished" /\ refusal' = failed /\ UNCHANGED <<loop, pending, preroll>>
  BY <1>4, Zenon
<1>5. CASE \E o : Serve(o)
  <2> PICK o : Serve(o)
    BY <1>5
  <2>1. CASE AlreadySo(o)
    BY <2>1 DEF Serve, policyVars
  <2>2. CASE ~AlreadySo(o)
    <3>1. state' \in {"playing", "paused", "finished"}
      BY <2>2 DEF Serve
    <3>2. refusal' = FALSE /\ preroll' = preroll /\ pending' = (pending \/ o = "restart")
          /\ loop' = IF o = "set_loop" THEN ~loop ELSE loop
      BY <2>2, Zenon DEF Serve
    <3>3. (pending \/ o = "restart") \in BOOLEAN /\ (~loop) \in BOOLEAN
      BY Zenon
    <3>4. loop' \in BOOLEAN
      BY <3>2, <3>3, Zenon
    <3> QED BY <3>1, <3>2, <3>3, <3>4, Zenon
  <2> QED BY <2>1, <2>2
<1> QED BY <1>1, <1>2, <1>3, <1>4, <1>5

(* The gate's part of a step.                                              *)
LEMMA GateStep ==
  ASSUME ControlTypeOK,
         \/ UNCHANGED gateVars \/ CallOffGate \/ CancelGate \/ GateFires \/ GateResumes
  PROVE  armed' \in BOOLEAN /\ touched' \in BOOLEAN /\ gate' \in {"off", "waiting", "resume"}
<1> USE DEF ControlTypeOK
<1>1. CASE UNCHANGED gateVars
  BY <1>1 DEF gateVars
<1>2. CASE CallOffGate
  <2>1. (touched \/ gate = "waiting") \in BOOLEAN
    BY Zenon
  <2> QED BY <1>2, <2>1, Zenon DEF CallOffGate
<1>3. CASE CancelGate \/ GateFires \/ GateResumes
  <2>1. armed' = FALSE /\ touched' = touched /\ gate' \in {gate, "off", "resume"}
    BY <1>3 DEF CancelGate, GateFires, GateResumes
  <2>2. armed' \in BOOLEAN
    BY <2>1, Zenon
  <2> QED BY <2>1, <2>2
<1> QED BY <1>1, <1>2, <1>3

LEMMA ControlStep ==
  ASSUME PcapTypeOK, [PcapNext]_pcapVars
  PROVE  ControlTypeOK'
<1>1. ControlTypeOK /\ failed \in BOOLEAN
  BY DEF PcapTypeOK
<1>2. \/ UNCHANGED policyVars \/ TakeRestart \/ TakePreroll
      \/ \E o : Serve(o)
      \/ state' = "finished" /\ refusal' = failed /\ UNCHANGED <<loop, pending, preroll>>
  <2>1. CASE UNCHANGED policyVars
    BY <2>1
  <2>2. CASE Hold \/ Pace \/ Poll \/ Mark
    BY <2>2 DEF Hold, Pace, Poll, TakeVerdict, Mark
  <2>3. CASE GateThread
    BY <2>3 DEF GateThread, GateFires, GateResumes
  <2>4. CASE \E op \in Ops : Ask(op)
    BY <2>4 DEF Ask
  <2> QED BY <2>1, <2>2, <2>3, <2>4, PcapStepCases DEF pcapVars, Read, PassEnds, PassRaises, GoOn,
        DeliverRaw, Push, PushRejected, Delivered, Restart, Wrap, Wraps, FeedEnds, SendEos,
        DrainEnds, DrainTimesOut, DrainFails, FeedOver, Record, Drain, MiniError, MiniOnly,
        OnMiniEos, OnMiniError, Answer, Stop, Joined
<1>3. UNCHANGED gateVars \/ CallOffGate \/ CancelGate \/ GateFires \/ GateResumes
  BY PcapStepCases DEF pcapVars, FeederOnly, Read, PassEnds, PassRaises, Hold, Poll, Pace,
        DeliverRaw, Push, PushRejected, Delivered, Restart, Wrap, FeedEnds, SendEos,
        DrainEnds, DrainTimesOut, DrainFails, FeedOver, Mark, Record, Drain, MiniError, MiniOnly,
        OnMiniEos, OnMiniError, Answer, Ask, Stop, Joined, GateThread
<1>4. /\ state' \in {"playing", "paused", "finished"}
      /\ loop' \in BOOLEAN /\ pending' \in BOOLEAN /\ preroll' \in BOOLEAN
      /\ refusal' \in BOOLEAN
  BY <1>1, <1>2, PolicyStep
<1>5. armed' \in BOOLEAN /\ touched' \in BOOLEAN /\ gate' \in {"off", "waiting", "resume"}
  BY <1>1, <1>3, GateStep
<1> QED BY <1>4, <1>5 DEF ControlTypeOK

(* The rest of the types, the feeder's first.                              *)
FeederTypeOK ==
  /\ capture \in [mjpeg : BOOLEAN, frames : 0..Frames, corrupt : BOOLEAN, decodes : BOOLEAN]
  /\ feeder \in FeederPoint /\ idx \in 0..capture.frames
  /\ cycle \in 0..(MaxCycles + 1) /\ span \in Nat

EndTypeOK ==
  /\ eosSent \in BOOLEAN /\ finished \in BOOLEAN /\ failed \in BOOLEAN
  /\ early \in BOOLEAN /\ spare \in BOOLEAN

MiniTypeOK ==
  /\ inside \in Seq(Nat) /\ Len(inside) <= Queue
  /\ mini \in {"playing", "eos", "drained", "error", "null"} /\ bus \subseteq {"eos", "error"}
  /\ last \in Nat

MainTypeOK ==
  /\ mainAt \in {"idle", "waiting"} /\ stop \in {"no", "join", "done"}
  /\ requests \in 0..MaxRequests /\ errors \in 0..MaxErrors

LEMMA TypeParts == PcapTypeOK <=> ControlTypeOK /\ FeederTypeOK /\ EndTypeOK /\ MiniTypeOK /\ MainTypeOK
BY DEF PcapTypeOK, FeederTypeOK, EndTypeOK, MiniTypeOK, MainTypeOK

LEMMA FeederTyped ==
  ASSUME PcapTypeOK, [PcapNext]_pcapVars
  PROVE  FeederTypeOK'
<1> USE PcapAssumption DEF FeederTypeOK, FeederPoint
<1>1. FeederTypeOK /\ capture.frames \in Nat
  BY TypeParts
<1>2. CASE UNCHANGED <<capture, feederVars>>
  BY <1>1, <1>2 DEF feederVars
<1>3. CASE Read
  BY <1>1, <1>3 DEF Read, GoOn, FeederOnly
<1>4. CASE PassEnds \/ PassRaises \/ Poll \/ DeliverRaw \/ Push \/ PushRejected
           \/ DrainEnds \/ DrainTimesOut \/ DrainFails \/ FeedOver \/ Mark \/ SendEos
  BY <1>1, <1>4 DEF PassEnds, PassRaises, Poll, DeliverRaw, Push, PushRejected, Delivered, Held,
       DrainEnds, DrainTimesOut, DrainFails, FeedOver, Mark, SendEos, GoOn, FeederOnly
<1>5. CASE Hold \/ Pace
  <2>1. feeder' \in FeederPoint /\ UNCHANGED <<capture, idx, cycle, span>>
    BY <1>5 DEF Hold, Pace, AfterHold, Held, FeederOnly
  <2> QED BY <1>1, <2>1
<1>6. CASE Restart \/ Wrap
  BY <1>1, <1>6 DEF Restart, Wrap, NextCycle, Measured, FeederOnly
<1>7. CASE FeedEnds
  BY <1>1, <1>7 DEF FeedEnds, Measured, FeederOnly
<1> QED BY <1>2, <1>3, <1>4, <1>5, <1>6, <1>7, PcapStepCases DEF pcapVars, Record, Drain,
     MiniError, MiniOnly, MainOnly, OnMiniEos, OnMiniError, Answer, Ask, Stop, Joined, GateThread

LEMMA FlagsTyped ==
  ASSUME PcapTypeOK, [PcapNext]_pcapVars
  PROVE  EndTypeOK'
<1> USE DEF EndTypeOK
<1>1. EndTypeOK /\ preroll \in BOOLEAN
  BY TypeParts DEF ControlTypeOK
<1>2. CASE UNCHANGED <<eosSent, endVars, early, spare>>
  BY <1>1, <1>2 DEF endVars
<1>3. CASE Hold \/ Poll \/ Pace \/ Mark
  BY <1>2, <1>3 DEF Hold, Poll, Pace, Mark, Held, history
<1>4. CASE PassRaises
  <2>1. failed' = TRUE /\ UNCHANGED <<eosSent, finished, early, spare>>
    BY <1>4 DEF PassRaises, history
  <2> QED BY <1>1, <2>1, Zenon
<1>5. CASE DeliverRaw \/ Push \/ PushRejected
  <2>1. spare' = (spare /\ state # "paused") /\ UNCHANGED <<eosSent, endVars, early>>
    BY <1>5 DEF DeliverRaw, Push, PushRejected, Delivered
  <2>2. (spare /\ state # "paused") \in BOOLEAN
    BY Zenon
  <2> QED BY <1>1, <2>1, <2>2, Zenon DEF endVars
<1>6. CASE Restart
  <2>1. early' = (early \/ (span = 0 /\ idx < capture.frames)) /\ UNCHANGED <<eosSent, endVars, spare>>
    BY <1>6 DEF Restart, Wraps
  <2>2. (early \/ (span = 0 /\ idx < capture.frames)) \in BOOLEAN
    BY Zenon
  <2> QED BY <1>1, <2>1, <2>2, Zenon DEF endVars
<1>7. CASE SendEos
  <2>1. eosSent' = (capture.mjpeg /\ ~Stopped /\ ~failed /\ mini # "null") /\ UNCHANGED <<endVars, early, spare>>
    BY <1>7 DEF SendEos, history
  <2>2. (capture.mjpeg /\ ~Stopped /\ ~failed /\ mini # "null") \in BOOLEAN
    BY Zenon
  <2> QED BY <1>1, <2>1, <2>2, Zenon DEF endVars
<1>8. CASE DrainFails
  <2>1. failed' = TRUE /\ eosSent' = FALSE /\ UNCHANGED <<finished, early, spare>>
    BY <1>8 DEF DrainFails, history
  <2> QED BY <1>1, <2>1, Zenon
<1>9. CASE FeedOver
  <2>1. finished' = (finished \/ ~eosSent) /\ UNCHANGED <<eosSent, failed, early, spare>>
    BY <1>9 DEF FeedOver, history
  <2>2. (finished \/ ~eosSent) \in BOOLEAN
    BY Zenon
  <2> QED BY <1>1, <2>1, <2>2, Zenon
<1>10. CASE OnMiniEos
  <2>1. finished' = TRUE /\ UNCHANGED <<eosSent, failed, early, spare>>
    BY <1>10 DEF OnMiniEos, MainOnly, feederVars
  <2> QED BY <1>1, <2>1, Zenon
<1>11. CASE OnMiniError
  <2>1. finished' = TRUE /\ failed' = TRUE /\ UNCHANGED <<eosSent, early, spare>>
    BY <1>11 DEF OnMiniError, MainOnly, feederVars
  <2> QED BY <1>1, <2>1, Zenon
<1>12. CASE \E op \in Ops : Ask(op)
  <2>1. UNCHANGED <<eosSent, endVars, early>> /\ (spare' = spare \/ spare' = (preroll \/ feeder = "deliver"))
    BY <1>12 DEF Ask, MainOnly, feederVars
  <2>2. (preroll \/ feeder = "deliver") \in BOOLEAN
    BY Zenon
  <2> QED BY <1>1, <2>1, <2>2, Zenon DEF endVars
<1> QED BY <1>2, <1>3, <1>4, <1>5, <1>6, <1>7, <1>8, <1>9, <1>10, <1>11, <1>12, PcapStepCases
     DEF pcapVars, feederVars, history, Read, PassEnds, Wrap, Wraps, FeedEnds, DrainEnds,
          DrainTimesOut, GoOn, Record, Drain, MiniError, MiniOnly, MainOnly, Answer, Stop, Joined,
          GateThread

LEMMA MiniTyped ==
  ASSUME PcapTypeOK, [PcapNext]_pcapVars
  PROVE  MiniTypeOK'
<1> USE PcapAssumption DEF MiniTypeOK
<1>1. MiniTypeOK /\ FeederTypeOK /\ Stamp(idx) \in Nat
  <2>1. MiniTypeOK /\ FeederTypeOK
    BY TypeParts
  <2>2. cycle \in Nat /\ span \in Nat /\ idx \in Nat
    BY <2>1 DEF FeederTypeOK
  <2>3. cycle * span \in Nat
    BY <2>2
  <2> QED BY <2>1, <2>2, <2>3 DEF Stamp
<1>2. CASE UNCHANGED <<miniVars, last>>
  BY <1>1, <1>2 DEF miniVars
<1>3. CASE DeliverRaw
  BY <1>1, <1>3 DEF DeliverRaw, Delivered, FeederOnly
<1>4. CASE Push
  BY <1>1, <1>4 DEF Push, Delivered, FeederOnly
<1>5. CASE SendEos
  BY <1>1, <1>5 DEF SendEos, FeederOnly, history
<1>6. CASE Record
  BY <1>1, <1>6 DEF Record
<1>7. CASE Drain \/ MiniError \/ OnMiniEos \/ OnMiniError
  BY <1>1, <1>7 DEF Drain, MiniError, OnMiniEos, OnMiniError, MainOnly
<1>9. CASE Stop
  <2>1. inside' = <<>> /\ bus' = {} /\ mini' = "null" /\ last' = last
    BY <1>9 DEF Stop, history
  <2> QED BY <1>1, <2>1
<1>8. CASE \E op \in Ops : Ask(op)
  BY <1>1, <1>8 DEF Ask, MainOnly
<1> QED BY <1>2, <1>3, <1>4, <1>5, <1>6, <1>7, <1>8, <1>9, PcapStepCases
     DEF pcapVars, miniVars, history, Read, PassEnds, PassRaises, Hold, Poll, Pace, PushRejected,
          Delivered, Restart, Wrap, Wraps, FeedEnds, DrainEnds, DrainTimesOut, DrainFails,
          FeedOver, Mark, GoOn, Held, FeederOnly, MainOnly, Answer, Joined, GateThread

LEMMA MainTyped ==
  ASSUME PcapTypeOK, [PcapNext]_pcapVars
  PROVE  MainTypeOK'
<1> USE PcapAssumption DEF MainTypeOK
<1>1. MainTypeOK
  BY TypeParts
<1>2. CASE UNCHANGED mainVars
  BY <1>1, <1>2 DEF mainVars
<1>3. CASE Record \/ Drain \/ MiniError
  BY <1>1, <1>3 DEF Record, Drain, MiniError, MiniOnly
<1>4. CASE OnMiniEos \/ OnMiniError \/ Answer \/ Stop \/ Joined
  BY <1>1, <1>4 DEF OnMiniEos, OnMiniError, Answer, Stop, Joined, MainOnly
<1>5. CASE \E op \in Ops : Ask(op)
  BY <1>1, <1>5 DEF Ask, MainOnly
<1> QED BY <1>2, <1>3, <1>4, <1>5, PcapStepCases DEF pcapVars, FeederOnly, Read, PassEnds,
     PassRaises, Hold, Poll, Pace, DeliverRaw, Push, PushRejected, Delivered, Restart, Wrap,
     FeedEnds, SendEos, DrainEnds, DrainTimesOut, DrainFails, FeedOver, Mark, GateThread

LEMMA PcapTypeStep == PcapTypeOK /\ [PcapNext]_pcapVars => PcapTypeOK'
<1> SUFFICES ASSUME PcapTypeOK, [PcapNext]_pcapVars PROVE PcapTypeOK'
  OBVIOUS
<1>1. ControlTypeOK' /\ FeederTypeOK' /\ EndTypeOK' /\ MiniTypeOK' /\ MainTypeOK'
  BY ControlStep, FeederTyped, FlagsTyped, MiniTyped, MainTyped
<1> QED BY <1>1, TypeParts DEF PcapTypeOK, FeederTypeOK, EndTypeOK, MiniTypeOK, MainTypeOK

-------------------------------------------------------------------------------
(* The passes.                                                             *)
LEMMA PassStep ==
  ASSUME PcapTypeOK, PassInv, [PcapNext]_pcapVars
  PROVE  PassInv'
<1> USE PcapAssumption DEF PassInv, InHand
<1>1. FeederTypeOK /\ capture.frames \in Nat /\ idx \in Nat /\ cycle \in Nat /\ span \in Nat
  BY TypeParts DEF FeederTypeOK
<1>2. capture' = capture
  BY PcapStepCases DEF pcapVars, FeederOnly, MiniOnly, MainOnly, Read, PassEnds, PassRaises, Hold,
       Poll, Pace, DeliverRaw, Push, PushRejected, Delivered, Restart, Wrap, FeedEnds, SendEos,
       DrainEnds, DrainTimesOut, DrainFails, FeedOver, Mark, Record, Drain, MiniError, OnMiniEos,
       OnMiniError, Answer, Ask, Stop, Joined, GateThread
<1>3. CASE UNCHANGED <<feeder, idx, cycle, span>>
  BY <1>2, <1>3
<1>4. CASE Read
  BY <1>1, <1>2, <1>4 DEF Read, GoOn
<1>5. CASE PassEnds \/ PassRaises \/ Poll \/ DeliverRaw \/ Push \/ PushRejected
           \/ DrainEnds \/ DrainTimesOut \/ DrainFails \/ FeedOver \/ Mark \/ SendEos
  BY <1>1, <1>2, <1>5 DEF PassEnds, PassRaises, Poll, DeliverRaw, Push, PushRejected, Delivered,
       Held, DrainEnds, DrainTimesOut, DrainFails, FeedOver, Mark, SendEos, GoOn
<1>6. CASE Hold \/ Pace
  <2>1. feeder' \in {"deliver", "poll", "end", "restart"} /\ UNCHANGED <<idx, cycle, span>>
        /\ feeder \in {"hold", "pace"}
    BY <1>6 DEF Hold, Pace, AfterHold, Held
  <2> QED BY <1>1, <1>2, <2>1
<1>7. CASE Restart \/ Wrap
  BY <1>1, <1>2, <1>7 DEF Restart, Wrap, NextCycle, Measured
<1>8. CASE FeedEnds
  BY <1>1, <1>2, <1>8 DEF FeedEnds, Measured
<1> QED BY <1>3, <1>4, <1>5, <1>6, <1>7, <1>8, PcapStepCases DEF pcapVars, feederVars, Record,
     Drain, MiniError, MiniOnly, MainOnly, OnMiniEos, OnMiniError, Answer, Ask, Stop, Joined,
     GateThread

LEMMA MiniStep ==
  ASSUME PcapTypeOK, PassInv, MiniInv, [PcapNext]_pcapVars
  PROVE  MiniInv'
<1> USE DEF MiniInv, Behind, Stopped
<1>1. FeederTypeOK /\ MiniTypeOK /\ MainTypeOK
  BY TypeParts
<1>2. CASE Read \/ PassEnds \/ PassRaises \/ Hold \/ Poll \/ Pace \/ DeliverRaw \/ PushRejected
           \/ Restart \/ Wrap \/ FeedEnds \/ DrainEnds \/ DrainTimesOut \/ DrainFails \/ FeedOver \/ Mark
  <2>1. UNCHANGED <<capture, inside, mini, bus, stop>>
    BY <1>2 DEF Read, PassEnds, PassRaises, Hold, Poll, Pace, DeliverRaw, PushRejected, Delivered,
         Restart, Wrap, Wraps, FeedEnds, DrainEnds, DrainTimesOut, DrainFails, FeedOver, Mark,
         GoOn, Held, FeederOnly, mainVars
  <2>2. Behind => Behind' /\ idx' = idx
    BY <1>2 DEF Read, PassEnds, PassRaises, Hold, Poll, Pace, DeliverRaw, PushRejected, Delivered,
       Restart, Wrap, FeedEnds, DrainEnds, DrainTimesOut, DrainFails, FeedOver, Mark, GoOn, Held
  <2> QED BY <2>1, <2>2
<1>3. CASE Push
  <2>1. UNCHANGED <<capture, mini, bus, stop>> /\ capture.mjpeg /\ mini # "null" /\ feeder = "deliver"
    BY <1>3 DEF Push, Delivered, FeederOnly, mainVars
  <2> QED BY <2>1
<1>4. CASE SendEos
  <2>1. /\ UNCHANGED <<capture, inside, bus, stop, idx>> /\ feeder = "feedEnds" /\ Behind'
        /\ mini' = IF (capture.mjpeg /\ ~Stopped /\ ~failed /\ mini # "null") /\ mini = "playing"
                   THEN "eos" ELSE mini
    BY <1>4 DEF SendEos, FeederOnly, mainVars
  <2> QED BY <2>1 DEF PassInv
<1>5. CASE Record
  BY <1>5 DEF Record, MiniOnly, feederVars
<1>6. CASE Drain
  BY <1>6 DEF Drain, MiniOnly, feederVars
<1>7. CASE MiniError
  BY <1>7 DEF MiniError, MiniOnly, feederVars
<1>8. CASE OnMiniEos \/ OnMiniError \/ Answer \/ \E op \in Ops : Ask(op)
  <2>1. UNCHANGED <<capture, inside, mini, stop, feeder, idx>> /\ bus' \subseteq bus
    BY <1>8 DEF OnMiniEos, OnMiniError, Answer, Ask, MainOnly, feederVars
  <2> QED BY <2>1
<1>9. CASE Stop
  BY <1>9 DEF Stop, feederVars
<1>10. CASE Joined
  BY <1>10 DEF Joined, feederVars, miniVars
<1>11. CASE GateThread \/ UNCHANGED pcapVars
  BY <1>11 DEF GateThread, pcapVars, feederVars, miniVars, mainVars
<1> QED BY <1>2, <1>3, <1>4, <1>5, <1>6, <1>7, <1>8, <1>9, <1>10, <1>11, PcapStepCases

(* What may go out of a pause.                                             *)
LEMMA HoldStep ==
  ASSUME PcapTypeOK, HoldInv, [PcapNext]_pcapVars
  PROVE  HoldInv'
<1> USE DEF HoldInv
<1>1. CASE UNCHANGED <<feeder, preroll, state, spare>>
  BY <1>1
<1>2. CASE Read \/ PassEnds \/ PassRaises \/ Restart \/ Wrap \/ FeedEnds \/ SendEos
           \/ DrainEnds \/ DrainTimesOut \/ DrainFails \/ FeedOver
  <2>1. UNCHANGED <<preroll, state, spare>> /\ feeder' \notin {"poll", "pace", "deliver"}
    BY <1>2 DEF Read, PassEnds, PassRaises, Restart, Wrap, Wraps, NextCycle, FeedEnds, SendEos,
         DrainEnds, DrainTimesOut, DrainFails, FeedOver, GoOn, policyVars, history
  <2> QED BY <2>1
<1>3. CASE Mark
  <2>1. UNCHANGED <<preroll, spare>> /\ state' \in {state, "finished"} /\ feeder' = "off"
    BY <1>3 DEF Mark, Held, policyVars, history
  <2> QED BY <2>1
<1>4. CASE Hold
  <2>0. spare' = spare
    BY <1>4 DEF Hold, Held, history
  <2>1. CASE preroll
    <3>1. preroll' = FALSE /\ state' = state /\ feeder' = "deliver"
      BY <1>4, <2>1 DEF Hold, TakePreroll
    <3>2. state = "paused" => spare
      BY <2>1
    <3> QED BY <2>0, <3>1, <3>2
  <2>2. CASE ~preroll
    <3>1. preroll' = preroll /\ state' = state /\ feeder' # "deliver"
      BY <1>4, <2>2 DEF Hold, TakeVerdict, TakeRestart, AfterHold, policyVars
    <3> QED BY <2>0, <2>2, <3>1
  <2> QED BY <2>1, <2>2
<1>5. CASE Poll
  <2>1. UNCHANGED <<preroll, state, spare>> /\ feeder = "poll" /\ feeder' \in {"restart", "pace"}
    BY <1>5 DEF Poll, TakeRestart, Held, history
  <2> QED BY <2>1
<1>6. CASE Pace
  <2>1. UNCHANGED <<preroll, state, spare>> /\ feeder = "pace"
    BY <1>6 DEF Pace, TakeVerdict, TakeRestart, Held, history, policyVars
  <2>2. feeder' = "deliver" => state # "paused"
    BY <1>6 DEF Pace, AfterHold, StaysHeld, Verdict
  <2> QED BY <2>1, <2>2
<1>7. CASE DeliverRaw \/ Push \/ PushRejected
  <2>1. UNCHANGED <<preroll, state>> /\ feeder = "deliver" /\ feeder' = "read"
    BY <1>7 DEF DeliverRaw, Push, PushRejected, Delivered, policyVars
  <2> QED BY <2>1
<1>8. CASE \E op \in Ops : Ask(op)
  <2> PICK op \in Ops : Ask(op)
    BY <1>8
  <2>1. feeder' = feeder
    BY DEF Ask, MainOnly, feederVars
  <2>2. CASE state = "finished"
    BY <2>1, <2>2 DEF Ask, policyVars
  <2>3. CASE state # "finished"
    <3>1. Serve(op)
          /\ spare' = IF op = "pause" /\ state = "playing" THEN preroll \/ feeder = "deliver" ELSE spare
      BY <2>3 DEF Ask
    <3>2. preroll' = preroll /\ (state' = "paused" /\ state # "paused" => op = "pause" /\ state = "playing")
      BY <3>1, <2>3 DEF Serve, AlreadySo, policyVars, PcapTypeOK, ControlTypeOK
    <3>3. CASE op = "pause" /\ state = "playing"
      BY <2>1, <3>1, <3>2, <3>3
    <3>4. CASE ~(op = "pause" /\ state = "playing")
      BY <2>1, <3>1, <3>2, <3>4
    <3> QED BY <3>3, <3>4
  <2> QED BY <2>2, <2>3
<1>9. CASE GateThread
  <2>1. UNCHANGED <<feeder, spare>>
    BY <1>9 DEF GateThread, feederVars, history
  <2>2. preroll' = preroll /\ (state' = "paused" => state = "paused")
    <3>1. CASE GateFires
      BY <3>1 DEF GateFires, policyVars
    <3>2. CASE GateResumes
      BY <3>2 DEF GateResumes, Serve, policyVars
    <3> QED BY <1>9, <3>1, <3>2 DEF GateThread
  <2> QED BY <2>1, <2>2
<1> QED BY <1>1, <1>2, <1>3, <1>4, <1>5, <1>6, <1>7, <1>8, <1>9, PcapStepCases
     DEF pcapVars, policyVars, feederVars, history, Record, Drain, MiniError, MiniOnly, MainOnly,
     OnMiniEos, OnMiniError, Answer, Stop, Joined

-------------------------------------------------------------------------------
(* The stamps.                                                             *)
LEMMA StampIs ==
  ASSUME PcapTypeOK
  PROVE  /\ idx \in Nat /\ cycle \in Nat /\ span \in Nat /\ last \in Nat /\ capture.frames \in Nat
         /\ cycle * span \in Nat /\ (cycle + 1) * span = cycle * span + span
         /\ inside \in Seq(Nat) /\ Newest \in Nat
<1>1. idx \in Nat /\ cycle \in Nat /\ span \in Nat /\ last \in Nat /\ capture.frames \in Nat
      /\ inside \in Seq(Nat)
  BY PcapAssumption, TypeParts DEF FeederTypeOK, MiniTypeOK
<1>2. cycle * span \in Nat
  BY <1>1
<1>3. (cycle + 1) * span = cycle * span + span
  BY <1>1
<1>4. Newest \in Nat
  <2>1. inside # <<>> => Len(inside) \in 1..Len(inside)
    BY <1>1
  <2> QED BY <1>1, <2>1 DEF Newest
<1> QED BY <1>1, <1>2, <1>3, <1>4

(* What enters the queue is the newest; what leaves it is the last.        *)
LEMMA Pushed ==
  ASSUME PcapTypeOK, NEW n \in Nat, inside' = Append(inside, n)
  PROVE  /\ inside' # <<>> /\ Len(inside') = Len(inside) + 1 /\ inside'[Len(inside')] = n
         /\ \A k \in 1..Len(inside) : inside'[k] = inside[k]
BY StampIs

LEMMA Popped ==
  ASSUME PcapTypeOK, inside # <<>>, inside' = Tail(inside), last' = Head(inside)
  PROVE  /\ Len(inside) \in Nat \ {0} /\ Len(inside') = Len(inside) - 1
         /\ \A k \in 1..Len(inside') : k + 1 \in 1..Len(inside) /\ inside'[k] = inside[k + 1]
         /\ last' = inside[1]
         /\ Newest' = Newest
<1>1. inside \in Seq(Nat) /\ Len(inside) \in Nat \ {0} /\ Len(inside') = Len(inside) - 1
  BY StampIs
<1>2. \A k \in 1..Len(inside') : k + 1 \in 1..Len(inside) /\ inside'[k] = inside[k + 1]
  BY <1>1
<1>3. last' = inside[1]
  BY <1>1
<1>4. CASE Len(inside) = 1
  <2>1. inside' = <<>>
    BY <1>1, <1>4
  <2> QED BY <1>1, <1>2, <1>3, <1>4, <2>1 DEF Newest
<1>5. CASE Len(inside) # 1
  <2>1. Len(inside') \in 1..Len(inside') /\ Len(inside') + 1 = Len(inside)
    BY <1>1, <1>5
  <2>3. inside' # <<>>
    <3>1. Len(inside') # 0
      BY <2>1
    <3> QED BY <3>1
  <2>2. inside'[Len(inside')] = inside[Len(inside)]
    BY <1>2, <2>1
  <2> QED BY <1>1, <1>2, <1>3, <2>1, <2>2, <2>3 DEF Newest
<1> QED BY <1>4, <1>5, <1>1, <1>2, <1>3

(* One frame further is one unit of time later.                            *)
LEMMA StampNext ==
  ASSUME PcapTypeOK
  PROVE  Stamp(idx) \in Nat /\ Stamp(idx + 1) = Stamp(idx) + 1
BY StampIs DEF Stamp

(* The stamps in the queue, and the newest.                                *)
InOrder ==
  /\ \A k \in 1..Len(inside) : last < inside[k]
  /\ \A j, k \in 1..Len(inside) : j < k => inside[j] < inside[k]

(* A frame that goes out, or in, keeps the order.                          *)
LEMMA OrderKept ==
  ASSUME PcapTypeOK, InOrder, Newest < Stamp(idx)
  PROVE  /\ inside' = Append(inside, Stamp(idx)) /\ last' = last => InOrder' /\ Newest' = Stamp(idx)
         /\ inside = <<>> /\ inside' = <<>> /\ last' = Stamp(idx) => InOrder' /\ Newest' = Stamp(idx)
<1>1. inside \in Seq(Nat) /\ last \in Nat /\ Stamp(idx) \in Nat /\ Newest \in Nat
  BY StampIs, StampNext
<1>2. ASSUME inside' = Append(inside, Stamp(idx)), last' = last
      PROVE  InOrder' /\ Newest' = Stamp(idx)
  <2> DEFINE n == Stamp(idx)  m == Len(inside)
  <2>1. /\ inside' # <<>> /\ Len(inside') = m + 1 /\ inside'[m + 1] = n
        /\ \A k \in 1..m : inside'[k] = inside[k]
        /\ n \in Nat /\ m \in Nat
    BY <1>1, <1>2, Pushed
  <2>2. \A k \in 1..m : inside[k] \in Nat /\ last < inside[k] /\ inside[k] < n
    <3> SUFFICES ASSUME NEW k \in 1..m PROVE inside[k] \in Nat /\ last < inside[k] /\ inside[k] < n
      OBVIOUS
    <3>1. inside # <<>> /\ m \in 1..m /\ inside[k] \in Nat /\ inside[m] \in Nat
      BY <1>1
    <3>2. inside[m] < n
      BY <3>1 DEF Newest
    <3>3. k = m \/ inside[k] < inside[m]
      BY <3>1 DEF InOrder
    <3> QED BY <3>1, <3>2, <3>3, <2>1 DEF InOrder
  <2>3. last < n
    BY <1>1, <2>1, <2>2 DEF Newest
  <2> HIDE DEF n, m
  <2>4. InOrder'
    <3>1. ASSUME NEW k \in 1..Len(inside') PROVE last' < inside'[k]
      <4>1. k = m + 1 \/ k \in 1..m
        BY <2>1
      <4> QED BY <4>1, <1>2, <2>1, <2>2, <2>3
    <3>2. ASSUME NEW j \in 1..Len(inside'), NEW k \in 1..Len(inside'), j < k
          PROVE  inside'[j] < inside'[k]
      <4>1. j \in 1..m /\ (k = m + 1 \/ k \in 1..m)
        BY <3>2, <2>1
      <4>2. k \in 1..m => inside[j] < inside[k]
        BY <3>2, <4>1 DEF InOrder, m
      <4> QED BY <4>1, <4>2, <2>1, <2>2
    <3> QED BY <3>1, <3>2 DEF InOrder
  <2> QED BY <2>1, <2>4 DEF Newest, n
<1>3. ASSUME inside' = <<>>, last' = Stamp(idx)
      PROVE  InOrder' /\ Newest' = Stamp(idx)
  <2>1. Len(inside') = 0
    BY <1>3
  <2>2. 1..Len(inside') = {}
    BY <2>1
  <2> QED BY <1>3, <2>2 DEF InOrder, Newest
<1> QED BY <1>2, <1>3


(* The span of a whole pass does not move the stamps of the first.         *)
LEMMA FullSpan ==
  ASSUME PcapTypeOK, PassInv, UNCHANGED <<idx, cycle>>, span' = IF span = 0 THEN idx ELSE span
  PROVE  Stamp(idx)' = Stamp(idx)
<1>1. idx \in Nat /\ cycle \in Nat /\ span \in Nat
  BY StampIs
<1>2. cycle * span' = cycle * span
  <2>1. CASE span = 0
    <3>1. cycle = 0 /\ span' = idx
      BY <2>1 DEF PassInv
    <3>2. cycle * span = 0 /\ cycle * idx = 0
      BY <1>1, <3>1
    <3> QED BY <3>1, <3>2
  <2>2. CASE span # 0
    BY <2>2
  <2> QED BY <2>1, <2>2
<1> QED BY <1>2 DEF Stamp

LEMMA StampStep ==
  ASSUME PcapTypeOK, PassInv, MiniInv, StampInv, [PcapNext]_pcapVars
  PROVE  StampInv'
<1> DEFINE OneSpan == span # 0 => span = capture.frames
           Kept == Newest <= Stamp(idx) /\ (InHand => Newest < Stamp(idx))
<1>0. (StampInv <=> (~early => OneSpan /\ InOrder /\ Kept))
      /\ ((~early' => OneSpan' /\ InOrder' /\ Kept') => StampInv')
  BY DEF StampInv, InOrder
<1> SUFFICES ASSUME ~early' PROVE OneSpan' /\ InOrder' /\ Kept'
  BY <1>0
<1>1. ~early /\ capture' = capture
  <2>1. CASE Restart
    <3>1. early' = (early \/ (span = 0 /\ idx < capture.frames)) /\ capture' = capture
      BY <2>1 DEF Restart, FeederOnly
    <3> QED BY <3>1, Zenon
  <2>2. CASE ~Restart
    <3>1. early' = early /\ capture' = capture
      BY <2>2, PcapStepCases DEF pcapVars, FeederOnly, MiniOnly, MainOnly, Read, PassEnds,
           PassRaises, Hold, Poll, Pace, GoOn, Held, DeliverRaw, Push, PushRejected, Delivered,
           Restart, Wrap, FeedEnds, SendEos, history, DrainEnds, DrainTimesOut, DrainFails,
           FeedOver, Mark, Record, Drain, MiniError, OnMiniEos, OnMiniError, Answer, Ask, Stop,
           Joined, GateThread
    <3> QED BY <3>1, Zenon
  <2> QED BY <2>1, <2>2
<1>2. OneSpan /\ InOrder /\ Kept
  BY <1>0, <1>1
<1>3. /\ idx \in Nat /\ cycle \in Nat /\ span \in Nat /\ last \in Nat /\ capture.frames \in Nat
      /\ cycle * span \in Nat /\ (cycle + 1) * span = cycle * span + span
      /\ inside \in Seq(Nat) /\ Newest \in Nat /\ idx <= capture.frames
      /\ Stamp(idx) \in Nat /\ Stamp(idx + 1) = Stamp(idx) + 1
  BY StampIs, StampNext, TypeParts DEF FeederTypeOK
<1>4. CASE UNCHANGED <<inside, last, idx, cycle, span>> /\ (InHand' => InHand)
  <2>1. InOrder' /\ Newest' = Newest /\ Stamp(idx)' = Stamp(idx)
    BY <1>2, <1>4 DEF InOrder, Newest, Stamp
  <2> QED BY <1>1, <1>2, <1>4, <2>1
<1>5. CASE Read
  <2>1. UNCHANGED <<inside, last, cycle, span>>
    BY <1>5 DEF Read, GoOn, history
  <2>2. CASE UNCHANGED idx /\ feeder' = "end"
    BY <1>4, <2>1, <2>2 DEF InHand
  <2>3. CASE idx' = idx + 1
    <3>1. InOrder' /\ Newest' = Newest /\ Stamp(idx)' = Stamp(idx + 1)
      BY <1>2, <2>1, <2>3 DEF InOrder, Newest, Stamp
    <3> QED BY <1>1, <1>2, <1>3, <2>1, <3>1
  <2> QED BY <1>5, <2>2, <2>3 DEF Read
<1>6. CASE Hold \/ Poll \/ Pace \/ PushRejected \/ PassEnds \/ PassRaises \/ SendEos
           \/ DrainEnds \/ DrainTimesOut \/ DrainFails \/ FeedOver \/ Mark
  BY <1>4, <1>6 DEF Hold, Poll, Pace, PushRejected, PassEnds, PassRaises, SendEos, InHand, Held,
       GoOn, Delivered, DrainEnds, DrainTimesOut, DrainFails, FeedOver, Mark, history
<1>7. CASE DeliverRaw \/ Push
  <2>1. feeder = "deliver" /\ feeder' = "read" /\ UNCHANGED <<idx, cycle, span>>
    BY <1>7 DEF DeliverRaw, Push, Delivered
  <2>2. Newest < Stamp(idx) /\ ~InHand' /\ Stamp(idx)' = Stamp(idx)
    BY <1>2, <2>1 DEF InHand, Stamp
  <2>3. InOrder' /\ Newest' = Stamp(idx)
    <3>1. CASE Push
      BY <3>1, <1>2, <2>2, OrderKept DEF Push
    <3>2. CASE DeliverRaw
      <4>1. inside = <<>> /\ inside' = <<>> /\ last' = Stamp(idx)
        BY <3>2 DEF DeliverRaw, MiniInv
      <4> QED BY <4>1, <1>2, <2>2, OrderKept
    <3> QED BY <1>7, <3>1, <3>2
  <2> QED BY <1>1, <1>2, <1>3, <2>1, <2>2, <2>3
<1>8. CASE Restart \/ Wrap
  <2>1. /\ UNCHANGED <<inside, last>> /\ feeder' = "read" /\ idx' = 0 /\ cycle' = cycle + 1
        /\ span' = IF span = 0 THEN idx ELSE span
    BY <1>8 DEF Restart, Wrap, Wraps, NextCycle, Measured
  <2>2. span = 0 => idx = capture.frames
    <3>1. CASE Restart
      <4>1. early' = (early \/ (span = 0 /\ idx < capture.frames))
        BY <3>1 DEF Restart
      <4>2. ~(span = 0 /\ idx < capture.frames)
        BY <4>1, Zenon
      <4> QED BY <4>2, <1>3
    <3>2. CASE Wrap
      BY <3>2 DEF Wrap, PassInv
    <3> QED BY <1>8, <3>1, <3>2
  <2>3. span = 0 => cycle = 0
    BY DEF PassInv
  <2>4. span' = capture.frames
    BY <1>2, <2>1, <2>2
  <2>5. Stamp(idx)' = (cycle + 1) * span'
    <3>1. (cycle + 1) * span' \in Nat
      BY <1>3, <2>4
    <3> QED BY <2>1, <3>1 DEF Stamp
  <2>6. Stamp(idx) <= Stamp(idx)'
    <3>1. CASE span = 0
      <4>1. Stamp(idx) = idx
        <5>1. cycle * span = 0
          BY <2>3, <3>1
        <5> QED BY <5>1, <1>3 DEF Stamp
      <4>2. Stamp(idx)' = idx
        <5>1. (cycle + 1) * span' = span'
          BY <2>3, <2>4, <1>3, <3>1
        <5> QED BY <5>1, <2>1, <2>5, <3>1
      <4> QED BY <4>1, <4>2, <1>3
    <3>2. CASE span # 0
      <4>1. Stamp(idx)' = cycle * span + span /\ Stamp(idx) = cycle * span + idx
        BY <1>3, <2>1, <2>5, <3>2 DEF Stamp
      <4>2. span = capture.frames
        BY <1>2, <3>2
      <4> DEFINE c == cycle * span
      <4>3. c \in Nat /\ Stamp(idx)' = c + span /\ Stamp(idx) = c + idx
        BY <1>3, <4>1
      <4> HIDE DEF c
      <4> QED BY <1>3, <4>2, <4>3
    <3> QED BY <3>1, <3>2
  <2>7. InOrder' /\ Newest' = Newest /\ ~InHand'
    BY <1>2, <2>1 DEF InOrder, Newest, InHand
  <2>8. Stamp(idx)' \in Nat
    <3>1. (cycle + 1) * span' \in Nat
      BY <1>3, <2>4
    <3> QED BY <3>1, <2>5
  <2> QED BY <1>1, <1>2, <1>3, <2>4, <2>6, <2>7, <2>8
<1>9. CASE FeedEnds
  <2>1. /\ UNCHANGED <<inside, last, idx, cycle>> /\ feeder' = "feedEnds" /\ idx = capture.frames
        /\ span' = IF span = 0 THEN idx ELSE span
    BY <1>9 DEF FeedEnds, Measured, history, PassInv
  <2>2. Stamp(idx)' = Stamp(idx)
    BY <2>1, FullSpan
  <2>3. InOrder' /\ Newest' = Newest /\ ~InHand'
    BY <1>2, <2>1 DEF InOrder, Newest, InHand
  <2> QED BY <1>1, <1>2, <2>1, <2>2, <2>3
<1>10. CASE Record
  <2>1. UNCHANGED <<feeder, idx, cycle, span>> /\ inside # <<>> /\ inside' = Tail(inside) /\ last' = Head(inside)
    BY <1>10 DEF Record, MiniOnly, feederVars
  <2>2. /\ Len(inside) \in Nat \ {0} /\ Len(inside') = Len(inside) - 1
        /\ \A k \in 1..Len(inside') : k + 1 \in 1..Len(inside) /\ inside'[k] = inside[k + 1]
        /\ last' = inside[1]
        /\ Newest' = Newest
    BY <2>1, Popped
  <2>3. InOrder'
    <3>1. ASSUME NEW k \in 1..Len(inside') PROVE last' < inside'[k]
      <4>1. 1 < k + 1 /\ 1 \in 1..Len(inside) /\ k + 1 \in 1..Len(inside)
        BY <2>2
      <4>2. inside[1] < inside[k + 1]
        BY <1>2, <4>1 DEF InOrder
      <4> QED BY <2>2, <4>2
    <3>2. ASSUME NEW j \in 1..Len(inside'), NEW k \in 1..Len(inside'), j < k
          PROVE  inside'[j] < inside'[k]
      <4>1. j + 1 < k + 1 /\ j + 1 \in 1..Len(inside) /\ k + 1 \in 1..Len(inside)
        BY <2>2, <3>2
      <4>2. inside[j + 1] < inside[k + 1]
        BY <1>2, <4>1 DEF InOrder
      <4> QED BY <2>2, <4>2
    <3> QED BY <3>1, <3>2 DEF InOrder
  <2>4. Stamp(idx)' = Stamp(idx) /\ (InHand' <=> InHand)
    BY <2>1 DEF Stamp, InHand
  <2> QED BY <1>1, <1>2, <2>1, <2>2, <2>3, <2>4
<1>11. CASE Stop
  <2>1. UNCHANGED <<feeder, idx, cycle, span, last>> /\ inside' = <<>>
    BY <1>11 DEF Stop, feederVars, history
  <2>2. last <= Newest
    <3>1. inside # <<>> => Len(inside) \in 1..Len(inside)
      BY <1>3
    <3> QED BY <1>2, <1>3, <3>1 DEF InOrder, Newest
  <2>3. InOrder' /\ Newest' = last
    <3>1. Len(inside') = 0
      BY <2>1
    <3>2. 1..Len(inside') = {}
      BY <3>1
    <3> QED BY <2>1, <3>2 DEF InOrder, Newest
  <2>4. Stamp(idx)' = Stamp(idx) /\ (InHand' <=> InHand)
    BY <2>1 DEF Stamp, InHand
  <2> QED BY <1>1, <1>2, <1>3, <2>1, <2>2, <2>3, <2>4
<1>12. CASE Drain \/ MiniError \/ OnMiniEos \/ OnMiniError \/ Answer \/ (\E op \in Ops : Ask(op))
            \/ Joined \/ GateThread \/ UNCHANGED pcapVars
  BY <1>4, <1>12 DEF Drain, MiniError, OnMiniEos, OnMiniError, Answer, Ask, Joined, GateThread,
       pcapVars, MiniOnly, MainOnly, feederVars, miniVars, history, InHand
<1> QED BY <1>5, <1>6, <1>7, <1>8, <1>9, <1>10, <1>11, <1>12, PcapStepCases

-------------------------------------------------------------------------------
(* The end.                                                                *)

(* A failure and a stop are for good.                                      *)
LEMMA FailureStays ==
  ASSUME PcapTypeOK, [PcapNext]_pcapVars
  PROVE  /\ ~failed' /\ ~Stopped' => ~failed /\ ~Stopped
         /\ capture' = capture
<1>1. capture' = capture
  BY PcapStepCases DEF pcapVars, FeederOnly, MiniOnly, MainOnly, Read, PassEnds, PassRaises, Hold,
       Poll, Pace, DeliverRaw, Push, PushRejected, Delivered, Restart, Wrap, FeedEnds, SendEos,
       DrainEnds, DrainTimesOut, DrainFails, FeedOver, Mark, Record, Drain, MiniError, OnMiniEos,
       OnMiniError, Answer, Ask, Stop, Joined, GateThread
<1>2. Stopped => Stopped'
  BY PcapStepCases DEF Stopped, pcapVars, FeederOnly, MiniOnly, MainOnly, mainVars, Read,
       PassEnds, PassRaises, Hold, Poll, Pace, DeliverRaw, Push, PushRejected, Delivered, Restart,
       Wrap, FeedEnds, SendEos, DrainEnds, DrainTimesOut, DrainFails, FeedOver, Mark, Record,
       Drain, MiniError, OnMiniEos, OnMiniError, Answer, Ask, Stop, Joined, GateThread
<1>3. failed' = failed \/ failed' = TRUE
  BY PcapStepCases DEF pcapVars, endVars, GoOn, Held, Wraps, MiniOnly, Read, PassEnds, PassRaises,
       Hold, Poll, Pace, DeliverRaw, Push, PushRejected, Delivered, Restart, Wrap, FeedEnds,
       SendEos, DrainEnds, DrainTimesOut, DrainFails, FeedOver, Mark, Record, Drain, MiniError,
       OnMiniEos, OnMiniError, Answer, Ask, Stop, Joined, GateThread
<1>4. ~failed' => ~failed
  BY <1>3, Zenon
<1> QED BY <1>1, <1>2, <1>4

(* What WholeInv says of a playback that nothing disturbed.                *)
Undisturbed ==
  /\ feeder \in {"wrap", "feedEnds", "drain"} => Newest = Stamp(idx)
  /\ feeder = "read" /\ idx > 0 => Newest = Stamp(idx)
  /\ Behind => idx = capture.frames /\ ~capture.corrupt /\ Newest = Stamp(idx)
  /\ feeder \in {"drain", "late"} => capture.mjpeg
  /\ capture.mjpeg /\ feeder \in {"end", "mark", "off"} => mini = "drained"
  /\ finished => inside = <<>> /\ Behind
  /\ finished /\ capture.mjpeg => mini = "drained"

LEMMA UndisturbedStep ==
  ASSUME PcapTypeOK, PassInv, MiniInv, Undisturbed, ~failed, ~Stopped, [PcapNext]_pcapVars, ~failed', ~Stopped'
  PROVE  Undisturbed'
<1>1. capture' = capture
  BY FailureStays
<1>2. /\ idx \in Nat /\ cycle \in Nat /\ span \in Nat /\ last \in Nat /\ capture.frames \in Nat
      /\ inside \in Seq(Nat) /\ Stamp(idx) \in Nat /\ feeder \in FeederPoint /\ idx <= capture.frames
  BY StampIs, StampNext, TypeParts DEF FeederTypeOK
<1>3. CASE UNCHANGED <<feeder, idx, cycle, span, inside, last, mini, finished>>
  <2>1. Newest' = Newest /\ Stamp(idx)' = Stamp(idx)
    BY <1>3 DEF Newest, Stamp
  <2> QED BY <1>1, <1>3, <2>1 DEF Undisturbed, Behind
<1>4. CASE \/ UNCHANGED <<cycle, span, inside, last, mini, finished>>
              /\ feeder' \in {"hold", "poll", "pace", "deliver", "restart"}
              /\ ~Behind
  <2>1. ~finished
    BY <1>4 DEF Undisturbed
  <2> QED BY <1>4, <2>1 DEF Undisturbed, Behind
<1>5. CASE Read
  BY <1>4, <1>5 DEF Read, GoOn, endVars, history, Behind, Stopped
<1>6. CASE PassEnds
  <2>1. /\ UNCHANGED <<idx, cycle, span, inside, last, mini, finished>>
        /\ feeder = "read" /\ idx = capture.frames /\ feeder' = "wrap" /\ ~capture.corrupt
    BY <1>6 DEF PassEnds, GoOn, endVars, history
  <2>2. Newest' = Newest /\ Stamp(idx)' = Stamp(idx) /\ idx > 0
    BY <1>2, <2>1 DEF Newest, Stamp, PassInv
  <2> QED BY <1>1, <2>1, <2>2 DEF Undisturbed, Behind
<1>7. CASE PassRaises
  <2>1. failed' = TRUE
    BY <1>7 DEF PassRaises
  <2> QED BY <2>1, Zenon
<1>8. CASE Hold \/ Poll \/ Pace
  <2>1. UNCHANGED <<cycle, span, inside, last, mini, finished>> /\ ~Behind
    BY <1>8 DEF Hold, Poll, Pace, Held, endVars, history, Behind
  <2>2. feeder' \in {"hold", "poll", "pace", "deliver", "restart"}
    BY <1>8 DEF Hold, Poll, Pace, AfterHold, Verdict
  <2> QED BY <1>4, <2>1, <2>2
<1>9. CASE DeliverRaw \/ Push \/ PushRejected
  <2>1. UNCHANGED <<idx, cycle, span, mini, finished>> /\ feeder = "deliver" /\ feeder' = "read"
    BY <1>9 DEF DeliverRaw, Push, PushRejected, Delivered, endVars
  <2>2. ~finished
    BY <2>1 DEF Undisturbed, Behind
  <2>3. Newest' = Stamp(idx)'
    <3>1. Stamp(idx)' = Stamp(idx)
      BY <2>1 DEF Stamp
    <3>2. CASE DeliverRaw
      BY <3>1, <3>2 DEF DeliverRaw, MiniInv, Newest
    <3>3. CASE Push
      <4>1. inside' # <<>> /\ inside'[Len(inside')] = Stamp(idx)
        BY <1>2, <3>3, Pushed DEF Push
      <4> QED BY <3>1, <4>1 DEF Newest
    <3>4. ~PushRejected
      <4> SUFFICES ASSUME PushRejected PROVE FALSE
        OBVIOUS
      <4>1. capture.mjpeg /\ mini = "null"
        BY DEF PushRejected
      <4> QED BY <4>1 DEF MiniInv
    <3> QED BY <1>9, <3>2, <3>3, <3>4
  <2> QED BY <2>1, <2>2, <2>3 DEF Undisturbed, Behind
<1>10. CASE Restart \/ Wrap
  <2>1. UNCHANGED <<inside, last, mini, finished>> /\ feeder \in {"restart", "wrap"} /\ feeder' = "read" /\ idx' = 0
    BY <1>10 DEF Restart, Wrap, Wraps, NextCycle, endVars
  <2>2. ~finished
    BY <2>1 DEF Undisturbed, Behind
  <2> QED BY <2>1, <2>2 DEF Undisturbed, Behind
<1>11. CASE FeedEnds
  <2>1. /\ UNCHANGED <<idx, cycle, inside, last, mini, finished>> /\ feeder = "wrap" /\ feeder' = "feedEnds"
        /\ span' = IF span = 0 THEN idx ELSE span
    BY <1>11 DEF FeedEnds, Measured, endVars, history
  <2>2. Stamp(idx)' = Stamp(idx)
    BY <2>1, FullSpan
  <2>3. ~finished /\ Newest' = Newest
    BY <2>1 DEF Undisturbed, Behind, Newest
  <2> QED BY <2>1, <2>2, <2>3 DEF Undisturbed, Behind
<1>12. CASE SendEos
  <2>1. /\ UNCHANGED <<idx, cycle, span, inside, last, finished>> /\ feeder = "feedEnds"
        /\ feeder' = IF capture.mjpeg /\ mini # "null" THEN "drain" ELSE "end"
        /\ capture.mjpeg => mini # "null"
    BY <1>12 DEF SendEos, endVars, history, MiniInv
  <2>2. Stamp(idx)' = Stamp(idx) /\ ~finished /\ Newest' = Newest
    BY <2>1 DEF Undisturbed, Behind, Newest, Stamp
  <2>3. idx = capture.frames /\ ~capture.corrupt
    BY <2>1 DEF PassInv
  <2> QED BY <1>1, <2>1, <2>2, <2>3 DEF Undisturbed, Behind
<1>13. CASE DrainEnds \/ DrainTimesOut
  <2>1. /\ UNCHANGED <<idx, cycle, span, inside, last, mini, finished>> /\ feeder = "drain"
        /\ feeder' \in {"end", "late"} /\ (feeder' = "end" => finished)
    BY <1>13 DEF DrainEnds, DrainTimesOut, GoOn, endVars, history
  <2>2. Stamp(idx)' = Stamp(idx) /\ Newest' = Newest
    BY <2>1 DEF Newest, Stamp
  <2> QED BY <1>1, <2>1, <2>2 DEF Undisturbed, Behind
<1>14. CASE DrainFails
  <2>1. failed' = TRUE
    BY <1>14 DEF DrainFails
  <2> QED BY <2>1, Zenon
<1>15. CASE FeedOver \/ Mark
  <2>1. /\ UNCHANGED <<idx, cycle, span, inside, last, mini>> /\ feeder \in {"end", "mark"}
        /\ feeder' \in {"mark", "off"}
    BY <1>15 DEF FeedOver, Mark, Held, endVars, history
  <2>2. Stamp(idx)' = Stamp(idx) /\ Newest' = Newest
    BY <2>1 DEF Newest, Stamp
  <2>3. capture.mjpeg => mini = "drained"
    BY <2>1 DEF Undisturbed
  <2>4. inside = <<>>
    BY <2>3 DEF MiniInv
  <2> QED BY <1>1, <2>1, <2>2, <2>3, <2>4 DEF Undisturbed, Behind
<1>16. CASE Record
  <2>1. UNCHANGED <<feeder, idx, cycle, span, mini, finished>> /\ inside # <<>>
        /\ inside' = Tail(inside) /\ last' = Head(inside)
    BY <1>16 DEF Record, MiniOnly, feederVars, endVars
  <2>2. Stamp(idx)' = Stamp(idx) /\ Newest' = Newest /\ ~finished
    BY <2>1, Popped DEF Stamp, Undisturbed
  <2> QED BY <1>1, <2>1, <2>2 DEF Undisturbed, Behind
<1>17. CASE Drain \/ MiniError
  <2>1. /\ UNCHANGED <<feeder, idx, cycle, span, inside, last, finished>> /\ mini \in {"playing", "eos"}
    BY <1>17 DEF Drain, MiniError, MiniOnly, feederVars, endVars
  <2>2. Stamp(idx)' = Stamp(idx) /\ Newest' = Newest
    BY <2>1 DEF Newest, Stamp
  <2>3. capture.mjpeg
    BY <2>1 DEF MiniInv
  <2>4. ~finished /\ feeder \notin {"end", "mark", "off"}
    BY <2>1, <2>3 DEF Undisturbed
  <2> QED BY <1>1, <2>1, <2>2, <2>4 DEF Undisturbed, Behind
<1>18. CASE OnMiniEos
  <2>1. /\ UNCHANGED <<feeder, idx, cycle, span, inside, last, mini>> /\ "eos" \in bus
    BY <1>18 DEF OnMiniEos, MainOnly, feederVars
  <2>2. Stamp(idx)' = Stamp(idx) /\ Newest' = Newest
    BY <2>1 DEF Newest, Stamp
  <2>3. mini = "drained" /\ inside = <<>> /\ Behind
    BY <2>1 DEF MiniInv
  <2> QED BY <1>1, <2>1, <2>2, <2>3 DEF Undisturbed, Behind
<1>19. CASE OnMiniError
  <2>1. failed' = TRUE
    BY <1>19 DEF OnMiniError
  <2> QED BY <2>1, Zenon
<1>20. CASE Stop
  BY <1>20 DEF Stop, Stopped
<1>21. CASE Answer \/ (\E op \in Ops : Ask(op)) \/ Joined \/ GateThread \/ UNCHANGED pcapVars
  BY <1>3, <1>21 DEF Answer, Ask, Joined, GateThread, pcapVars, MainOnly, feederVars, endVars,
       miniVars, history
<1> QED BY <1>5, <1>6, <1>7, <1>8, <1>9, <1>10, <1>11, <1>12, <1>13, <1>14, <1>15, <1>16, <1>17, <1>18,
           <1>19, <1>20, <1>21, PcapStepCases

LEMMA WholeParts ==
  WholeInv <=> /\ ~failed /\ ~Stopped => Undisturbed
               /\ state = "finished" => feeder = "off" /\ refusal = failed
BY DEF WholeInv, Undisturbed

LEMMA WholeStep ==
  ASSUME PcapTypeOK, PassInv, MiniInv, WholeInv, [PcapNext]_pcapVars
  PROVE  WholeInv'
<1> DEFINE Told == state = "finished" => feeder = "off" /\ refusal = failed
           Well == ~failed /\ ~Stopped => Undisturbed
<1>1. Well /\ Told /\ (Well' /\ Told' => WholeInv')
  BY WholeParts DEF WholeInv, Undisturbed
<1>2. Well'
  <2> SUFFICES ASSUME ~failed', ~Stopped' PROVE Undisturbed'
    OBVIOUS
  <2>1. ~failed /\ ~Stopped
    BY FailureStays
  <2> QED BY <1>1, <2>1, UndisturbedStep
<1>3. Told'
  <2>1. CASE UNCHANGED <<feeder, state, refusal, failed>>
    BY <1>1, <2>1
  <2>2. CASE UNCHANGED state /\ feeder # "off"
    BY <1>1, <2>2
  <2>3. CASE Read \/ PassEnds \/ PassRaises \/ Hold \/ Poll \/ Pace \/ DeliverRaw \/ Push \/ PushRejected
             \/ Restart \/ Wrap \/ FeedEnds \/ SendEos \/ DrainEnds \/ DrainTimesOut \/ DrainFails \/ FeedOver
    BY <2>2, <2>3 DEF Read, PassEnds, PassRaises, Hold, Poll, Pace, DeliverRaw, Push,
         PushRejected, Delivered, Restart, Wrap, Wraps, FeedEnds, SendEos, DrainEnds,
         DrainTimesOut, DrainFails, FeedOver, GoOn, TakePreroll, TakeVerdict, TakeRestart,
         policyVars
  <2>4. CASE Mark
    <3>1. feeder = "mark" /\ feeder' = "off" /\ failed' = failed
      BY <2>4 DEF Mark, Held, endVars
    <3>2. state # "finished"
      BY <1>1, <3>1
    <3>3. (state' = "finished" /\ refusal' = failed) \/ state' = state
      BY <2>4 DEF Mark, policyVars
    <3> QED BY <3>1, <3>2, <3>3
  <2>5. CASE Record \/ Drain \/ MiniError \/ OnMiniEos \/ Answer \/ Stop \/ Joined \/ UNCHANGED pcapVars
    BY <2>1, <2>5 DEF Record, Drain, MiniError, MiniOnly, OnMiniEos, MainOnly, Answer, Stop,
         Joined, pcapVars, policyVars, feederVars, endVars
  <2>6. CASE OnMiniError
    <3>1. UNCHANGED <<feeder, state, refusal>> /\ failed' = TRUE /\ "error" \in bus
      BY <2>6 DEF OnMiniError, MainOnly, policyVars, feederVars
    <3>2. mini = "error" /\ capture.mjpeg /\ ~Stopped
      BY <3>1 DEF MiniInv
    <3>3. feeder = "off" => failed
      BY <1>1, <3>2 DEF Undisturbed
    <3>4. failed => failed' = failed
      BY <3>1, Zenon DEF PcapTypeOK
    <3> QED BY <1>1, <3>1, <3>3, <3>4
  <2>7. CASE \E op \in Ops : Ask(op)
    <3>1. UNCHANGED <<feeder, failed>>
      BY <2>7 DEF Ask, MainOnly, feederVars, endVars
    <3>2. CASE state = "finished"
      BY <1>1, <2>7, <3>1, <3>2 DEF Ask, policyVars
    <3>3. CASE state # "finished"
      <4>1. state' # "finished"
        BY <2>7, <3>3 DEF Ask, Serve, policyVars
      <4> QED BY <4>1
    <3> QED BY <3>2, <3>3
  <2>8. CASE GateThread
    <3>1. UNCHANGED <<feeder, failed>>
      BY <2>8 DEF GateThread, feederVars, endVars
    <3>2. CASE state = "finished"
      <4>1. UNCHANGED policyVars
        BY <2>8, <3>2 DEF GateThread, GateFires, GateResumes, Serve, AlreadySo
      <4> QED BY <1>1, <3>1, <4>1 DEF policyVars
    <3>3. CASE state # "finished"
      <4>1. state' # "finished"
        BY <2>8, <3>3 DEF GateThread, GateFires, GateResumes, Serve, policyVars
      <4> QED BY <4>1
    <3> QED BY <3>2, <3>3
  <2> QED BY <2>3, <2>4, <2>5, <2>6, <2>7, <2>8, PcapStepCases
<1> QED BY <1>1, <1>2, <1>3

-------------------------------------------------------------------------------
LEMMA PcapInitHolds == PcapInit => PcapIInv
<1> SUFFICES ASSUME PcapInit PROVE PcapIInv
  OBVIOUS
<1> USE PcapAssumption
<1>1. ControlTypeOK
  BY DEF PcapInit, ControlInit, ControlTypeOK
<1>2. /\ FeederTypeOK /\ MiniTypeOK /\ MainTypeOK
      /\ feeder = "read" /\ idx = 0 /\ span = 0 /\ cycle = 0 /\ inside = <<>> /\ last = 0
      /\ (capture.frames = 0 => capture.corrupt) /\ bus = {} /\ stop = "no" /\ ~finished /\ spare
      /\ mini = IF capture.mjpeg THEN "playing" ELSE "null"
  <2>1. <<>> \in Seq(Nat) /\ Len(<<>>) = 0
    OBVIOUS
  <2> QED BY <2>1 DEF PcapInit, FeederTypeOK, FeederPoint, MiniTypeOK, MainTypeOK
<1>3. EndTypeOK
  BY Zenon DEF PcapInit, EndTypeOK
<1>4. PcapTypeOK
  BY <1>1, <1>2, <1>3, TypeParts
<1>5. PassInv /\ MiniInv /\ HoldInv
  BY <1>2 DEF PassInv, MiniInv, HoldInv, InHand, Behind, Stopped
<1>6. StampInv
  <2>1. Newest = 0 /\ Stamp(idx) = 0 /\ 1..Len(inside) = {}
    BY <1>2 DEF Newest, Stamp
  <2> QED BY <1>2, <2>1 DEF StampInv, InHand
<1>7. WholeInv
  BY <1>2, WholeParts DEF Undisturbed, Behind, PcapInit, ControlInit
<1> QED BY <1>4, <1>5, <1>6, <1>7 DEF PcapIInv

LEMMA PcapInvariance == PcapSpec => []PcapIInv
<1>1. PcapIInv /\ [PcapNext]_pcapVars => PcapIInv'
  <2> SUFFICES ASSUME PcapIInv, [PcapNext]_pcapVars PROVE PcapIInv'
    OBVIOUS
  <2>1. PcapTypeOK'
    BY PcapTypeStep DEF PcapIInv
  <2>2. PassInv' /\ MiniInv' /\ StampInv' /\ WholeInv' /\ HoldInv'
    BY PassStep, MiniStep, StampStep, WholeStep, HoldStep DEF PcapIInv
  <2> QED BY <2>1, <2>2 DEF PcapIInv
<1> QED BY <1>1, PcapInitHolds, PTL DEF PcapSpec

-------------------------------------------------------------------------------
(* The theorems.                                                           *)

(* An end that is no failure is that of a capture played to its last       *)
(* frame, all of which the recorder has got; what the control surface says *)
(* of it is what happened (pcapsrc.py:470-540, 600-660).                   *)
THEOREM CaptureEndsAsTold == PcapSpec => []EndIsHonest
<1>1. PcapIInv => EndIsHonest
  <2> SUFFICES ASSUME PcapIInv PROVE EndIsHonest
    OBVIOUS
  <2>1. PcapTypeOK /\ (state = "finished" => refusal = failed)
    BY DEF PcapIInv, WholeInv
  <2>2. ASSUME finished, ~failed, ~Stopped
        PROVE  inside = <<>> /\ last = Stamp(capture.frames) /\ ~capture.corrupt
    <3>1. Undisturbed
      BY <2>2, WholeParts DEF PcapIInv
    <3>2. inside = <<>> /\ Newest = Stamp(idx) /\ idx = capture.frames /\ ~capture.corrupt
      BY <2>2, <3>1 DEF Undisturbed
    <3> QED BY <3>2 DEF Newest
  <2> QED BY <2>1, <2>2 DEF EndIsHonest
<1> QED BY <1>1, PcapInvariance, PTL

(* A frame that comes out of the playback leaves the front of the queue,   *)
(* or goes straight to the consumer.                                       *)
LEMMA FramesOut ==
  ASSUME PcapTypeOK, PassInv, MiniInv, [PcapNext]_pcapVars, FrameOut
  PROVE  \/ DeliverRaw
         \/ Record
<1>1. inside \in Seq(Nat)
  BY TypeParts DEF MiniTypeOK
<1>2. CASE ~capture.mjpeg /\ feeder = "deliver" /\ feeder' = "read"
  BY <1>2, PcapStepCases DEF pcapVars, feederVars, Read, PassEnds, PassRaises, Hold, Poll, Pace,
       Push, PushRejected, Restart, Wrap, FeedEnds, SendEos, DrainEnds, DrainTimesOut, DrainFails,
       FeedOver, Mark, Record, Drain, MiniError, MiniOnly, MainOnly, OnMiniEos, OnMiniError,
       Answer, Ask, Stop, Joined, GateThread
<1>3. CASE inside # <<>> /\ inside' = Tail(inside) /\ mini' # "null"
  <2>1. inside' # inside
    <3>1. Len(inside') = Len(inside) - 1
      BY <1>1, <1>3
    <3> QED BY <1>1, <3>1
  <2>2. ~Push
    <3> SUFFICES ASSUME Push PROVE FALSE
      OBVIOUS
    <3>1. Len(inside') = Len(inside) - 1 /\ Len(inside) \in Nat
      BY <1>1, <1>3
    <3>2. Len(inside') = Len(inside) + 1
      BY StampNext, Pushed DEF Push
    <3> QED BY <3>1, <3>2
  <2>3. ~Stop
    BY <1>3 DEF Stop
  <2> QED BY <2>1, <2>2, <2>3, PcapStepCases DEF pcapVars, miniVars, Read, PassEnds, PassRaises,
       GoOn, Held, Hold, Poll, Pace, PushRejected, Restart, Wrap, Wraps, FeedEnds, SendEos,
       DrainEnds, DrainTimesOut, DrainFails, FeedOver, Mark, Drain, MiniError, MainOnly,
       OnMiniEos, OnMiniError, Answer, Ask, Joined, GateThread
<1> QED BY <1>2, <1>3 DEF FrameOut

(* For any capture, loops and restarts: the stamps increase over all       *)
(* cycles, unless a restart cut the very first pass short (playback.py:9).  *)
THEOREM CaptureStampsIncrease == PcapSpec => StampsIncrease
<1>1. PcapIInv /\ [PcapNext]_pcapVars => [FrameOut => last' > last \/ early]_pcapVars
  <2> SUFFICES ASSUME PcapIInv, [PcapNext]_pcapVars, FrameOut, ~early PROVE last' > last
    OBVIOUS
  <2>1. DeliverRaw \/ Record
    BY FramesOut DEF PcapIInv
  <2>2. last \in Nat /\ inside \in Seq(Nat) /\ Stamp(idx) \in Nat
    BY StampIs, StampNext DEF PcapIInv
  <2>3. CASE DeliverRaw
    <3>1. inside = <<>> /\ last' = Stamp(idx) /\ feeder = "deliver"
      BY <2>3 DEF DeliverRaw, MiniInv, PcapIInv
    <3>2. Newest < Stamp(idx)
      BY <3>1 DEF PcapIInv, StampInv, InHand
    <3> QED BY <2>2, <3>1, <3>2 DEF Newest
  <2>4. CASE Record
    <3>1. last' = inside[1] /\ 1 \in 1..Len(inside)
      BY <2>2, <2>4 DEF Record
    <3>2. last < inside[1] /\ inside[1] \in Nat
      BY <2>2, <3>1 DEF PcapIInv, StampInv
    <3> QED BY <2>2, <3>1, <3>2
  <2> QED BY <2>1, <2>3, <2>4
<1> QED BY <1>1, PcapInvariance, PTL DEF PcapSpec, StampsIncrease

(* Nothing goes out of a pause but the frame that was past the second hold *)
(* when it came, or the preview of a paused boot.                          *)
THEOREM CapturePauseHolds == PcapSpec => PauseHolds
<1>1. PcapIInv /\ [PcapNext]_pcapVars
        => [feeder = "deliver" /\ feeder' = "read" /\ state = "paused" => spare]_pcapVars
  BY DEF PcapIInv, HoldInv
<1> QED BY <1>1, PcapInvariance, PTL DEF PcapSpec, PauseHolds

-------------------------------------------------------------------------------
(* UvcFrames.                                                              *)

\* The sets an assembly's fields range over, named, so that they can stay folded.
States == {"AWAIT", "ACCUM", "SKIP"}
Fids == {0, 1, NoFid}
Buffers == Seq(Piece)
Starts == Piece \cup {<<>>}
OutFrame == [start : Piece, data : Buffers]
Outs == Seq(OutFrame)
Header == [sane : BOOLEAN, fid : 0..1, eof : BOOLEAN, err : BOOLEAN]
Streams == [mjpeg : BOOLEAN, bulk : BOOLEAN, ends : {"short", "empty", "size"}]

\* An assembly that accumulates has a first byte.
Started(s) == s \in Assembly /\ (s.state = "ACCUM" => s.start \in Piece)

LEMMA LastIsPositive ==
  ASSUME stream \in Streams PROVE Last \in Nat \ {0} /\ Last <= Pieces
BY UvcAssumption DEF Last, Streams

LEMMA PieceParts ==
  ASSUME NEW q \in Piece
  PROVE  /\ q[1] \in 1..(CamFrames + 1) /\ q[2] \in 1..Payloads /\ q[3] \in 0..Pieces
         /\ q = <<q[1], q[2], q[3]>>
BY DEF Piece

LEMMA AssemblyFields ==
  Assembly = [state : States, fid : Fids, buf : Buffers, start : Starts, out : Outs]
BY DEF Assembly, States, Fids, Buffers, Starts, Outs, OutFrame

LEMMA FieldValues ==
  /\ {"AWAIT", "ACCUM", "SKIP"} \subseteq States /\ 0..1 \subseteq Fids /\ <<>> \in Buffers
  /\ Piece \subseteq Starts
  /\ \A start \in Piece, data \in Buffers : [start |-> start, data |-> data] \in OutFrame
  /\ \A out \in Outs, o \in OutFrame : Append(out, o) \in Outs
  /\ \A b, d \in Buffers : b \o d \in Buffers
<1>1. /\ {"AWAIT", "ACCUM", "SKIP"} \subseteq States /\ 0..1 \subseteq Fids
      /\ Piece \subseteq Starts
  BY DEF States, Fids, Starts, NoFid
<1>2. <<>> \in Buffers /\ \A b, d \in Buffers : b \o d \in Buffers
  BY DEF Buffers
<1>3. \A start \in Piece, data \in Buffers : [start |-> start, data |-> data] \in OutFrame
  BY DEF OutFrame
<1>4. \A out \in Outs, o \in OutFrame : Append(out, o) \in Outs
  BY DEF Outs
<1>5. QED
  BY <1>1, <1>2, <1>3, <1>4

LEMMA FinalizeParts ==
  ASSUME NEW s, Started(s), s.state = "ACCUM"
  PROVE  LET t == Finalize(s) IN
         /\ t \in Assembly /\ t.buf = <<>>
         /\ t.state = s.state /\ t.fid = s.fid /\ t.start = s.start
         /\ t.out = IF Valid(s.buf) THEN Append(s.out, [start |-> s.start, data |-> s.buf]) ELSE s.out
<1> DEFINE v == IF Valid(s.buf) THEN Append(s.out, [start |-> s.start, data |-> s.buf]) ELSE s.out
<1>1. s \in Assembly /\ s.start \in Piece
  BY DEF Started
<1>2. s.buf \in Buffers /\ s.out \in Outs
  BY <1>1, AssemblyFields
<1>3. v \in Outs
  BY <1>1, <1>2, FieldValues
<1>4. Finalize(s) = [s EXCEPT !.buf = <<>>, !.out = v]
  BY DEF Finalize
<1> HIDE DEF v
<1>5. /\ Finalize(s) \in Assembly /\ Finalize(s).buf = <<>>
      /\ Finalize(s).state = s.state /\ Finalize(s).fid = s.fid /\ Finalize(s).start = s.start
      /\ Finalize(s).out = v
  BY <1>1, <1>3, <1>4, AssemblyFields, FieldValues
<1>6. QED
  BY <1>5 DEF v

LEMMA BeginParts ==
  ASSUME NEW s \in Assembly, NEW fid \in 0..1, NEW ts \in Piece
  PROVE  LET t == Begin(s, fid, ts) IN
         /\ t \in Assembly /\ t.buf = <<>> /\ t.state = "ACCUM" /\ t.fid = fid
         /\ t.start = ts /\ t.out = s.out
BY AssemblyFields, FieldValues DEF Begin

LEMMA AppendData ==
  ASSUME NEW s \in Assembly, NEW data \in Buffers
  PROVE  LET t == [s EXCEPT !.buf = @ \o data] IN
         /\ t \in Assembly /\ t.buf = s.buf \o data
         /\ t.state = s.state /\ t.fid = s.fid /\ t.start = s.start /\ t.out = s.out
BY AssemblyFields, FieldValues

\* Of a payload without an error: the frame it goes to, with it, and the end of it.
Taken(s, h, ts) == IF h.fid # s.fid THEN Begin(Finalize(s), h.fid, ts) ELSE s
With(s, data) == [s EXCEPT !.buf = @ \o data]
Completed(s) == [Finalize(s) EXCEPT !.state = "AWAIT"]
Skipped(s) == [s EXCEPT !.buf = <<>>, !.state = "SKIP"]

LEMMA SkippedParts ==
  ASSUME NEW s \in Assembly
  PROVE  /\ Skipped(s) \in Assembly /\ Skipped(s).state = "SKIP"
         /\ Skipped(s).fid = s.fid /\ Skipped(s).out = s.out
BY AssemblyFields, FieldValues DEF Skipped

LEMMA CompletedParts ==
  ASSUME NEW s, Started(s), s.state = "ACCUM"
  PROVE  /\ Completed(s) \in Assembly /\ Completed(s).state = "AWAIT"
         /\ Completed(s).fid = s.fid /\ Completed(s).out = Finalize(s).out
<1> DEFINE t == Finalize(s)
<1>1. t \in Assembly /\ t.fid = s.fid
  BY FinalizeParts
<1>2. Completed(s) = [t EXCEPT !.state = "AWAIT"]
  BY DEF Completed
<1> HIDE DEF t
<1>3. /\ Completed(s) \in Assembly /\ Completed(s).state = "AWAIT"
      /\ Completed(s).fid = s.fid /\ Completed(s).out = t.out
  BY <1>1, <1>2, AssemblyFields, FieldValues
<1>4. QED
  BY <1>3 DEF t

LEMMA TakenParts ==
  ASSUME NEW s, Started(s), s.state = "ACCUM", NEW h \in Header, NEW ts \in Piece
  PROVE  LET t == Taken(s, h, ts) IN
         /\ Started(t) /\ t.state = "ACCUM" /\ t.fid = h.fid
         /\ h.fid = s.fid => t = s
         /\ h.fid # s.fid => t.buf = <<>> /\ t.start = ts /\ t.out = Finalize(s).out
<1>1. Finalize(s) \in Assembly /\ h.fid \in 0..1
  BY FinalizeParts DEF Header
<1>2. CASE h.fid = s.fid
  BY <1>2 DEF Taken
<1>3. CASE h.fid # s.fid
  <2> DEFINE t == Taken(s, h, ts)   f == Finalize(s)
  <2>1. t = Begin(f, h.fid, ts)
    BY <1>3 DEF Taken
  <2>2. f \in Assembly
    BY <1>1
  <2> HIDE DEF t, f
  <2>3. /\ t \in Assembly /\ t.buf = <<>> /\ t.state = "ACCUM" /\ t.fid = h.fid
        /\ t.start = ts /\ t.out = f.out
    BY <1>1, <2>1, <2>2, BeginParts
  <2>4. QED
    BY <1>3, <2>3 DEF Started, t, f
<1>4. QED
  BY <1>2, <1>3

\* A payload that is accumulated: skipped over, or taken into its frame, or at its end.
LEMMA AccumulateCases ==
  ASSUME NEW s, NEW h \in Header, NEW data, NEW ts
  PROVE  Accumulate(s, h, data, ts) =
           IF h.err THEN Skipped(s)
           ELSE IF h.eof THEN Completed(With(Taken(s, h, ts), data)) ELSE With(Taken(s, h, ts), data)
BY Zenon DEF Accumulate, Skipped, Completed, With, Taken

LEMMA FeedCases ==
  ASSUME NEW s \in Assembly, NEW h \in Header, NEW data \in Buffers, NEW ts
  PROVE  Feed(s, h, data, ts) =
           IF ~h.sane THEN IF s.state = "ACCUM" THEN Skipped(s) ELSE s
           ELSE IF s.state # "ACCUM" /\ h.fid = s.fid /\ (s.state = "SKIP" \/ data = <<>>) THEN s
           ELSE IF s.state = "ACCUM" THEN Accumulate(s, h, data, ts)
           ELSE Accumulate(Begin(s, h.fid, ts), h, data, ts)
<1>1. s.state \in {"AWAIT", "ACCUM", "SKIP"} /\ h.sane \in BOOLEAN
  BY AssemblyFields DEF States, Header
<1>2. QED
  BY <1>1 DEF Feed, Poison, Skipped

LEMMA AccumulateIsTyped ==
  ASSUME NEW s, Started(s), s.state = "ACCUM", NEW h \in Header,
         NEW data \in Buffers, NEW ts \in Piece
  PROVE  Started(Accumulate(s, h, data, ts))
<1> DEFINE t == Taken(s, h, ts)   u == With(t, data)
<1>1. Started(t) /\ t.state = "ACCUM"
  BY TakenParts
<1>2. u \in Assembly /\ u.state = t.state /\ u.start = t.start
  BY <1>1, AppendData DEF With, Started
<1>3. Started(u) /\ u.state = "ACCUM"
  BY <1>1, <1>2 DEF Started
<1> HIDE DEF t, u
<1>4. Completed(u) \in Assembly /\ Completed(u).state = "AWAIT"
  BY <1>3, CompletedParts
<1>5. Skipped(s) \in Assembly /\ Skipped(s).state = "SKIP"
  BY SkippedParts DEF Started
<1>6. Accumulate(s, h, data, ts) \in {Skipped(s), Completed(u), u}
  BY AccumulateCases DEF t, u
<1>7. QED
  BY <1>3, <1>4, <1>5, <1>6 DEF Started

LEMMA FeedIsTyped ==
  ASSUME NEW s, Started(s), NEW h \in Header, NEW data \in Buffers, NEW ts \in Piece
  PROVE  Started(Feed(s, h, data, ts))
<1>1. s \in Assembly /\ h.fid \in 0..1
  BY DEF Started, Header
<1>2. Started(Begin(s, h.fid, ts)) /\ Begin(s, h.fid, ts).state = "ACCUM"
  BY <1>1, BeginParts DEF Started
<1>3. Started(Accumulate(Begin(s, h.fid, ts), h, data, ts))
  BY <1>2, AccumulateIsTyped
<1>4. s.state = "ACCUM" => Started(Accumulate(s, h, data, ts))
  BY AccumulateIsTyped
<1>5. Started(Skipped(s))
  BY <1>1, SkippedParts DEF Started
<1>6. QED
  BY <1>1, <1>3, <1>4, <1>5, FeedCases

\* Beyond its type: what is pending has a first byte, and the camera sends pieces of payloads.
UvcTypes ==
  /\ UvcTypeOK /\ Started(asm)
  /\ bulk.cont => bulk.ts \in Piece
  /\ sent[3] \in 1..Last
  /\ owed => stream.bulk

Payload == [pending : Buffers, cont : BOOLEAN, ts : Starts, req : BOOLEAN]
HeldBy(b) == b \in Payload /\ Len(b.pending) <= MaxPending /\ (b.cont => b.ts \in Piece)

LEMMA UvcTypesParts ==
  UvcTypes <=> /\ stream \in Streams /\ sent \in Piece /\ sent[3] \in 1..Last
               /\ Started(asm) /\ HeldBy(bulk)
               /\ owed \in BOOLEAN /\ (owed => stream.bulk)
               /\ faults \in 0..MaxFaults /\ hurt \subseteq 1..CamFrames /\ seen \subseteq 1..CamFrames
               /\ untold \in BOOLEAN /\ urbFailed \in BOOLEAN
BY DEF UvcTypes, UvcTypeOK, Started, HeldBy, Payload, Streams, Buffers, Starts

LEMMA DataIsTyped ==
  ASSUME NEW p \in Buffers, p # <<>>
  PROVE  /\ DataOf(p) \in Buffers /\ DataOf(p) # <<>> /\ Headers(p) \subseteq Header
         /\ p[1] \in Piece
<1>1. p[1] \in Piece /\ Tail(p) \in Buffers
  BY DEF Buffers
<1>2. <<p[1][1], p[1][2], 0>> \in Piece
  BY <1>1, UvcAssumption DEF Piece
<1> DEFINE m == <<<<p[1][1], p[1][2], 0>>>>
<1>3. m \in Buffers /\ Len(m) = 1
  BY <1>2 DEF Buffers
<1> HIDE DEF m
<1>4. m \o Tail(p) \in Buffers /\ Len(m \o Tail(p)) >= 1
  BY <1>1, <1>3 DEF Buffers
<1>5. DataOf(p) \in {p, m \o Tail(p)}
  BY DEF DataOf, m
<1>6. DataOf(p) \in Buffers /\ DataOf(p) # <<>>
  <2>1. ASSUME NEW b, Len(b) >= 1 PROVE b # <<>>
    BY <2>1
  <2>2. QED
    BY <1>4, <1>5, <2>1
<1>7. Headers(p) \subseteq Header
  <2>1. \A a \in 1..(CamFrames + 1) : a % 2 \in 0..1
    BY UvcAssumption
  <2>2. p[1][1] % 2 \in 0..1
    BY <1>1, <2>1, PieceParts
  <2>3. Sane \subseteq Header /\ Insane \in Header
    <3>1. ASSUME NEW h \in Sane PROVE h \in Header
      BY <3>1 DEF Sane, Header
    <3>2. Insane \in Header
      BY DEF Insane, Header
    <3>3. QED
      BY <3>1, <3>2
  <2>4. [sane |-> TRUE, fid |-> p[1][1] % 2, eof |-> p[1][2] = Payloads, err |-> FALSE] \in Header
    BY <2>2 DEF Header
  <2>5. QED
    BY <2>3, <2>4 DEF Headers
<1>8. QED
  BY <1>1, <1>6, <1>7

LEMMA FedIsTyped ==
  ASSUME NEW s, Started(s), NEW p \in Buffers, NEW ts, p # <<>> => ts \in Piece
  PROVE  \A t \in Fed(s, p, ts) : Started(t)
<1>1. CASE p = <<>>
  BY <1>1 DEF Fed
<1>2. CASE p # <<>>
  <2>1. SUFFICES ASSUME NEW h \in Headers(p) PROVE Started(Feed(s, h, DataOf(p), ts))
    BY <1>2 DEF Fed
  <2>2. QED
    BY <1>2, <2>1, DataIsTyped, FeedIsTyped
<1>3. QED
  BY <1>1, <1>2

LEMMA PoisonIsTyped ==
  ASSUME NEW s, Started(s)
  PROVE  /\ Started(Poison(s)) /\ Poison(s).state # "ACCUM" /\ Poison(s).out = s.out
         /\ Poison(s).fid = s.fid /\ s.state # "ACCUM" => Poison(s) = s
BY SkippedParts DEF Poison, Started, Skipped

LEMMA DroppedIsHeld ==
  ASSUME NEW req \in BOOLEAN
  PROVE  HeldBy(Dropped(req)) /\ Dropped(req).pending = <<>> /\ ~Dropped(req).cont
BY UvcAssumption DEF HeldBy, Dropped, Payload, Buffers, Starts

LEMMA FeedEmptyTyped ==
  ASSUME UvcTypes, FeedEmpty PROVE Started(asm') /\ HeldBy(bulk')
<1> DEFINE p == IF bulk.cont THEN bulk.pending ELSE <<>>
<1>1. p \in Buffers /\ (p # <<>> => bulk.ts \in Piece)
  BY UvcTypesParts, FieldValues DEF HeldBy, Payload
<1>2. asm' \in Fed(asm, p, bulk.ts) /\ bulk' = Dropped(FALSE)
  BY DEF FeedEmpty
<1> HIDE DEF p
<1>3. QED
  BY <1>1, <1>2, FedIsTyped, DroppedIsHeld, UvcTypesParts

LEMMA FeedCutTyped ==
  ASSUME UvcTypes, NEW some \in BOOLEAN, NEW req \in BOOLEAN, FeedCut(some, req)
  PROVE  Started(asm') /\ HeldBy(bulk')
<1>1. (some /\ req) \in BOOLEAN
  OBVIOUS
<1>2. QED
  BY <1>1, PoisonIsTyped, DroppedIsHeld, UvcTypesParts DEF FeedCut

LEMMA FeedUrbTyped ==
  ASSUME UvcTypes, NEW isShort \in BOOLEAN, NEW req \in BOOLEAN, FeedUrb(sent, isShort, req)
  PROVE  Started(asm') /\ HeldBy(bulk')
<1> DEFINE q == IF bulk.cont THEN bulk.pending ELSE <<>>
           p == q \o <<sent>>
           ts == IF bulk.cont THEN bulk.ts ELSE sent
<1>1. q \in Buffers /\ ts \in Piece
  BY UvcTypesParts, FieldValues DEF HeldBy, Payload
<1>2. <<sent>> \in Buffers
  BY UvcTypesParts DEF Buffers
<1>3. p \in Buffers
  BY <1>1, <1>2, FieldValues
<1>4. \/ bulk' = Dropped(FALSE) /\ asm' = asm
      \/ /\ asm' \in Fed(asm, p, ts) \cup Fed(asm, <<>>, ts)
         /\ bulk' = Dropped(FALSE)
      \/ /\ asm' \in Fed(asm, p, ts) \cup Fed(asm, <<>>, ts)
         /\ Len(p) <= MaxPending
         /\ bulk' = [pending |-> p, cont |-> TRUE, ts |-> ts, req |-> FALSE]
  <2> DEFINE fire == (Len(p) >= Pieces /\ stream.ends = "size") \/ ((req /\ isShort) \/ ~req)
  <2>1. IF Len(p) > MaxPending THEN bulk' = Dropped(FALSE) /\ UNCHANGED asm
        ELSE /\ asm' \in Fed(asm, IF fire THEN p ELSE <<>>, ts)
             /\ bulk' = IF fire THEN Dropped(FALSE)
                        ELSE [pending |-> p, cont |-> TRUE, ts |-> ts, req |-> FALSE]
    BY DEF FeedUrb
  <2>2. Len(p) \in Nat /\ MaxPending \in Nat
    BY UvcAssumption, <1>3 DEF Buffers
  <2> HIDE DEF fire, q, p, ts
  <2>3. CASE Len(p) > MaxPending
    BY <2>1, <2>3
  <2>4. CASE Len(p) <= MaxPending
    <3>1. CASE fire
      BY <2>1, <2>2, <2>4, <3>1
    <3>2. CASE ~fire
      BY <2>1, <2>2, <2>4, <3>2
    <3>3. QED
      BY <3>1, <3>2, Zenon
  <2>5. Len(p) > MaxPending \/ Len(p) <= MaxPending
    BY <2>2
  <2>6. QED
    BY <2>3, <2>4, <2>5, Zenon
<1> HIDE DEF q, p, ts
<1>5. Started(asm)
  BY UvcTypesParts
<1>6. Started(asm')
  BY <1>1, <1>3, <1>4, <1>5, FedIsTyped, FieldValues
<1> DEFINE b == [pending |-> p, cont |-> TRUE, ts |-> ts, req |-> FALSE]
<1>7. b \in Payload /\ b.pending = p /\ b.ts = ts
  BY <1>1, <1>3, FieldValues DEF Payload
<1>8. HeldBy(bulk')
  BY <1>1, <1>4, <1>7, DroppedIsHeld, Zenon DEF HeldBy
<1>9. QED
  BY <1>6, <1>8

LEMMA SentStays ==
  ASSUME UvcTypes, Sending, Sent
  PROVE  sent' \in Piece /\ sent'[3] \in 1..Last
<1>1. /\ sent \in Piece /\ sent[3] \in 1..Last
      /\ sent[1] \in 1..CamFrames /\ sent[2] \in 1..Payloads
      /\ Last \in Nat \ {0} /\ Last <= Pieces
  BY UvcTypesParts, LastIsPositive, PieceParts, UvcAssumption DEF Sending, Camera
<1>2. CASE EndOfFrame
  <2>1. sent' = <<sent[1] + 1, 1, 1>>
    BY <1>2 DEF Sent, First, Camera
  <2>2. QED
    BY <1>1, <2>1, UvcAssumption DEF Piece
<1>3. CASE ~EndOfFrame /\ EndOfPayload
  <2>1. sent' = <<sent[1], sent[2] + 1, 1>> /\ sent[2] # Payloads
    BY <1>3 DEF Sent, Camera, EndOfFrame
  <2>2. QED
    BY <1>1, <2>1, UvcAssumption DEF Piece
<1>4. CASE ~EndOfPayload
  <2>1. sent' = <<sent[1], sent[2], sent[3] + 1>> /\ sent[3] # Last
    BY <1>4 DEF Sent, Camera, EndOfFrame, EndOfPayload
  <2>2. QED
    BY <1>1, <2>1, UvcAssumption DEF Piece
<1>5. QED
  BY <1>2, <1>3, <1>4

LEMMA UvcTypesInitially == UvcInit => UvcTypes
<1> SUFFICES ASSUME UvcInit PROVE UvcTypes
  OBVIOUS
<1>1. stream \in Streams
  BY DEF UvcInit, Streams
<1>2. sent \in Piece /\ sent[3] \in 1..Last
  <2>1. PICK p \in 1..Payloads, c \in 1..Last : sent = <<1, p, c>>
    BY DEF UvcInit
  <2>2. QED
    BY <1>1, <2>1, LastIsPositive, UvcAssumption DEF Piece
<1>3. Started(asm)
  <2>1. <<>> \in Starts /\ NoFid \in Fids /\ <<>> \in Outs /\ <<>> \in Buffers
    BY DEF Starts, Fids, Outs, Buffers
  <2>2. asm = [state |-> "AWAIT", fid |-> NoFid, buf |-> <<>>, start |-> <<>>, out |-> <<>>]
    BY DEF UvcInit
  <2>3. asm \in Assembly
    BY <2>1, <2>2, AssemblyFields, FieldValues
  <2>4. QED
    BY <2>2, <2>3 DEF Started
<1>4. HeldBy(bulk)
  BY DroppedIsHeld DEF UvcInit, Dropped
<1>5. QED
  <2>1. hurt \subseteq 1..CamFrames /\ seen \subseteq 1..CamFrames /\ faults \in 0..MaxFaults
    BY UvcAssumption DEF UvcInit
  <2>2. owed = FALSE /\ untold = FALSE /\ urbFailed = FALSE
    BY DEF UvcInit
  <2>3. QED
    BY <1>1, <1>2, <1>3, <1>4, <2>1, <2>2, UvcTypesParts

LEMMA UvcTypesStep == UvcTypes /\ [UvcNext]_uvcVars => UvcTypes'
<1> SUFFICES ASSUME UvcTypes, [UvcNext]_uvcVars PROVE UvcTypes'
  OBVIOUS
<1> USE UvcTypesParts
<1>0. /\ stream \in Streams /\ sent \in Piece /\ sent[3] \in 1..Last
      /\ Started(asm) /\ HeldBy(bulk) /\ owed \in BOOLEAN /\ (owed => stream.bulk)
      /\ faults \in 0..MaxFaults /\ hurt \subseteq 1..CamFrames /\ seen \subseteq 1..CamFrames
      /\ untold \in BOOLEAN /\ urbFailed \in BOOLEAN
  OBVIOUS
<1>1. ASSUME /\ stream' = stream /\ sent' \in Piece /\ sent'[3] \in 1..Last
             /\ Started(asm') /\ HeldBy(bulk') /\ owed' \in BOOLEAN /\ (owed' => stream.bulk)
             /\ faults' \in 0..MaxFaults /\ hurt' \subseteq 1..CamFrames /\ seen' \subseteq 1..CamFrames
             /\ untold' \in BOOLEAN /\ urbFailed' \in BOOLEAN
      PROVE  UvcTypes'
  <2>1. Last' = Last /\ Assembly' = Assembly
    BY <1>1 DEF Last, Assembly
  <2>2. Started(asm)' /\ HeldBy(bulk)'
    BY <1>1, <2>1 DEF Started, HeldBy
  <2>3. /\ stream' \in Streams /\ sent' \in Piece /\ sent'[3] \in 1..Last'
        /\ owed' \in BOOLEAN /\ (owed' => stream'.bulk)
        /\ faults' \in 0..MaxFaults /\ hurt' \subseteq 1..CamFrames /\ seen' \subseteq 1..CamFrames
        /\ untold' \in BOOLEAN /\ urbFailed' \in BOOLEAN
    BY <1>0, <1>1, <2>1
  <2>4. QED
    BY <2>2, <2>3 DEF UvcTypes, UvcTypeOK, Started, HeldBy, Payload, Streams, Buffers, Starts
<1>2. Camera \in 1..(CamFrames + 1) /\ IsShort \in BOOLEAN
  BY <1>0, PieceParts DEF Camera, IsShort
<1>3. Sending => Camera \in 1..CamFrames
  BY <1>2, UvcAssumption DEF Sending
<1>4. Sending /\ Sees => seen' \subseteq 1..CamFrames
  BY <1>0, <1>3 DEF Sees
<1>5. Sending /\ Hurts => hurt' \subseteq 1..CamFrames
  BY <1>0, <1>3 DEF Hurts
<1>6. Faulty => faults' \in 0..MaxFaults
  BY <1>0, UvcAssumption DEF Faulty
<1>7. Owes => owed' \in BOOLEAN /\ (owed' => stream.bulk)
  BY DEF Owes
<1>8. Sending /\ Sent => sent' \in Piece /\ sent'[3] \in 1..Last
  BY SentStays
<1>9. \A s : s = sent => Started(Poison(asm)) /\ <<s>> \in Buffers
  BY <1>0, PoisonIsTyped DEF Buffers
<1>10. CASE IsoPacket
  BY <1>0, <1>1, <1>4, <1>8, <1>9, <1>10, FedIsTyped DEF IsoPacket
<1>11. CASE IsoLost
  BY <1>0, <1>1, <1>5, <1>6, <1>8, <1>9, <1>11 DEF IsoLost
<1>12. CASE IsoBad
  <2>1. PICK h \in {Insane, [sane |-> TRUE, fid |-> Camera % 2, eof |-> EndOfFrame, err |-> TRUE]} :
          /\ asm' = Feed(asm, h, <<sent>>, sent)
          /\ seen' = IF h.sane THEN seen \cup {Camera} ELSE seen
    BY <1>12 DEF IsoBad
  <2>2. Camera % 2 \in 0..1 /\ EndOfFrame \in BOOLEAN
    BY <1>2, UvcAssumption DEF EndOfFrame
  <2>3. h \in Header
    <3>1. Insane \in Header
      BY DEF Header, Insane
    <3>2. [sane |-> TRUE, fid |-> Camera % 2, eof |-> EndOfFrame, err |-> TRUE] \in Header
      BY <2>2 DEF Header
    <3>3. QED
      BY <2>1, <3>1, <3>2
  <2>4. Started(asm')
    BY <1>0, <1>9, <2>1, <2>3, FeedIsTyped
  <2>5. seen' \subseteq 1..CamFrames
    BY <1>0, <1>3, <1>12, <2>1 DEF IsoBad
  <2>6. QED
    BY <1>0, <1>1, <1>5, <1>6, <1>8, <1>12, <2>4, <2>5 DEF IsoBad
<1>13. CASE Urb
  <2>1. Started(asm') /\ HeldBy(bulk')
    BY <1>2, <1>13, FeedUrbTyped DEF Urb
  <2>2. QED
    BY <1>0, <1>1, <1>4, <1>7, <1>8, <1>13, <2>1 DEF Urb
<1>14. CASE UrbUnasked
  <2>1. bulk.req \in BOOLEAN
    BY <1>0 DEF HeldBy, Payload
  <2>2. Started(asm') /\ HeldBy(bulk')
    BY <1>2, <1>14, <2>1, FeedUrbTyped DEF UrbUnasked
  <2>3. untold' \in BOOLEAN
    BY <1>14 DEF UrbUnasked
  <2>4. QED
    BY <1>0, <1>1, <1>4, <1>5, <1>6, <1>7, <1>8, <1>14, <2>2, <2>3 DEF UrbUnasked
<1>15. CASE UrbCut
  <2>1. Started(asm') /\ HeldBy(bulk')
    BY <1>15, FeedCutTyped DEF UrbCut
  <2>2. QED
    BY <1>0, <1>1, <1>5, <1>6, <1>7, <1>8, <1>15, <2>1 DEF UrbCut
<1>16. CASE UrbFails
  <2>1. Started(asm') /\ HeldBy(bulk')
    BY <1>16, FeedEmptyTyped DEF UrbFails
  <2>2. QED
    BY <1>0, <1>1, <1>5, <1>6, <1>7, <1>8, <1>16, <2>1 DEF UrbFails
<1>17. CASE EmptyUrb
  <2>1. Started(asm') /\ HeldBy(bulk')
    BY <1>17, FeedEmptyTyped DEF EmptyUrb
  <2>2. QED
    BY <1>0, <1>1, <1>17, <2>1 DEF EmptyUrb, told
<1>18. CASE Keepalive
  <2> DEFINE h == [sane |-> TRUE, fid |-> (Camera - 1) % 2, eof |-> TRUE, err |-> FALSE]
  <2>1. (Camera - 1) % 2 \in 0..1
    BY <1>2, UvcAssumption
  <2>2. h \in Header
    BY <2>1 DEF Header
  <2>3. Started(asm')
    BY <1>0, <1>18, <2>2, FeedIsTyped, FieldValues DEF Keepalive
  <2>4. QED
    BY <1>0, <1>1, <1>18, <2>3 DEF Keepalive, told
<1>19. CASE FrameUncaptured
  <2>1. sent' \in Piece /\ sent'[3] \in 1..Last
    BY <1>0, <1>3, <1>19, LastIsPositive, UvcAssumption DEF FrameUncaptured, First, Piece
  <2>2. QED
    BY <1>0, <1>1, <1>5, <1>6, <1>19, <2>1 DEF FrameUncaptured
<1>20. CASE Uncaptured
  BY <1>0, <1>1, <1>5, <1>6, <1>7, <1>8, <1>20 DEF Uncaptured
<1>21. CASE EndOfCapture \/ UNCHANGED uvcVars
  <2>1. UNCHANGED uvcVars
    BY <1>21 DEF EndOfCapture
  <2>2. QED
    BY <1>0, <1>1, <2>1 DEF uvcVars, told
<1>22. QED
  BY <1>10, <1>11, <1>12, <1>13, <1>14, <1>15, <1>16, <1>17, <1>18, <1>19, <1>20, <1>21
     DEF UvcNext, Capture, Losses

\* What the extractor and its capture hold is of its type.
THEOREM CaptureTypeCorrect == UvcSpec => []UvcTypeOK
<1>1. UvcTypes => UvcTypeOK
  BY DEF UvcTypes
<1>2. QED
  BY <1>1, UvcTypesInitially, UvcTypesStep, PTL DEF UvcSpec

\* Payloads k0..k-1 of frame f, one after the other.
Run(b, f, k0, k) ==
  /\ Len(b) = (k - k0) * Last
  /\ \A i \in k0..(k - 1), j \in 1..Last : b[(i - k0) * Last + j] = <<f, i, j>>

LEMMA Products ==
  ASSUME NEW a \in Int, NEW b \in Int, NEW m \in Nat
  PROVE  /\ a <= b => a * m <= b * m
         /\ (a + 1) * m = a * m + m
         /\ (m > 0 /\ a * m = b * m) => a = b
<1>1. (a + 1) * m = a * m + m
  OBVIOUS
<1>2. a <= b => a * m <= b * m
  <2>1. SUFFICES ASSUME a <= b PROVE (b - a) * m >= 0 /\ (b - a) * m = b * m - a * m
    OBVIOUS
  <2>2. QED
    BY <2>1
<1>3. ASSUME m > 0, a * m = b * m PROVE a = b
  BY <1>3
<1>4. QED
  BY <1>1, <1>2, <1>3

LEMMA Division ==
  ASSUME NEW n \in Nat, NEW m \in Nat \ {0}, NEW k \in Nat, n < k * m
  PROVE  /\ n \div m \in 0..(k - 1) /\ n % m \in 0..(m - 1)
         /\ n = (n \div m) * m + (n % m)
<1>1. n \div m \in Int /\ n % m \in 0..(m - 1)
  OBVIOUS
<1>2. n \div m >= 0 /\ n % m = n - m * (n \div m)
  OBVIOUS
<1>3. n \div m < k
  <2>1. SUFFICES ASSUME n \div m >= k PROVE FALSE
    BY <1>1
  <2>2. k * m <= (n \div m) * m
    BY <1>1, <2>1, Products
  <2>3. QED
    BY <1>1, <1>2, <2>2
<1>4. QED
  BY <1>1, <1>2, <1>3

\* All payloads of a frame, one after the other, are the frame.
LEMMA RunOfAll ==
  ASSUME stream \in Streams, NEW b \in Buffers, NEW f, Run(b, f, 1, Payloads + 1)
  PROVE  b = Whole(f) /\ Len(b) = Payloads * Last /\ Payloads * Last \in Nat \ {0}
<1>1. Last \in Nat \ {0} /\ Payloads \in Nat \ {0}
  BY LastIsPositive, UvcAssumption
<1>2. /\ Len(b) = ((Payloads + 1) - 1) * Last
      /\ \A i \in 1..((Payloads + 1) - 1), j \in 1..Last : b[(i - 1) * Last + j] = <<f, i, j>>
  <2>1. Run(b, f, 1, Payloads + 1)
    OBVIOUS
  <2>2. QED
    BY <2>1, Zenon DEF Run
<1>3. (Payloads + 1) - 1 = Payloads /\ Payloads * Last \in Nat \ {0}
  BY <1>1
<1>4. Len(b) = Payloads * Last
  BY <1>2, <1>3
<1>5. ASSUME NEW n \in 1..(Payloads * Last)
      PROVE  b[n] = <<f, (n - 1) \div Last + 1, ((n - 1) % Last) + 1>>
  <2> DEFINE i == (n - 1) \div Last + 1   j == ((n - 1) % Last) + 1
  <2>1. n - 1 \in Nat /\ n - 1 < Payloads * Last
    BY <1>3
  <2>2. i \in 1..Payloads /\ j \in 1..Last /\ n = (i - 1) * Last + j
    <3>1. (n - 1) \div Last \in 0..(Payloads - 1) /\ (n - 1) % Last \in 0..(Last - 1)
          /\ n - 1 = ((n - 1) \div Last) * Last + ((n - 1) % Last)
      BY <1>1, <2>1, Division
    <3>2. n = ((n - 1) \div Last) * Last + j
      BY <1>1, <3>1
    <3>3. i \in 1..Payloads /\ j \in 1..Last
      BY <1>1, <3>1
    <3>4. i - 1 = (n - 1) \div Last
      BY <1>1, <3>1
    <3>5. QED
      BY <3>2, <3>3, <3>4, Zenon
  <2> HIDE DEF i, j
  <2>3. b[(i - 1) * Last + j] = <<f, i, j>>
    BY <1>2, <1>3, <2>2, Zenon
  <2>4. b[n] = <<f, i, j>>
    BY <2>2, <2>3
  <2>5. QED
    BY <2>4 DEF i, j
<1>6. b \in Seq(Piece)
  BY DEF Buffers
<1>7. b = [n \in 1..(Payloads * Last) |-> b[n]]
  BY <1>3, <1>4, <1>6
<1>8. b = Whole(f)
  BY <1>5, <1>7 DEF Whole
<1>9. QED
  BY <1>3, <1>4, <1>8

LEMMA WholeIsValid ==
  ASSUME stream \in Streams, NEW b \in Buffers, NEW f, Run(b, f, 1, Payloads + 1)
  PROVE  Valid(b)
<1>1. /\ Last \in Nat \ {0} /\ Payloads \in Nat \ {0}
      /\ b = Whole(f) /\ Len(b) = Payloads * Last /\ Payloads * Last \in Nat \ {0}
  BY LastIsPositive, UvcAssumption, RunOfAll
<1>2. \A i \in 1..((Payloads + 1) - 1), j \in 1..Last : b[(i - 1) * Last + j] = <<f, i, j>>
  <2>1. Run(b, f, 1, Payloads + 1)
    OBVIOUS
  <2>2. QED
    BY <2>1, Zenon DEF Run
<1>3. CASE stream.mjpeg
  <2>1. b[(1 - 1) * Last + 1] = <<f, 1, 1>> /\ b[(Payloads - 1) * Last + Last] = <<f, Payloads, Last>>
    <3>1. {1, Payloads} \subseteq 1..((Payloads + 1) - 1) /\ {1, Last} \subseteq 1..Last
      BY <1>1
    <3>2. QED
      BY <1>2, <3>1
  <2>2. (1 - 1) * Last + 1 = 1
    BY <1>1
  <2>3. ((Payloads - 1) + 1) * Last = (Payloads - 1) * Last + Last
    BY <1>1, Products
  <2>4. (Payloads - 1) * Last + Last = Len(b)
    BY <1>1, <2>3
  <2>5. b[1] = <<f, 1, 1>> /\ b[Len(b)] = <<f, Payloads, Last>>
    BY <2>1, <2>2, <2>4
  <2>6. IsFirst(b[1]) /\ IsLast(b[Len(b)])
    BY <2>5 DEF IsFirst, IsLast
  <2>7. b # <<>>
    <3>1. ASSUME NEW c, Len(c) >= 1 PROVE c # <<>>
      BY <3>1
    <3>2. Len(b) >= 1
      BY <1>1
    <3>3. QED
      BY <3>1, <3>2
  <2>8. QED
    BY <1>3, <2>6, <2>7 DEF Valid
<1>4. CASE ~stream.mjpeg
  <2>1. \A n \in 1..(Payloads * Last) : b[n][3] # 0
    <3>1. SUFFICES ASSUME NEW n \in 1..(Payloads * Last) PROVE b[n][3] # 0
      OBVIOUS
    <3>2. b[n][3] = ((n - 1) % Last) + 1
      BY <1>1 DEF Whole
    <3>3. (n - 1) % Last \in 0..(Last - 1)
      BY <1>1
    <3>4. QED
      BY <3>2, <3>3
  <2>2. DOMAIN b = 1..(Payloads * Last)
    BY <1>1 DEF Whole
  <2>3. QED
    BY <1>1, <1>4, <2>1, <2>2 DEF Valid
<1>5. QED
  BY <1>3, <1>4

LEMMA RunIsWhole ==
  ASSUME stream \in Streams, NEW b \in Buffers, NEW f, NEW k0 \in 1..Payloads,
         Run(b, f, k0, Payloads + 1), Valid(b)
  PROVE  k0 = 1 /\ b = Whole(f)
<1>1. Last \in Nat \ {0} /\ Payloads \in Nat \ {0}
  BY LastIsPositive, UvcAssumption
<1>2. /\ Len(b) = ((Payloads + 1) - k0) * Last
      /\ \A i \in k0..((Payloads + 1) - 1), j \in 1..Last : b[(i - k0) * Last + j] = <<f, i, j>>
  <2>1. Run(b, f, k0, Payloads + 1)
    OBVIOUS
  <2>2. QED
    BY <2>1, Zenon DEF Run
<1>3. b[1] = <<f, k0, 1>>
  <2>1. b[(k0 - k0) * Last + 1] = <<f, k0, 1>>
    <3>1. k0 \in k0..((Payloads + 1) - 1) /\ 1 \in 1..Last
      BY <1>1
    <3>2. QED
      BY <1>2, <3>1, Zenon
  <2>2. (k0 - k0) * Last + 1 = 1
    BY <1>1
  <2>3. QED
    BY <2>1, <2>2
<1>4. k0 = 1
  <2>1. CASE stream.mjpeg
    BY <1>3, <2>1 DEF Valid, IsFirst
  <2>2. CASE ~stream.mjpeg
    <3>1. ((Payloads + 1) - k0) * Last = Payloads * Last
      BY <1>2, <2>2 DEF Valid
    <3>2. (Payloads + 1) - k0 = Payloads
      BY <1>1, <3>1, Products
    <3>3. QED
      BY <1>1, <3>2
  <2>3. QED
    BY <2>1, <2>2
<1>5. b = Whole(f)
  <2>1. Run(b, f, 1, Payloads + 1)
    BY <1>4
  <2>2. QED
    BY <2>1, RunOfAll
<1>6. QED
  BY <1>4, <1>5

WholePayload(p, f, k) == p \in Buffers /\ Len(p) = Last /\ \A j \in 1..Last : p[j] = <<f, k, j>>

LEMMA RunStarts ==
  ASSUME stream \in Streams, NEW p, NEW f, NEW k \in Nat, WholePayload(p, f, k)
  PROVE  Run(p, f, k, k + 1)
<1>1. Last \in Nat \ {0}
  BY LastIsPositive
<1>2. Len(p) = ((k + 1) - k) * Last
  BY <1>1 DEF WholePayload
<1>3. ASSUME NEW i \in k..((k + 1) - 1), NEW j \in 1..Last
      PROVE  p[(i - k) * Last + j] = <<f, i, j>>
  <2>1. i = k /\ (i - k) * Last + j = j
    BY <1>1
  <2>2. QED
    BY <2>1 DEF WholePayload
<1>4. QED
  BY <1>2, <1>3, Zenon DEF Run

LEMMA RunExtends ==
  ASSUME stream \in Streams, NEW b \in Buffers, NEW p, NEW f, NEW k \in Nat, NEW k0 \in 1..k,
         Run(b, f, k0, k), WholePayload(p, f, k)
  PROVE  Run(b \o p, f, k0, k + 1)
<1>1. Last \in Nat \ {0}
  BY LastIsPositive
<1>2. b \in Seq(Piece) /\ p \in Seq(Piece)
  BY DEF Buffers, WholePayload
<1>3. /\ Len(b) = (k - k0) * Last
      /\ \A i \in k0..(k - 1), j \in 1..Last : b[(i - k0) * Last + j] = <<f, i, j>>
  BY DEF Run
<1>4. Len(b \o p) = Len(b) + Last
  <2>1. Len(p) = Last
    BY DEF WholePayload
  <2>2. QED
    BY <1>2, <2>1
<1>5. Len(b \o p) = ((k + 1) - k0) * Last
  BY <1>1, <1>3, <1>4
<1>6. ASSUME NEW i \in k0..((k + 1) - 1), NEW j \in 1..Last
      PROVE  (b \o p)[(i - k0) * Last + j] = <<f, i, j>>
  <2> DEFINE n == (i - k0) * Last + j
  <2>0. n \in Nat /\ Len(b) \in Nat /\ (i - k0) * Last >= 0
    BY <1>1, <1>2
  <2>1. CASE i = k
    <3>1. n = Len(b) + j
      BY <1>3, <2>1
    <3> HIDE DEF n
    <3>2. (b \o p)[n] = p[j]
      BY <1>1, <1>2, <3>1 DEF WholePayload
    <3>3. p[j] = <<f, i, j>>
      BY <2>1 DEF WholePayload
    <3>4. QED
      BY <3>2, <3>3 DEF n
  <2>2. CASE i # k
    <3>1. i \in k0..(k - 1)
      BY <2>2
    <3>2. ((i - k0) + 1) * Last <= (k - k0) * Last
      BY <1>1, <3>1, Products
    <3>3. n \in 1..Len(b)
      <4>1. ((i - k0) + 1) * Last = (i - k0) * Last + Last
        BY <1>1, Products
      <4>2. (i - k0) * Last + Last <= Len(b)
        BY <1>3, <3>2, <4>1
      <4>3. QED
        BY <1>1, <2>0, <4>2
    <3>4. b[n] = <<f, i, j>>
      BY <1>3, <3>1, Zenon
    <3> HIDE DEF n
    <3>5. (b \o p)[n] = b[n]
      BY <1>2, <3>3
    <3>6. QED
      BY <3>4, <3>5 DEF n
  <2>3. QED
    BY <2>1, <2>2
<1>7. QED
  BY <1>5, <1>6, Zenon DEF Run

\* The frames that came out: camera frames before f, whole, once and in order.
Good(out, f) ==
  /\ \A n \in DOMAIN out :
       /\ out[n].data = Whole(out[n].start[1]) /\ out[n].start = First(out[n].start[1])
       /\ out[n].start[1] < f
  /\ \A n \in DOMAIN out \ {1} : out[n - 1].start[1] < out[n].start[1]

LEMMA OutStarts ==
  ASSUME NEW out \in Outs, NEW n \in DOMAIN out PROVE out[n].start[1] \in Int
<1>1. out[n] \in OutFrame
  BY DEF Outs
<1>2. out[n].start \in Piece
  BY <1>1 DEF OutFrame
<1>3. QED
  BY <1>2, PieceParts, UvcAssumption

LEMMA GoodGrows ==
  ASSUME NEW out \in Outs, NEW f \in Int, Good(out, f), NEW g \in Int, f <= g
  PROVE  Good(out, g)
<1>1. \A n \in DOMAIN out : out[n].start[1] \in Int
  BY OutStarts
<1>2. QED
  BY <1>1 DEF Good

LEMMA GoodAppends ==
  ASSUME NEW out \in Outs, NEW f \in Int, Good(out, f),
         NEW o \in OutFrame, o.start = First(f), o.data = Whole(f)
  PROVE  Good(Append(out, o), f + 1)
<1> DEFINE new == Append(out, o)
<1>1. /\ Len(new) = Len(out) + 1 /\ DOMAIN new = 1..(Len(out) + 1) /\ DOMAIN out = 1..Len(out)
      /\ Len(out) \in Nat /\ new[Len(out) + 1] = o
      /\ \A n \in 1..Len(out) : new[n] = out[n]
  BY DEF Outs
<1>2. \A n \in 1..Len(out) : out[n].start[1] \in Int
  BY <1>1, OutStarts
<1>3. o.start[1] = f
  BY DEF First
<1> HIDE DEF new
<1>4. ASSUME NEW n \in DOMAIN new
      PROVE  /\ new[n].data = Whole(new[n].start[1]) /\ new[n].start = First(new[n].start[1])
             /\ new[n].start[1] < f + 1
  <2>1. CASE n = Len(out) + 1
    BY <1>1, <1>3, <2>1
  <2>2. CASE n # Len(out) + 1
    <3>1. n \in 1..Len(out)
      BY <1>1, <2>2
    <3>2. QED
      BY <1>1, <1>2, <3>1 DEF Good
  <2>3. QED
    BY <2>1, <2>2
<1>5. ASSUME NEW n \in DOMAIN new \ {1} PROVE new[n - 1].start[1] < new[n].start[1]
  <2>0. n - 1 \in 1..Len(out)
    BY <1>1
  <2>1. CASE n = Len(out) + 1
    BY <1>1, <1>3, <2>0, <2>1 DEF Good
  <2>2. CASE n # Len(out) + 1
    <3>1. n \in 1..Len(out)
      BY <1>1, <2>2
    <3>2. QED
      BY <1>1, <2>0, <3>1 DEF Good
  <2>3. QED
    BY <2>1, <2>2
<1>6. QED
  BY <1>4, <1>5, Zenon DEF Good, new

\* What is accumulated: payloads of f from some first one to the one before k, or something
\* that began in the middle of a payload and cannot pass for a frame.
Clean(s, f, k) ==
  /\ s.state = "ACCUM" /\ s.fid = f % 2
  /\ \E k0 \in 1..(k - 1) : s.start = <<f, k0, 1>> /\ Run(s.buf, f, k0, k)
Dirty(s) == s.state = "ACCUM" /\ s.buf # <<>> /\ s.buf[1][3] = 0

LEMMA NothingFinalized ==
  ASSUME NEW s, Started(s), s.state = "ACCUM", stream \in Streams, Dirty(s) \/ s.buf = <<>>
  PROVE  Finalize(s).out = s.out
<1>1. s.buf \in Seq(Piece)
  BY AssemblyFields DEF Started, Buffers
<1>2. Last \in Nat \ {0} /\ Payloads * Last \in Nat \ {0}
  BY LastIsPositive, UvcAssumption
<1>3. ~Valid(s.buf)
  <2>1. CASE s.buf = <<>>
    BY <1>2, <2>1 DEF Valid
  <2>2. CASE Dirty(s)
    <3>1. 1 \in DOMAIN s.buf
      BY <1>1, <2>2 DEF Dirty
    <3>2. QED
      BY <2>2, <3>1 DEF Valid, Dirty, IsFirst
  <2>3. QED
    BY <2>1, <2>2
<1>4. QED
  BY <1>3, FinalizeParts

LEMMA PartNotFinalized ==
  ASSUME NEW s, Started(s), stream \in Streams, NEW f, NEW k \in 1..Payloads, Clean(s, f, k)
  PROVE  Finalize(s).out = s.out
<1>1. PICK k0 \in 1..(k - 1) : s.start = <<f, k0, 1>> /\ Run(s.buf, f, k0, k)
  BY DEF Clean
<1>2. Last \in Nat \ {0} /\ s.buf \in Seq(Piece)
  BY LastIsPositive, AssemblyFields DEF Started, Buffers
<1>3. /\ Len(s.buf) = (k - k0) * Last
      /\ \A i \in k0..(k - 1), j \in 1..Last : s.buf[(i - k0) * Last + j] = <<f, i, j>>
  BY <1>1 DEF Run
<1>4. ~Valid(s.buf)
  <2>1. CASE stream.mjpeg
    <3>1. (((k - 1) - k0) + 1) * Last = ((k - 1) - k0) * Last + Last
      BY <1>2, UvcAssumption, Products
    <3>2. Len(s.buf) = ((k - 1) - k0) * Last + Last
      BY <1>2, <1>3, <3>1, UvcAssumption
    <3>3. k - 1 \in k0..(k - 1) /\ Last \in 1..Last
      BY <1>2, UvcAssumption
    <3>4. s.buf[((k - 1) - k0) * Last + Last] = <<f, k - 1, Last>>
      BY <1>3, <3>3, Zenon
    <3>5. s.buf[Len(s.buf)] = <<f, k - 1, Last>>
      BY <3>2, <3>4
    <3>6. ~IsLast(s.buf[Len(s.buf)])
      BY <3>5, UvcAssumption DEF IsLast
    <3>7. QED
      BY <2>1, <3>6 DEF Valid
  <2>2. CASE ~stream.mjpeg
    <3>1. (k - k0) * Last # Payloads * Last
      <4>1. SUFFICES ASSUME (k - k0) * Last = Payloads * Last PROVE FALSE
        OBVIOUS
      <4>2. k - k0 = Payloads
        BY <1>2, <4>1, UvcAssumption, Products
      <4>3. QED
        BY <4>2, UvcAssumption
    <3>2. QED
      BY <1>3, <2>2, <3>1 DEF Valid
  <2>3. QED
    BY <2>1, <2>2
<1>5. QED
  BY <1>4, FinalizeParts DEF Clean

LEMMA WholeIsFinalized ==
  ASSUME NEW s, Started(s), stream \in Streams, NEW f \in Int, Clean(s, f, Payloads + 1),
         Good(s.out, f)
  PROVE  Good(Finalize(s).out, f + 1)
<1>1. PICK k0 \in 1..Payloads : s.start = <<f, k0, 1>> /\ Run(s.buf, f, k0, Payloads + 1)
  BY UvcAssumption DEF Clean
<1>2. s.buf \in Buffers /\ s.out \in Outs /\ s.state = "ACCUM" /\ s.start \in Piece
  BY AssemblyFields DEF Started, Clean
<1>3. CASE Valid(s.buf)
  <2>1. s.start = First(f) /\ s.buf = Whole(f)
    BY <1>1, <1>2, <1>3, RunIsWhole DEF First
  <2> DEFINE o == [start |-> s.start, data |-> s.buf]
  <2>2. Finalize(s).out = Append(s.out, o)
    BY <1>2, <1>3, FinalizeParts
  <2>3. o \in OutFrame /\ o.start = First(f) /\ o.data = Whole(f)
    BY <1>2, <2>1 DEF OutFrame
  <2> HIDE DEF o
  <2>4. QED
    BY <1>2, <2>2, <2>3, GoodAppends
<1>4. CASE ~Valid(s.buf)
  <2>1. Finalize(s).out = s.out
    BY <1>2, <1>4, FinalizeParts
  <2>2. f + 1 \in Int /\ f <= f + 1
    OBVIOUS
  <2>3. Good(s.out, f + 1)
    BY <1>2, <2>2, GoodGrows
  <2>4. QED
    BY <2>1, <2>3
<1>5. QED
  BY <1>3, <1>4

Rough(s) == s.state = "ACCUM" => Dirty(s)
Genuine(f, k) == [sane |-> TRUE, fid |-> f % 2, eof |-> k = Payloads, err |-> FALSE]

LEMMA WithParts ==
  ASSUME NEW s, Started(s), NEW data \in Buffers
  PROVE  /\ Started(With(s, data)) /\ With(s, data).buf = s.buf \o data
         /\ With(s, data).state = s.state /\ With(s, data).fid = s.fid
         /\ With(s, data).start = s.start /\ With(s, data).out = s.out
BY AppendData DEF With, Started

LEMMA DirtyStays ==
  ASSUME NEW s, Started(s), Dirty(s), NEW data \in Buffers
  PROVE  Dirty(With(s, data))
<1>1. s.buf \in Seq(Piece) /\ data \in Seq(Piece)
  BY AssemblyFields DEF Started, Buffers
<1>2. 1 \in 1..Len(s.buf) /\ s.buf # <<>>
  BY <1>1 DEF Dirty
<1> DEFINE b == s.buf \o data
<1>3. b[1] = s.buf[1] /\ Len(b) >= 1
  BY <1>1, <1>2
<1> HIDE DEF b
<1>4. b # <<>>
  <2>1. ASSUME NEW c, Len(c) >= 1 PROVE c # <<>>
    BY <2>1
  <2>2. QED
    BY <1>3, <2>1
<1>5. QED
  BY <1>3, <1>4, WithParts DEF Dirty, b

LEMMA CleanGrows ==
  ASSUME NEW s, Started(s), s.state = "ACCUM", stream \in Streams,
         NEW f, NEW k \in 1..Payloads, s.fid = f % 2, NEW p, WholePayload(p, f, k),
         \/ s.buf = <<>> /\ s.start = <<f, k, 1>>
         \/ Clean(s, f, k)
  PROVE  Clean(With(s, p), f, k + 1)
<1> DEFINE u == With(s, p)
<1>0. k \in Nat /\ p \in Buffers /\ s.buf \in Buffers
  BY AssemblyFields DEF WholePayload, Started
<1>1. /\ u.buf = s.buf \o p /\ u.state = "ACCUM" /\ u.fid = f % 2 /\ u.start = s.start
  BY <1>0, WithParts
<1>2. CASE s.buf = <<>> /\ s.start = <<f, k, 1>>
  <2>1. u.buf = p
    BY <1>0, <1>1, <1>2 DEF Buffers
  <2>2. Run(u.buf, f, k, k + 1)
    BY <1>0, <2>1, RunStarts
  <2>3. k \in 1..((k + 1) - 1)
    BY <1>0
  <2> HIDE DEF u
  <2>4. QED
    BY <1>1, <1>2, <2>2, <2>3, Zenon DEF Clean, u
<1>3. CASE Clean(s, f, k)
  <2>1. PICK k0 \in 1..(k - 1) : s.start = <<f, k0, 1>> /\ Run(s.buf, f, k0, k)
    BY <1>3 DEF Clean
  <2>2. k0 \in 1..k /\ k0 \in 1..((k + 1) - 1)
    BY <1>0
  <2>3. Run(u.buf, f, k0, k + 1)
    BY <1>0, <1>1, <2>1, <2>2, RunExtends
  <2> HIDE DEF u
  <2>4. QED
    BY <1>1, <2>1, <2>2, <2>3, Zenon DEF Clean, u
<1>4. QED
  BY <1>2, <1>3

\* A payload from its first byte on is taken to what came of its frame, or starts one.
LEMMA AccumulateWhole ==
  ASSUME NEW s, Started(s), stream \in Streams, NEW f \in Int, NEW k \in 1..Payloads,
         NEW p, WholePayload(p, f, k), <<f, k, 1>> \in Piece, f % 2 \in 0..1,
         \/ Dirty(s)
         \/ s.state = "ACCUM" /\ s.fid = f % 2 /\ s.buf = <<>> /\ s.start = <<f, k, 1>>
         \/ Clean(s, f, k),
         Good(s.out, f)
  PROVE  LET t == Accumulate(s, Genuine(f, k), p, <<f, k, 1>>) IN
         /\ k < Payloads => (Dirty(t) \/ Clean(t, f, k + 1)) /\ Good(t.out, f)
         /\ k = Payloads => t.state # "ACCUM" /\ Good(t.out, f + 1)
<1> DEFINE h == Genuine(f, k)   ts == <<f, k, 1>>   v == Taken(s, h, ts)   u == With(v, p)
           t == Accumulate(s, h, p, ts)
<1>1. h \in Header /\ h.fid = f % 2 /\ ~h.err /\ (h.eof <=> k = Payloads)
  BY DEF Genuine, Header
<1>2. s.state = "ACCUM" /\ p \in Buffers
  BY DEF Dirty, Clean, WholePayload
<1>3. t = IF k = Payloads THEN Completed(u) ELSE u
  BY <1>1, AccumulateCases
<1>4. /\ Started(v) /\ v.state = "ACCUM" /\ v.fid = f % 2
      /\ f % 2 = s.fid => v = s
      /\ f % 2 # s.fid => v.buf = <<>> /\ v.start = ts /\ v.out = Finalize(s).out
  BY <1>1, <1>2, TakenParts
<1> HIDE DEF h, v
<1>5. v.out = s.out
  <2>1. CASE f % 2 = s.fid
    BY <1>4, <2>1
  <2>2. CASE f % 2 # s.fid
    <3>1. Dirty(s)
      BY <2>2 DEF Clean
    <3>2. Finalize(s).out = s.out
      BY <1>2, <3>1, NothingFinalized
    <3>3. QED
      BY <1>4, <2>2, <3>2
  <2>3. QED
    BY <2>1, <2>2
<1>6. Dirty(v) \/ (v.buf = <<>> /\ v.start = <<f, k, 1>>) \/ Clean(v, f, k)
  BY <1>4
<1>7. Started(u) /\ u.state = "ACCUM" /\ u.out = v.out
  BY <1>2, <1>4, WithParts
<1>8. Dirty(u) \/ Clean(u, f, k + 1)
  BY <1>2, <1>4, <1>6, DirtyStays, CleanGrows
<1> HIDE DEF u
<1>9. k = Payloads => Good(Finalize(u).out, f + 1)
  <2>1. SUFFICES ASSUME k = Payloads PROVE Good(Finalize(u).out, f + 1)
    OBVIOUS
  <2>2. CASE Dirty(u)
    <3>1. Finalize(u).out = s.out
      BY <1>5, <1>7, <2>2, NothingFinalized
    <3>2. s.out \in Outs /\ f + 1 \in Int /\ f <= f + 1
      BY AssemblyFields DEF Started
    <3>3. QED
      BY <3>1, <3>2, GoodGrows
  <2>3. CASE Clean(u, f, k + 1)
    BY <1>5, <1>7, <2>1, <2>3, WholeIsFinalized
  <2>4. QED
    BY <1>8, <2>2, <2>3
<1>10. k = Payloads => t.state # "ACCUM" /\ Good(t.out, f + 1)
  BY <1>3, <1>7, <1>9, CompletedParts
<1>11. k < Payloads => (Dirty(t) \/ Clean(t, f, k + 1)) /\ Good(t.out, f)
  BY <1>3, <1>5, <1>7, <1>8
<1>12. QED
  BY <1>10, <1>11 DEF h

LEMMA FeedWhole ==
  ASSUME NEW s, Started(s), stream \in Streams, NEW f \in Int, NEW k \in 1..Payloads,
         NEW p, WholePayload(p, f, k), <<f, k, 1>> \in Piece, f % 2 \in 0..1,
         Rough(s) \/ Clean(s, f, k), Good(s.out, f)
  PROVE  LET t == Feed(s, Genuine(f, k), p, <<f, k, 1>>) IN
         /\ k < Payloads => (Rough(t) \/ Clean(t, f, k + 1)) /\ Good(t.out, f)
         /\ k = Payloads => t.state # "ACCUM" /\ Good(t.out, f + 1)
<1> DEFINE h == Genuine(f, k)   ts == <<f, k, 1>>   r == Begin(s, h.fid, ts)
           t == Feed(s, h, p, ts)
<1>1. h \in Header /\ h.fid = f % 2 /\ h.sane
  BY DEF Genuine, Header
<1>2. s \in Assembly /\ p \in Buffers /\ s.out \in Outs
  BY AssemblyFields DEF WholePayload, Started
<1>3. /\ r \in Assembly /\ r.buf = <<>> /\ r.state = "ACCUM" /\ r.fid = f % 2
      /\ r.start = ts /\ r.out = s.out
  BY <1>1, <1>2, BeginParts
<1>4. \/ t = s /\ s.state # "ACCUM"
      \/ t = Accumulate(s, h, p, ts) /\ s.state = "ACCUM"
      \/ t = Accumulate(r, h, p, ts)
  BY <1>1, <1>2, FeedCases
<1> HIDE DEF r
<1>5. CASE t = s /\ s.state # "ACCUM"
  <2>1. f + 1 \in Int /\ f <= f + 1
    OBVIOUS
  <2>2. Good(s.out, f + 1)
    BY <1>2, <2>1, GoodGrows
  <2>3. QED
    BY <1>5, <2>2 DEF Rough
<1>6. CASE t = Accumulate(s, h, p, ts) /\ s.state = "ACCUM"
  <2>1. Dirty(s) \/ Clean(s, f, k)
    BY <1>6 DEF Rough
  <2>2. QED
    BY <1>6, <2>1, AccumulateWhole DEF Rough
<1>7. CASE t = Accumulate(r, h, p, ts)
  <2>1. Started(r)
    BY <1>3 DEF Started
  <2>2. QED
    BY <1>3, <1>7, <2>1, AccumulateWhole DEF Rough
<1>8. QED
  BY <1>4, <1>5, <1>6, <1>7

\* Nothing comes out of what began in the middle of a payload, of an error or of a keepalive.
LEMMA AccumulateRough ==
  ASSUME NEW s, Started(s), s.state = "ACCUM", stream \in Streams, Dirty(s) \/ s.buf = <<>>,
         NEW h \in Header, NEW data \in Buffers, NEW ts \in Piece,
         (data = <<>> /\ h.eof) \/ (data # <<>> /\ data[1][3] = 0)
  PROVE  LET t == Accumulate(s, h, data, ts) IN
         /\ Rough(t) /\ t.out = s.out
         /\ h.eof => t.state # "ACCUM"
<1> DEFINE v == Taken(s, h, ts)   u == With(v, data)   t == Accumulate(s, h, data, ts)
<1>1. t = IF h.err THEN Skipped(s) ELSE IF h.eof THEN Completed(u) ELSE u
  BY AccumulateCases
<1>2. /\ Started(v) /\ v.state = "ACCUM"
      /\ h.fid = s.fid => v = s
      /\ h.fid # s.fid => v.buf = <<>> /\ v.start = ts /\ v.out = Finalize(s).out
  BY TakenParts
<1> HIDE DEF v
<1>3. v.out = s.out /\ (Dirty(v) \/ v.buf = <<>>)
  BY <1>2, NothingFinalized
<1>4. Started(u) /\ u.state = "ACCUM" /\ u.out = v.out /\ u.buf = v.buf \o data
  BY <1>2, WithParts
<1>5. Dirty(u) \/ (h.eof /\ u.buf = <<>>)
  <2>1. CASE Dirty(v)
    BY <1>2, <2>1, DirtyStays
  <2>2. CASE v.buf = <<>>
    <3>1. u.buf = data
      BY <1>4, <2>2 DEF Buffers
    <3>2. QED
      BY <1>4, <3>1 DEF Dirty
  <2>3. QED
    BY <1>3, <2>1, <2>2
<1> HIDE DEF u
<1>6. Finalize(u).out = s.out
  BY <1>3, <1>4, <1>5, NothingFinalized
<1>7. Completed(u).state = "AWAIT" /\ Completed(u).out = s.out
  BY <1>4, <1>6, CompletedParts
<1>8. Skipped(s).state = "SKIP" /\ Skipped(s).out = s.out
  BY SkippedParts DEF Started
<1>9. QED
  BY <1>1, <1>3, <1>4, <1>5, <1>7, <1>8 DEF Rough

LEMMA FeedRough ==
  ASSUME NEW s, Started(s), stream \in Streams, Rough(s),
         NEW h \in Header, NEW data \in Buffers, NEW ts \in Piece,
         (data = <<>> /\ h.eof) \/ (data # <<>> /\ data[1][3] = 0)
  PROVE  LET t == Feed(s, h, data, ts) IN
         /\ Rough(t) /\ t.out = s.out
         /\ h.eof => t.state # "ACCUM"
<1> DEFINE r == Begin(s, h.fid, ts)   t == Feed(s, h, data, ts)
<1>1. s \in Assembly /\ h.fid \in 0..1
  BY DEF Started, Header
<1>2. r \in Assembly /\ r.buf = <<>> /\ r.state = "ACCUM" /\ r.start = ts /\ r.out = s.out
  BY <1>1, BeginParts
<1>3. Skipped(s).state = "SKIP" /\ Skipped(s).out = s.out
  BY <1>1, SkippedParts
<1>4. \/ t = Skipped(s)
      \/ t = s /\ s.state # "ACCUM"
      \/ t = Accumulate(s, h, data, ts) /\ s.state = "ACCUM"
      \/ t = Accumulate(r, h, data, ts)
  BY <1>1, FeedCases
<1> HIDE DEF r
<1>5. CASE t = Accumulate(s, h, data, ts) /\ s.state = "ACCUM"
  BY <1>5, AccumulateRough DEF Rough
<1>6. CASE t = Accumulate(r, h, data, ts)
  BY <1>2, <1>6, AccumulateRough DEF Started
<1>7. CASE t = Skipped(s) \/ (t = s /\ s.state # "ACCUM")
  BY <1>3, <1>7 DEF Rough
<1>8. QED
  BY <1>4, <1>5, <1>6, <1>7

LEMMA FeedBad ==
  ASSUME NEW s, Started(s), NEW h \in Header, h.err \/ ~h.sane,
         NEW data \in Buffers, NEW ts \in Piece
  PROVE  LET t == Feed(s, h, data, ts) IN t.state # "ACCUM" /\ t.out = s.out
<1> DEFINE r == Begin(s, h.fid, ts)   t == Feed(s, h, data, ts)
<1>1. s \in Assembly /\ h.fid \in 0..1
  BY DEF Started, Header
<1>2. r \in Assembly /\ r.out = s.out
  BY <1>1, BeginParts
<1>3. Skipped(s).state = "SKIP" /\ Skipped(s).out = s.out
  BY <1>1, SkippedParts
<1>4. Skipped(r).state = "SKIP" /\ Skipped(r).out = r.out
  BY <1>2, SkippedParts
<1>5. t \in {Skipped(s), Skipped(r)} \/ (t = s /\ s.state # "ACCUM")
  BY <1>1, FeedCases, AccumulateCases
<1> HIDE DEF r
<1>6. QED
  BY <1>2, <1>3, <1>4, <1>5

\* What is pending, b, of which the camera sends q next, is payload k of frame f from its
\* first byte on; due says that it is whole but for the empty URB.
Aligned(b, q, due, f, k) ==
  \/ /\ ~due \/ b.pending = <<>>
     /\ q = <<f, k, Len(b.pending) + 1>>
     /\ \A j \in 1..Len(b.pending) : b.pending[j] = <<f, k, j>>
  \/ /\ due /\ WholePayload(b.pending, f, k)
     /\ q = IF k = Payloads THEN <<f + 1, 1, 1>> ELSE <<f, k + 1, 1>>

\* What begins with the first byte of a payload has all of it so far.
Pending(b, q, due) ==
  /\ b.cont <=> b.pending # <<>>
  /\ b.cont => b.ts = b.pending[1]
  /\ b.cont /\ b.pending[1][3] = 1 => Aligned(b, q, due, b.pending[1][1], b.pending[1][2])
  /\ ~stream.bulk => ~b.cont
  /\ due => stream.ends = "empty" /\ q[3] = 1

\* A frame that is accumulated from a payload's first byte on has no hole.
Assembling(s, b, q, due) ==
  Rough(s) \/ \E f \in Int, k \in 1..Payloads : Aligned(b, q, due, f, k) /\ Clean(s, f, k)

Emitted(s, b, q, due) ==
  /\ Good(s.out, q[1])
  /\ \A f \in Int, k \in 1..Payloads : Aligned(b, q, due, f, k) => Good(s.out, f)

Carried(s, b, q, due) == Pending(b, q, due) /\ Assembling(s, b, q, due) /\ Emitted(s, b, q, due)

UvcInv == UvcTypes /\ (untold \/ urbFailed \/ Carried(asm, bulk, sent, owed))

LEMMA CarriedNext ==
  ASSUME stream' = stream
  PROVE  Carried(asm, bulk, sent, owed)' <=> Carried(asm', bulk', sent', owed')
<1>1. Last' = Last
  BY DEF Last
<1>2. \A f : Whole(f)' = Whole(f) /\ First(f)' = First(f)
  BY <1>1 DEF Whole, First
<1>3. \A f : Good(asm.out, f)' <=> Good(asm'.out, f)
  BY <1>2 DEF Good
<1>4. \A f, k : Clean(asm, f, k)' <=> Clean(asm', f, k)
  BY <1>1 DEF Clean, Run
<1>5. \A f, k : WholePayload(bulk.pending, f, k)' <=> WholePayload(bulk'.pending, f, k)
  BY <1>1 DEF WholePayload, Buffers
<1>6. \A f, k : Aligned(bulk, sent, owed, f, k)' <=> Aligned(bulk', sent', owed', f, k)
  BY <1>5 DEF Aligned
<1>7. Rough(asm)' <=> Rough(asm')
  BY DEF Rough, Dirty
<1>8. Pending(bulk, sent, owed)' <=> Pending(bulk', sent', owed')
  BY <1>6 DEF Pending
<1>9. Assembling(asm, bulk, sent, owed)' <=> Assembling(asm', bulk', sent', owed')
  BY <1>4, <1>6, <1>7 DEF Assembling
<1>10. Emitted(asm, bulk, sent, owed)' <=> Emitted(asm', bulk', sent', owed')
  BY <1>3, <1>6 DEF Emitted
<1>11. QED
  BY <1>8, <1>9, <1>10 DEF Carried

LEMMA AlignedParts ==
  ASSUME stream \in Streams, NEW b, b.pending \in Buffers, NEW q, NEW due,
         NEW f, NEW k, Aligned(b, q, due, f, k)
  PROVE  /\ b.pending # <<>> => b.pending[1] = <<f, k, 1>>
         /\ b.pending = <<>> => q = <<f, k, 1>>
         /\ ~due => q = <<f, k, Len(b.pending) + 1>>
<1>1. Last \in Nat \ {0} /\ b.pending \in Seq(Piece)
  BY LastIsPositive DEF Buffers
<1>2. CASE q = <<f, k, Len(b.pending) + 1>> /\ \A j \in 1..Len(b.pending) : b.pending[j] = <<f, k, j>>
  BY <1>1, <1>2
<1>3. CASE due /\ WholePayload(b.pending, f, k)
  <2>1. Len(b.pending) = Last /\ b.pending[1] = <<f, k, 1>>
    BY <1>1, <1>3 DEF WholePayload
  <2>2. b.pending # <<>>
    BY <1>1, <2>1
  <2>3. QED
    BY <1>3, <2>1, <2>2
<1>4. QED
  BY <1>2, <1>3 DEF Aligned

\* With nothing accumulated from a payload's first byte on, and nothing pending.
LEMMA CarriedRough ==
  ASSUME stream \in Streams, NEW s, NEW b, NEW q \in Piece, NEW due,
         Rough(s), Good(s.out, q[1]), b.pending = <<>>, ~b.cont,
         due => stream.ends = "empty" /\ q[3] = 1
  PROVE  Carried(s, b, q, due)
<1>1. b.pending \in Buffers
  BY FieldValues
<1>2. \A f \in Int, k \in 1..Payloads : Aligned(b, q, due, f, k) => q = <<f, k, 1>>
  BY <1>1, AlignedParts
<1>3. \A f \in Int, k \in 1..Payloads : Aligned(b, q, due, f, k) => q[1] = f
  BY <1>2
<1>4. QED
  BY <1>3 DEF Carried, Pending, Assembling, Emitted

LEMMA FedFromFirst ==
  ASSUME stream \in Streams, NEW s, NEW p \in Buffers, p # <<>>,
         NEW f, NEW k, WholePayload(p, f, k), NEW t \in Fed(s, p, p[1])
  PROVE  t = Feed(s, Genuine(f, k), p, <<f, k, 1>>) /\ <<f, k, 1>> \in Piece /\ p[1] = <<f, k, 1>>
<1>1. PICK h \in Headers(p) : t = Feed(s, h, DataOf(p), p[1])
  BY DEF Fed
<1>2. p[1] \in Piece
  BY DataIsTyped
<1>3. p[1] = <<f, k, 1>>
  BY LastIsPositive DEF WholePayload
<1>4. DataOf(p) = p
  BY <1>3 DEF DataOf
<1>5. h = Genuine(f, k)
  <2>1. p[1][1] = f /\ p[1][2] = k /\ p[1][3] = 1
    BY <1>3
  <2>2. QED
    BY <1>1, <2>1 DEF Headers, Genuine
<1>6. QED
  BY <1>1, <1>2, <1>3, <1>4, <1>5

LEMMA FedParts ==
  ASSUME stream \in Streams, NEW s, Started(s), NEW p \in Buffers, p # <<>>,
         NEW f \in Int, NEW k \in 1..Payloads, f % 2 \in 0..1,
         p[1][3] = 1 => WholePayload(p, f, k) /\ (Rough(s) \/ Clean(s, f, k)) /\ Good(s.out, f),
         p[1][3] # 1 => Rough(s),
         NEW t \in Fed(s, p, p[1])
  PROVE  /\ p[1][3] = 1 /\ k < Payloads => (Rough(t) \/ Clean(t, f, k + 1)) /\ Good(t.out, f)
         /\ p[1][3] = 1 /\ k = Payloads => t.state # "ACCUM" /\ Good(t.out, f + 1)
         /\ p[1][3] # 1 => Rough(t) /\ t.out = s.out
<1>1. PICK h \in Headers(p) : t = Feed(s, h, DataOf(p), p[1])
  BY DEF Fed
<1>2. h \in Header /\ DataOf(p) \in Buffers /\ DataOf(p) # <<>> /\ p[1] \in Piece
  BY DataIsTyped
<1>3. CASE p[1][3] = 1
  <2>1. WholePayload(p, f, k) /\ (Rough(s) \/ Clean(s, f, k)) /\ Good(s.out, f)
    BY <1>3
  <2>2. t = Feed(s, Genuine(f, k), p, <<f, k, 1>>) /\ <<f, k, 1>> \in Piece
    BY <2>1, FedFromFirst
  <2>3. QED
    BY <1>3, <2>1, <2>2, FeedWhole
<1>4. CASE p[1][3] # 1
  <2>1. DataOf(p)[1][3] = 0
    <3>1. DataOf(p) = <<<<p[1][1], p[1][2], 0>>>> \o Tail(p)
      BY <1>4 DEF DataOf
    <3>2. Tail(p) \in Seq(Piece) /\ <<p[1][1], p[1][2], 0>> \in Piece
      <4>1. p \in Seq(Piece) /\ p[1] \in Piece
        BY <1>2 DEF Buffers
      <4>2. Tail(p) \in Seq(Piece)
        BY <4>1
      <4>3. QED
        BY <4>1, <4>2, UvcAssumption DEF Piece
    <3> DEFINE z == <<p[1][1], p[1][2], 0>>
    <3>3. z[3] = 0 /\ z \in Piece
      BY <3>2
    <3> HIDE DEF z
    <3>4. (<<z>> \o Tail(p))[1] = z
      BY <3>2, <3>3
    <3>5. QED
      BY <3>1, <3>3, <3>4 DEF z
  <2>2. QED
    BY <1>1, <1>2, <1>4, <2>1, FeedRough
<1>5. QED
  BY <1>3, <1>4

LEMMA SentParts ==
  ASSUME UvcTypes, Sending
  PROVE  \E f \in 1..CamFrames, k \in 1..Payloads, c \in 1..Last :
           /\ sent = <<f, k, c>> /\ Camera = f /\ f % 2 \in 0..1 /\ <<f, k, 1>> \in Piece
           /\ EndOfPayload <=> c = Last
           /\ EndOfFrame <=> c = Last /\ k = Payloads
           /\ Sent => sent' = IF c # Last THEN <<f, k, c + 1>>
                              ELSE IF k = Payloads THEN <<f + 1, 1, 1>> ELSE <<f, k + 1, 1>>
<1> DEFINE f == sent[1]   k == sent[2]   c == sent[3]
<1>1. f \in 1..CamFrames /\ k \in 1..Payloads /\ c \in 1..Last /\ sent = <<f, k, c>>
  BY UvcTypesParts, PieceParts, UvcAssumption DEF Sending, Camera
<1>2. f % 2 \in 0..1
  BY <1>1, UvcAssumption
<1>3. <<f, k, 1>> \in Piece
  BY <1>1, UvcAssumption DEF Piece
<1>4. (EndOfPayload <=> c = Last) /\ (EndOfFrame <=> c = Last /\ k = Payloads) /\ Camera = f
  BY DEF EndOfPayload, EndOfFrame, Camera
<1>5. Sent => sent' = IF c # Last THEN <<f, k, c + 1>>
                      ELSE IF k = Payloads THEN <<f + 1, 1, 1>> ELSE <<f, k + 1, 1>>
  BY <1>4 DEF Sent, First, Camera
<1> HIDE DEF f, k, c
<1>6. QED
  BY <1>1, <1>2, <1>3, <1>4, <1>5

\* A step that leaves nothing accumulated and nothing pending.
LEMMA RoughStep ==
  ASSUME UvcTypes, Sending, Sent, stream' = stream, owed' \in BOOLEAN,
         Rough(asm'), asm'.out = asm.out, bulk'.pending = <<>>, ~bulk'.cont,
         owed' => EndOfPayload /\ stream.ends = "empty",
         Carried(asm, bulk, sent, owed)
  PROVE  Carried(asm', bulk', sent', owed')
<1>1. PICK f \in 1..CamFrames, k \in 1..Payloads, c \in 1..Last :
        /\ sent = <<f, k, c>>
        /\ EndOfPayload <=> c = Last
        /\ sent' = IF c # Last THEN <<f, k, c + 1>>
                   ELSE IF k = Payloads THEN <<f + 1, 1, 1>> ELSE <<f, k + 1, 1>>
  BY SentParts
<1>2. sent' \in Piece /\ stream \in Streams /\ asm.out \in Outs
  BY SentStays, UvcTypesParts, AssemblyFields DEF Started
<1>3. sent'[1] \in {f, f + 1} /\ (EndOfPayload => sent'[3] = 1)
  BY <1>1
<1>4. Good(asm.out, f)
  BY <1>1 DEF Carried, Emitted
<1>5. Good(asm'.out, sent'[1])
  BY <1>2, <1>3, <1>4, GoodGrows
<1>6. QED
  BY <1>2, <1>3, <1>5, CarriedRough

\* A payload has been fed, and nothing is pending.
LEMMA AfterPayload ==
  ASSUME stream \in Streams, NEW f \in Int, NEW k \in 1..Payloads, NEW s, NEW b, NEW q, NEW due,
         k < Payloads => (Rough(s) \/ Clean(s, f, k + 1)) /\ Good(s.out, f),
         k = Payloads => s.state # "ACCUM" /\ Good(s.out, f + 1),
         b.pending = <<>>, ~b.cont, due => stream.ends = "empty",
         q = IF k = Payloads THEN <<f + 1, 1, 1>> ELSE <<f, k + 1, 1>>
  PROVE  Carried(s, b, q, due)
<1>1. q[1] = (IF k = Payloads THEN f + 1 ELSE f) /\ q[3] = 1
  OBVIOUS
<1>2. k < Payloads \/ k = Payloads
  BY UvcAssumption
<1>3. Good(s.out, q[1])
  BY <1>1, <1>2
<1>4. Pending(b, q, due)
  BY <1>1 DEF Pending
<1>5. ASSUME NEW f2 \in Int, NEW k2 \in 1..Payloads, Aligned(b, q, due, f2, k2)
      PROVE  Good(s.out, f2)
  <2>1. b.pending \in Buffers
    BY FieldValues
  <2>2. q = <<f2, k2, 1>>
    BY <1>5, <2>1, AlignedParts
  <2>3. q[1] = f2
    BY <2>2
  <2>4. QED
    BY <1>3, <2>3
<1>6. Assembling(s, b, q, due)
  <2>1. CASE Rough(s)
    BY <2>1 DEF Assembling
  <2>2. CASE ~Rough(s)
    <3>1. k < Payloads /\ Clean(s, f, k + 1)
      BY <1>2, <2>2 DEF Rough
    <3>2. q = <<f, k + 1, 1>> /\ k + 1 \in 1..Payloads
      BY <3>1, UvcAssumption
    <3>3. Aligned(b, q, due, f, k + 1)
      BY <3>2 DEF Aligned
    <3>4. QED
      BY <3>1, <3>2, <3>3, Zenon DEF Assembling
  <2>3. QED
    BY <2>1, <2>2
<1>7. QED
  BY <1>3, <1>4, <1>5, <1>6 DEF Carried, Emitted

\* What a bulk URB makes of what is pending, p being that and the URB: p is a payload and
\* fed, p goes on, or p lacks the beginning of a payload and is given up, fed or not.
LEMMA UrbCases ==
  ASSUME UvcTypes, Carried(asm, bulk, sent, owed), Sending, stream.bulk, stream' = stream,
         NEW req \in BOOLEAN, req \/ Pieces = 1, FeedUrb(sent, IsShort, req), Sent, Owes
  PROVE  \E f \in 1..CamFrames, k \in 1..Payloads, c \in 1..Last, p \in Buffers :
           /\ sent = <<f, k, c>> /\ f % 2 \in 0..1 /\ <<f, k, 1>> \in Piece
           /\ sent' = IF c # Last THEN <<f, k, c + 1>>
                      ELSE IF k = Payloads THEN <<f + 1, 1, 1>> ELSE <<f, k + 1, 1>>
           /\ owed' \in BOOLEAN /\ (owed' <=> c = Last /\ stream.ends = "empty")
           /\ p # <<>> /\ p[1] = (IF bulk.pending = <<>> THEN sent ELSE bulk.pending[1])
           /\ p[1][3] = 1 <=> Aligned(bulk, sent, owed, f, k)
           /\ p[1][3] = 1 => Len(p) = c /\ \A j \in 1..c : p[j] = <<f, k, j>>
           /\ \/ /\ c = Last /\ p[1][3] = 1 /\ WholePayload(p, f, k)
                 /\ asm' \in Fed(asm, p, p[1]) /\ bulk' = Dropped(FALSE)
              \/ /\ c = Last /\ (k = Payloads \/ p[1][3] = 1) => owed'
                 /\ asm' = asm /\ bulk'.pending = p /\ bulk'.cont /\ bulk'.ts = p[1]
              \/ /\ p[1][3] # 1
                 /\ asm' \in Fed(asm, p, p[1]) \cup {asm} /\ bulk' = Dropped(FALSE)
<1>1. PICK f \in 1..CamFrames, k \in 1..Payloads, c \in 1..Last :
        /\ sent = <<f, k, c>> /\ f % 2 \in 0..1 /\ <<f, k, 1>> \in Piece
        /\ EndOfPayload <=> c = Last
        /\ EndOfFrame <=> c = Last /\ k = Payloads
        /\ sent' = IF c # Last THEN <<f, k, c + 1>>
                   ELSE IF k = Payloads THEN <<f + 1, 1, 1>> ELSE <<f, k + 1, 1>>
  BY SentParts
<1>2. /\ Last = Pieces /\ Last \in Nat \ {0} /\ owed \in BOOLEAN /\ ~owed /\ sent \in Piece /\ sent' \in Piece
      /\ stream \in Streams /\ Started(asm) /\ asm.out \in Outs
      /\ bulk.pending \in Buffers /\ bulk.cont \in BOOLEAN
  BY SentStays, UvcTypesParts, LastIsPositive, AssemblyFields DEF Sending, Started, HeldBy, Payload, Last
<1>3. owed' \in BOOLEAN /\ (owed' <=> c = Last /\ stream.ends = "empty")
  BY <1>1 DEF Owes
<1>4. IsShort => c = Last
  BY <1>1 DEF IsShort
<1>5. c = Last /\ stream.ends # "empty" => IsShort \/ stream.ends = "size"
  BY <1>1, <1>2 DEF IsShort, Streams
<1> DEFINE p == bulk.pending \o <<sent>>
           fire == (Len(p) >= Pieces /\ stream.ends = "size") \/ ((req /\ IsShort) \/ ~req)
           keep == [pending |-> p, cont |-> TRUE, ts |-> p[1], req |-> FALSE]
<1>6. /\ p \in Buffers /\ p # <<>> /\ Len(p) = Len(bulk.pending) + 1 /\ p[Len(p)] = sent
      /\ \A j \in 1..Len(bulk.pending) : p[j] = bulk.pending[j]
      /\ Len(bulk.pending) \in Nat
  <2>1. bulk.pending \in Seq(Piece) /\ <<sent>> \in Seq(Piece)
    BY <1>2 DEF Buffers
  <2>2. p \in Seq(Piece) /\ Len(p) = Len(bulk.pending) + 1 /\ Len(bulk.pending) \in Nat
    BY <2>1
  <2>3. p # <<>>
    BY <2>2
  <2>4. p[Len(p)] = sent /\ \A j \in 1..Len(bulk.pending) : p[j] = bulk.pending[j]
    BY <2>1, <2>2
  <2>5. QED
    BY <2>2, <2>3, <2>4 DEF Buffers
<1>7. /\ bulk.cont <=> bulk.pending # <<>>
      /\ bulk.cont => bulk.ts = bulk.pending[1]
      /\ bulk.cont /\ bulk.pending[1][3] = 1
           => Aligned(bulk, sent, owed, bulk.pending[1][1], bulk.pending[1][2])
  BY DEF Carried, Pending
<1>8. p[1] = IF bulk.cont THEN bulk.ts ELSE sent
  <2>1. CASE bulk.cont
    <3>1. 1 \in 1..Len(bulk.pending)
      BY <1>2, <1>7, <2>1 DEF Buffers
    <3>2. QED
      BY <1>6, <1>7, <2>1, <3>1
  <2>2. CASE ~bulk.cont
    <3>1. Len(bulk.pending) = 0
      BY <1>7, <2>2
    <3>2. QED
      BY <1>6, <2>2, <3>1
  <2>3. QED
    BY <2>1, <2>2
<1>9. /\ Len(p) > MaxPending => bulk' = Dropped(FALSE) /\ asm' = asm
      /\ ~(Len(p) > MaxPending) /\ fire => asm' \in Fed(asm, p, p[1]) /\ bulk' = Dropped(FALSE)
      /\ ~(Len(p) > MaxPending) /\ ~fire => asm' = asm /\ bulk' = keep
  <2> DEFINE q == IF bulk.cont THEN bulk.pending ELSE <<>>
             ts == IF bulk.cont THEN bulk.ts ELSE sent
  <2>1. q = bulk.pending /\ ts = p[1]
    BY <1>7, <1>8
  <2> DEFINE r == q \o <<sent>>
             fires == (Len(r) >= Pieces /\ stream.ends = "size") \/ ((req /\ IsShort) \/ ~req)
  <2>2. IF Len(r) > MaxPending THEN bulk' = Dropped(FALSE) /\ UNCHANGED asm
        ELSE /\ asm' \in Fed(asm, IF fires THEN r ELSE <<>>, ts)
             /\ bulk' = IF fires THEN Dropped(FALSE)
                        ELSE [pending |-> r, cont |-> TRUE, ts |-> ts, req |-> FALSE]
    BY DEF FeedUrb
  <2>3. r = p /\ (fires <=> fire)
    BY <2>1
  <2>4. Fed(asm, <<>>, ts) = {asm}
    BY DEF Fed
  <2> HIDE DEF q, ts, r, fires, p, fire
  <2>5. QED
    BY <2>1, <2>2, <2>3, <2>4, Zenon
<1>11. keep.pending = p /\ keep.cont /\ keep.ts = p[1]
  OBVIOUS
<1>12. /\ p[1][3] = 1 => Aligned(bulk, sent, owed, f, k)
       /\ Aligned(bulk, sent, owed, f, k)
            => Len(p) = c /\ p[1][3] = 1 /\ \A j \in 1..c : p[j] = <<f, k, j>>
  <2>1. ASSUME Aligned(bulk, sent, owed, f, k)
        PROVE  Len(p) = c /\ p[1][3] = 1 /\ \A j \in 1..c : p[j] = <<f, k, j>>
    <3>1. sent = <<f, k, Len(bulk.pending) + 1>>
      BY <1>2, <2>1, AlignedParts
    <3>2. \A j \in 1..Len(bulk.pending) : bulk.pending[j] = <<f, k, j>>
      BY <1>2, <2>1 DEF Aligned
    <3>3. Len(p) = c
      BY <1>1, <1>6, <3>1
    <3>4. \A j \in 1..c : p[j] = <<f, k, j>>
      BY <1>1, <1>6, <3>2, <3>3
    <3>5. p[1] = <<f, k, 1>>
      <4>1. 1 \in 1..c
        BY <1>2
      <4>2. QED
        BY <3>4, <4>1, Zenon
    <3>6. QED
      BY <3>3, <3>4, <3>5
  <2>2. ASSUME p[1][3] = 1 PROVE Aligned(bulk, sent, owed, f, k)
    <3>1. CASE bulk.cont
      <4> DEFINE f2 == bulk.pending[1][1]   k2 == bulk.pending[1][2]
      <4>1. Aligned(bulk, sent, owed, f2, k2)
        BY <1>7, <1>8, <2>2, <3>1
      <4> HIDE DEF f2, k2
      <4>2. sent = <<f2, k2, Len(bulk.pending) + 1>>
        BY <1>2, <4>1, AlignedParts
      <4>3. f2 = f /\ k2 = k
        BY <1>1, <4>2
      <4>4. QED
        BY <4>1, <4>3
    <3>2. CASE ~bulk.cont
      <4>1. bulk.pending = <<>> /\ c = 1
        BY <1>1, <1>7, <1>8, <2>2, <3>2
      <4>2. QED
        BY <1>1, <4>1 DEF Aligned
    <3>3. QED
      BY <1>2, <3>1, <3>2
  <2>3. QED
    BY <2>1, <2>2
<1>13. p[1] = IF bulk.pending = <<>> THEN sent ELSE bulk.pending[1]
  BY <1>7, <1>8
<1>14. c = Last /\ k = Payloads /\ stream.ends # "empty" => IsShort
  BY <1>1, <1>2 DEF IsShort, Streams
<1> HIDE DEF p, fire, keep
<1>15. CASE Len(p) > MaxPending
  <2>1. p[1][3] # 1
    BY <1>2, <1>12, <1>15, UvcAssumption
  <2>2. QED
    BY <1>1, <1>3, <1>6, <1>9, <1>12, <1>13, <1>15, <2>1
<1>16. CASE ~(Len(p) > MaxPending) /\ fire
  <2>1. asm' \in Fed(asm, p, p[1]) /\ bulk' = Dropped(FALSE)
    BY <1>9, <1>16
  <2>2. CASE p[1][3] # 1
    BY <1>1, <1>3, <1>6, <1>12, <1>13, <2>1, <2>2
  <2>3. CASE p[1][3] = 1
    <3>1. Len(p) = c /\ \A j \in 1..c : p[j] = <<f, k, j>>
      BY <1>12, <2>3
    <3>2. c = Last
      BY <1>2, <1>4, <1>16, <3>1 DEF fire
    <3>3. WholePayload(p, f, k)
      BY <1>6, <3>1, <3>2 DEF WholePayload
    <3>4. QED
      BY <1>1, <1>3, <1>6, <1>12, <1>13, <2>1, <2>3, <3>1, <3>2, <3>3
  <2>4. QED
    BY <2>2, <2>3
<1>17. CASE ~(Len(p) > MaxPending) /\ ~fire
  <2>1. asm' = asm /\ bulk'.pending = p /\ bulk'.cont /\ bulk'.ts = p[1]
    BY <1>9, <1>11, <1>17
  <2>2. c = Last /\ k = Payloads => owed'
    BY <1>3, <1>14, <1>17 DEF fire
  <2>3. c = Last /\ p[1][3] = 1 => owed'
    BY <1>2, <1>3, <1>5, <1>12, <1>17 DEF fire
  <2>4. QED
    BY <1>1, <1>3, <1>6, <1>12, <1>13, <2>1, <2>2, <2>3
<1>18. QED
  BY <1>15, <1>16, <1>17, Zenon

LEMMA BulkUrbStep ==
  ASSUME UvcTypes, Carried(asm, bulk, sent, owed), Sending, stream.bulk, stream' = stream,
         NEW req \in BOOLEAN, req \/ Pieces = 1, FeedUrb(sent, IsShort, req), Sent, Owes
  PROVE  Carried(asm', bulk', sent', owed')
<1>1. PICK f \in 1..CamFrames, k \in 1..Payloads, c \in 1..Last, p \in Buffers :
        /\ sent = <<f, k, c>> /\ f % 2 \in 0..1 /\ <<f, k, 1>> \in Piece
        /\ sent' = IF c # Last THEN <<f, k, c + 1>>
                   ELSE IF k = Payloads THEN <<f + 1, 1, 1>> ELSE <<f, k + 1, 1>>
        /\ owed' \in BOOLEAN /\ (owed' <=> c = Last /\ stream.ends = "empty")
        /\ p # <<>> /\ p[1] = (IF bulk.pending = <<>> THEN sent ELSE bulk.pending[1])
        /\ p[1][3] = 1 <=> Aligned(bulk, sent, owed, f, k)
        /\ p[1][3] = 1 => Len(p) = c /\ \A j \in 1..c : p[j] = <<f, k, j>>
        /\ \/ /\ c = Last /\ p[1][3] = 1 /\ WholePayload(p, f, k)
              /\ asm' \in Fed(asm, p, p[1]) /\ bulk' = Dropped(FALSE)
           \/ /\ c = Last /\ (k = Payloads \/ p[1][3] = 1) => owed'
              /\ asm' = asm /\ bulk'.pending = p /\ bulk'.cont /\ bulk'.ts = p[1]
           \/ /\ p[1][3] # 1
              /\ asm' \in Fed(asm, p, p[1]) \cup {asm} /\ bulk' = Dropped(FALSE)
  BY UrbCases
<1>2. /\ Last \in Nat \ {0} /\ ~owed /\ sent' \in Piece
      /\ stream \in Streams /\ Started(asm) /\ asm.out \in Outs /\ bulk.pending \in Buffers
      /\ f \in Int /\ k \in Nat
  BY SentStays, UvcTypesParts, LastIsPositive, AssemblyFields, UvcAssumption
     DEF Sending, Started, HeldBy, Payload
<1>3. Rough(asm) \/ (Aligned(bulk, sent, owed, f, k) /\ Clean(asm, f, k))
  <2>1. SUFFICES ASSUME NEW f2 \in Int, NEW k2 \in 1..Payloads,
                        Aligned(bulk, sent, owed, f2, k2), Clean(asm, f2, k2)
                 PROVE  Aligned(bulk, sent, owed, f, k) /\ Clean(asm, f, k)
    BY Zenon DEF Carried, Assembling
  <2>2. sent = <<f2, k2, Len(bulk.pending) + 1>>
    BY <1>2, <2>1, AlignedParts
  <2>3. f2 = f /\ k2 = k
    BY <1>1, <2>2
  <2>4. QED
    BY <2>1, <2>3
<1>4. Good(asm.out, f)
  BY <1>1 DEF Carried, Emitted
<1>5. /\ sent'[1] \in {f, f + 1}
      /\ owed' => EndOfPayload /\ stream.ends = "empty" /\ sent'[3] = 1
  BY <1>1 DEF EndOfPayload
<1>6. Dropped(FALSE).pending = <<>> /\ ~Dropped(FALSE).cont
  BY DroppedIsHeld
<1>7. CASE /\ c = Last /\ p[1][3] = 1 /\ WholePayload(p, f, k)
           /\ asm' \in Fed(asm, p, p[1]) /\ bulk' = Dropped(FALSE)
  <2>1. /\ k < Payloads => (Rough(asm') \/ Clean(asm', f, k + 1)) /\ Good(asm'.out, f)
        /\ k = Payloads => asm'.state # "ACCUM" /\ Good(asm'.out, f + 1)
    BY <1>1, <1>2, <1>3, <1>4, <1>7, FedParts
  <2>2. sent' = IF k = Payloads THEN <<f + 1, 1, 1>> ELSE <<f, k + 1, 1>>
    BY <1>1, <1>7
  <2>3. QED
    BY <1>2, <1>5, <1>6, <1>7, <2>1, <2>2, AfterPayload
<1>8. CASE /\ c = Last /\ (k = Payloads \/ p[1][3] = 1) => owed'
           /\ asm' = asm /\ bulk'.pending = p /\ bulk'.cont /\ bulk'.ts = p[1]
  <2>1. p[1][3] = 1 => p[1] = <<f, k, 1>> /\ Aligned(bulk', sent', owed', f, k)
    <3>1. SUFFICES ASSUME p[1][3] = 1
                   PROVE  p[1] = <<f, k, 1>> /\ Aligned(bulk', sent', owed', f, k)
      OBVIOUS
    <3>2. Len(p) = c /\ \A j \in 1..c : p[j] = <<f, k, j>>
      BY <1>1, <3>1
    <3>3. p[1] = <<f, k, 1>>
      BY <1>2, <3>2
    <3>4. CASE c = Last
      <4>1. owed' /\ WholePayload(p, f, k)
        BY <1>8, <3>1, <3>2, <3>4 DEF WholePayload
      <4>2. QED
        BY <1>1, <1>8, <3>3, <3>4, <4>1 DEF Aligned
    <3>5. CASE c # Last
      <4>1. ~owed' /\ sent' = <<f, k, Len(p) + 1>>
        BY <1>1, <3>2, <3>5
      <4>2. QED
        BY <1>8, <3>2, <3>3, <4>1 DEF Aligned
    <3>6. QED
      BY <3>4, <3>5
  <2>2. Pending(bulk', sent', owed')
    <3>1. p[1][3] = 1 => Aligned(bulk', sent', owed', p[1][1], p[1][2])
      BY <2>1
    <3>2. QED
      BY <1>1, <1>5, <1>8, <3>1 DEF Pending
  <2>3. ASSUME NEW f2 \in Int, NEW k2 \in 1..Payloads, Aligned(bulk', sent', owed', f2, k2)
        PROVE  f2 = f /\ k2 = k /\ p[1][3] = 1
    <3>1. p[1] = <<f2, k2, 1>>
      BY <1>1, <1>2, <1>8, <2>3, AlignedParts
    <3>2. QED
      BY <2>1, <3>1
  <2>4. Assembling(asm', bulk', sent', owed')
    <3>1. Aligned(bulk, sent, owed, f, k) => Aligned(bulk', sent', owed', f, k)
      BY <1>1, <2>1
    <3>2. QED
      BY <1>2, <1>3, <1>8, <3>1 DEF Assembling
  <2>5. Good(asm'.out, sent'[1])
    BY <1>2, <1>4, <1>5, <1>8, GoodGrows
  <2>6. QED
    BY <1>4, <1>8, <2>2, <2>3, <2>4, <2>5 DEF Carried, Emitted
<1>9. CASE /\ p[1][3] # 1
           /\ asm' \in Fed(asm, p, p[1]) \cup {asm} /\ bulk' = Dropped(FALSE)
  <2>1. Rough(asm)
    BY <1>1, <1>3, <1>9
  <2>2. asm' \in Fed(asm, p, p[1]) => Rough(asm') /\ asm'.out = asm.out
    <3>1. SUFFICES ASSUME asm' \in Fed(asm, p, p[1]) PROVE Rough(asm') /\ asm'.out = asm.out
      OBVIOUS
    <3>2. QED
      BY <1>1, <1>2, <1>9, <2>1, <3>1, FedParts
  <2>3. Rough(asm') /\ asm'.out = asm.out
    BY <1>9, <2>1, <2>2
  <2>4. QED
    BY <1>1, <1>5, <1>6, <1>9, <2>3, RoughStep
<1>10. QED
  BY <1>1, <1>7, <1>8, <1>9

\* What is accumulated without a hole is of the payload that is pending or comes next.
LEMMA WhatIsClean ==
  ASSUME UvcTypes, Carried(asm, bulk, sent, owed), NEW f, NEW k,
         \/ bulk.pending # <<>> /\ bulk.pending[1] = <<f, k, 1>>
         \/ bulk.pending = <<>> /\ sent = <<f, k, 1>>
  PROVE  Rough(asm) \/ Clean(asm, f, k)
<1>1. stream \in Streams /\ bulk.pending \in Buffers
  BY UvcTypesParts DEF HeldBy, Payload
<1>2. SUFFICES ASSUME NEW f2 \in Int, NEW k2 \in 1..Payloads,
                      Aligned(bulk, sent, owed, f2, k2), Clean(asm, f2, k2)
               PROVE  Clean(asm, f, k)
  BY Zenon DEF Carried, Assembling
<1>3. <<f2, k2, 1>> = <<f, k, 1>>
  BY <1>1, <1>2, AlignedParts
<1>4. f2 = f /\ k2 = k
  BY <1>3
<1>5. QED
  BY <1>2, <1>4

LEMMA BulkEmptyStep ==
  ASSUME UvcTypes, Carried(asm, bulk, sent, owed), owed, owed' = FALSE, FeedEmpty,
         sent' = sent, stream' = stream
  PROVE  Carried(asm', bulk', sent', owed')
<1>1. /\ stream \in Streams /\ Started(asm) /\ bulk.pending \in Buffers /\ sent \in Piece
      /\ bulk.cont \in BOOLEAN
  BY UvcTypesParts DEF HeldBy, Payload
<1>2. /\ bulk.cont <=> bulk.pending # <<>>
      /\ bulk.cont => bulk.ts = bulk.pending[1]
      /\ bulk.cont /\ bulk.pending[1][3] = 1
           => Aligned(bulk, sent, owed, bulk.pending[1][1], bulk.pending[1][2])
  BY DEF Carried, Pending
<1>3. asm' \in Fed(asm, bulk.pending, bulk.ts)
  BY <1>2 DEF FeedEmpty
<1>4. bulk'.pending = <<>> /\ ~bulk'.cont
  BY DroppedIsHeld DEF FeedEmpty
<1>5. CASE bulk.pending = <<>>
  <2>1. asm' = asm
    BY <1>3, <1>5 DEF Fed
  <2>2. ASSUME NEW f, NEW k
        PROVE  Aligned(bulk', sent', owed', f, k) <=> Aligned(bulk, sent, owed, f, k)
    <3>1. bulk'.pending = bulk.pending /\ ~WholePayload(bulk.pending, f, k)
      BY <1>1, <1>4, <1>5, LastIsPositive DEF WholePayload
    <3>2. QED
      BY <1>5, <3>1 DEF Aligned
  <2>3. Assembling(asm', bulk', sent', owed') /\ Emitted(asm', bulk', sent', owed')
    BY <2>1, <2>2 DEF Carried, Assembling, Emitted
  <2>4. Pending(bulk', sent', owed')
    BY <1>4 DEF Pending
  <2>5. QED
    BY <2>3, <2>4 DEF Carried
<1>6. CASE bulk.pending # <<>>
  <2> DEFINE p == bulk.pending   f == p[1][1]   k == p[1][2]
  <2>1. p \in Buffers /\ p # <<>> /\ p[1] \in Piece /\ bulk.ts = p[1]
    BY <1>1, <1>2, <1>6 DEF Buffers
  <2>2. f \in 1..(CamFrames + 1) /\ k \in 1..Payloads /\ p[1] = <<f, k, p[1][3]>>
    BY <2>1, PieceParts
  <2>3. f \in Int /\ f % 2 \in 0..1
    BY <2>2, UvcAssumption
  <2>4. p[1][3] = 1 => Aligned(bulk, sent, owed, f, k)
    BY <1>2, <1>6
  <2>5. asm' \in Fed(asm, p, p[1])
    BY <1>3, <2>1
  <2> HIDE DEF f, k
  <2>6. CASE p[1][3] = 1
    <3>1. /\ WholePayload(p, f, k)
          /\ sent = IF k = Payloads THEN <<f + 1, 1, 1>> ELSE <<f, k + 1, 1>>
      BY <1>6, <2>4, <2>6 DEF Aligned
    <3>2. Good(asm.out, f)
      BY <2>2, <2>3, <2>4, <2>6 DEF Carried, Emitted
    <3>3. Rough(asm) \/ Clean(asm, f, k)
      BY <1>6, <2>2, <2>6, WhatIsClean
    <3>4. /\ k < Payloads => (Rough(asm') \/ Clean(asm', f, k + 1)) /\ Good(asm'.out, f)
          /\ k = Payloads => asm'.state # "ACCUM" /\ Good(asm'.out, f + 1)
      BY <1>1, <2>1, <2>2, <2>3, <2>5, <2>6, <3>1, <3>2, <3>3, FedParts
    <3>5. QED
      BY <1>1, <1>4, <2>2, <2>3, <3>1, <3>4, AfterPayload
  <2>7. CASE p[1][3] # 1
    <3>1. Rough(asm)
      <4>1. SUFFICES ASSUME NEW f2 \in Int, NEW k2 \in 1..Payloads,
                            Aligned(bulk, sent, owed, f2, k2)
                     PROVE  FALSE
        BY Zenon DEF Carried, Assembling
      <4>2. p[1] = <<f2, k2, 1>>
        BY <1>1, <1>6, <4>1, AlignedParts
      <4>3. QED
        BY <2>7, <4>2
    <3>2. Rough(asm') /\ asm'.out = asm.out
      BY <1>1, <2>1, <2>2, <2>3, <2>5, <2>7, <3>1, FedParts
    <3>3. Good(asm'.out, sent'[1])
      BY <3>2 DEF Carried, Emitted
    <3>4. QED
      BY <1>1, <1>4, <3>2, <3>3, CarriedRough
  <2>8. QED
    BY <2>6, <2>7
<1>7. QED
  BY <1>5, <1>6

LEMMA IsoPacketStep ==
  ASSUME UvcTypes, Carried(asm, bulk, sent, owed), IsoPacket
  PROVE  Carried(asm', bulk', sent', owed')
<1>1. PICK f \in 1..CamFrames, k \in 1..Payloads, c \in 1..Last :
        /\ sent = <<f, k, c>> /\ f % 2 \in 0..1
        /\ sent' = IF c # Last THEN <<f, k, c + 1>>
                   ELSE IF k = Payloads THEN <<f + 1, 1, 1>> ELSE <<f, k + 1, 1>>
  BY SentParts DEF IsoPacket
<1>2. /\ stream \in Streams /\ Started(asm) /\ bulk.pending \in Buffers /\ sent \in Piece
      /\ Last = 1
  BY UvcTypesParts DEF HeldBy, Payload, IsoPacket, Last
<1>3. bulk' = bulk /\ ~bulk.cont /\ bulk.pending = <<>> /\ ~owed /\ owed' = owed
  BY DEF Carried, Pending, IsoPacket, Sending
<1>4. c = 1 /\ sent = <<f, k, 1>>
  BY <1>1, <1>2
<1> DEFINE p == <<sent>>
<1>5. p \in Buffers /\ p # <<>> /\ p[1] = sent /\ WholePayload(p, f, k)
  BY <1>2, <1>4 DEF WholePayload, Buffers
<1>6. asm' \in Fed(asm, p, p[1])
  BY DEF IsoPacket
<1> HIDE DEF p
<1>7. Good(asm.out, f)
  BY <1>1 DEF Carried, Emitted
<1>8. Rough(asm) \/ Clean(asm, f, k)
  BY <1>3, <1>4, WhatIsClean
<1>9. p[1][3] = 1 /\ f \in Int
  BY <1>4, <1>5
<1>10. /\ k < Payloads => (Rough(asm') \/ Clean(asm', f, k + 1)) /\ Good(asm'.out, f)
       /\ k = Payloads => asm'.state # "ACCUM" /\ Good(asm'.out, f + 1)
  BY <1>1, <1>2, <1>5, <1>6, <1>7, <1>8, <1>9, FedParts
<1>11. sent' = IF k = Payloads THEN <<f + 1, 1, 1>> ELSE <<f, k + 1, 1>>
  BY <1>1, <1>2
<1>12. QED
  BY <1>2, <1>3, <1>9, <1>10, <1>11, AfterPayload

\* Before the first byte of a frame nothing of it is accumulated.
LEMMA FirstIsRough ==
  ASSUME UvcTypes, Carried(asm, bulk, sent, owed), Sending, sent = First(Camera)
  PROVE  /\ Rough(asm)
         /\ \A f \in Int, k \in 1..Payloads : Aligned(bulk, sent, owed, f, k) => bulk.pending = <<>>
<1>1. stream \in Streams /\ bulk.pending \in Buffers /\ ~owed /\ Camera \in Int
  BY UvcTypesParts, PieceParts DEF HeldBy, Payload, Sending, Camera
<1>2. ASSUME NEW f \in Int, NEW k \in 1..Payloads, Aligned(bulk, sent, owed, f, k)
      PROVE  bulk.pending = <<>> /\ k = 1
  <2>1. <<Camera, 1, 1>> = <<f, k, Len(bulk.pending) + 1>>
    BY <1>1, <1>2, AlignedParts DEF First
  <2>2. Len(bulk.pending) + 1 = 1 /\ k = 1
    BY <2>1
  <2>3. QED
    BY <1>1, <2>2 DEF Buffers
<1>3. ASSUME NEW f \in Int PROVE ~Clean(asm, f, 1)
  BY DEF Clean
<1>4. Rough(asm)
  BY <1>2, <1>3 DEF Carried, Assembling
<1>5. QED
  BY <1>2, <1>4

LEMMA FrameUncapturedStep ==
  ASSUME UvcTypes, Carried(asm, bulk, sent, owed), FrameUncaptured
  PROVE  Carried(asm', bulk', sent', owed')
<1>1. /\ Sending /\ sent = First(Camera) /\ sent' = <<Camera + 1, 1, 1>>
      /\ asm' = asm /\ bulk' = bulk /\ owed' = owed /\ ~owed
  BY DEF FrameUncaptured, Sending, First
<1>2. /\ stream \in Streams /\ bulk.pending \in Buffers /\ Camera \in Int /\ asm.out \in Outs
      /\ Camera = sent[1]
      /\ bulk.pending # <<>> => bulk.pending[1] \in Piece
  BY UvcTypesParts, PieceParts, AssemblyFields DEF HeldBy, Payload, Started, Camera, Buffers
<1>3. /\ Rough(asm)
      /\ \A f \in Int, k \in 1..Payloads : Aligned(bulk, sent, owed, f, k) => bulk.pending = <<>>
  BY <1>1, FirstIsRough
<1>4. /\ bulk.cont <=> bulk.pending # <<>>
      /\ bulk.cont => bulk.ts = bulk.pending[1]
      /\ bulk.cont /\ bulk.pending[1][3] = 1
           => Aligned(bulk, sent, owed, bulk.pending[1][1], bulk.pending[1][2])
      /\ ~stream.bulk => ~bulk.cont
  BY DEF Carried, Pending
<1>5. bulk.pending # <<>> => bulk.pending[1][3] # 1
  <2>1. SUFFICES ASSUME bulk.pending # <<>>, bulk.pending[1][3] = 1 PROVE FALSE
    OBVIOUS
  <2>2. bulk.pending[1][1] \in Int /\ bulk.pending[1][2] \in 1..Payloads
    <3>1. bulk.pending[1] \in Piece
      BY <1>2, <2>1
    <3>2. QED
      BY <3>1, PieceParts, UvcAssumption
  <2>3. QED
    BY <1>3, <1>4, <2>1, <2>2
<1>6. Pending(bulk', sent', owed')
  BY <1>1, <1>4, <1>5 DEF Pending
<1>7. Good(asm'.out, Camera + 1)
  <2>1. Good(asm.out, Camera) /\ Camera + 1 \in Int /\ Camera <= Camera + 1
    BY <1>2 DEF Carried, Emitted
  <2>2. QED
    BY <1>1, <1>2, <2>1, GoodGrows
<1>8. ASSUME NEW f \in Int, NEW k \in 1..Payloads, Aligned(bulk', sent', owed', f, k)
      PROVE  f = Camera + 1
  <2>1. bulk.pending # <<>> => bulk.pending[1] = <<f, k, 1>>
    BY <1>1, <1>2, <1>8, AlignedParts
  <2>2. bulk.pending = <<>>
    BY <1>5, <2>1
  <2>3. sent' = <<f, k, 1>>
    BY <1>1, <1>2, <1>8, <2>2, AlignedParts
  <2>4. QED
    BY <1>1, <2>3
<1>9. sent'[1] = Camera + 1
  BY <1>1
<1>10. QED
  BY <1>1, <1>3, <1>6, <1>7, <1>8, <1>9 DEF Carried, Assembling, Emitted

LEMMA KeepaliveStep ==
  ASSUME UvcTypes, Carried(asm, bulk, sent, owed), Keepalive
  PROVE  Carried(asm', bulk', sent', owed')
<1> DEFINE h == [sane |-> TRUE, fid |-> (Camera - 1) % 2, eof |-> TRUE, err |-> FALSE]
<1>1. /\ stream \in Streams /\ sent \in Piece /\ Started(asm) /\ Camera \in Int
      /\ <<>> \in Buffers /\ bulk.pending = <<>>
  BY UvcTypesParts, PieceParts, FieldValues DEF Camera, Keepalive
<1>2. h \in Header /\ h.eof
  BY <1>1 DEF Header
<1>3. asm' = Feed(asm, h, <<>>, sent) /\ bulk' = bulk /\ sent' = sent /\ owed' = owed /\ ~owed
  BY DEF Keepalive, Sending
<1> HIDE DEF h
<1>4. Rough(asm)
  BY FirstIsRough DEF Keepalive
<1>5. Rough(asm') /\ asm'.out = asm.out
  BY <1>1, <1>2, <1>3, <1>4, FeedRough
<1>6. ~bulk.cont /\ Good(asm.out, sent[1])
  BY <1>1 DEF Carried, Pending, Emitted
<1>7. QED
  BY <1>1, <1>3, <1>5, <1>6, CarriedRough

LEMMA UvcInvInitially == UvcInit => UvcInv
<1> SUFFICES ASSUME UvcInit PROVE UvcInv
  OBVIOUS
<1>1. UvcTypes
  BY UvcTypesInitially
<1>2. stream \in Streams /\ sent \in Piece
  BY <1>1, UvcTypesParts
<1>3. asm.state = "AWAIT" /\ asm.out = <<>> /\ bulk.pending = <<>> /\ ~bulk.cont /\ ~owed
  BY DEF UvcInit
<1>4. Rough(asm) /\ Good(asm.out, sent[1])
  BY <1>3 DEF Rough, Good
<1>5. QED
  BY <1>1, <1>2, <1>3, <1>4, CarriedRough DEF UvcInv

\* What is captured stays what it is, and what was lost stays lost.
LEMMA HistoryStays ==
  ASSUME [UvcNext]_uvcVars
  PROVE  stream' = stream /\ (untold => untold') /\ (urbFailed => urbFailed')
<1>1. CASE UrbUnasked
  <2>1. untold' = (untold \/ Pieces > 1) /\ urbFailed' = urbFailed /\ stream' = stream
    BY <1>1 DEF UrbUnasked
  <2>2. QED
    BY <2>1, Zenon
<1>2. CASE UrbFails
  BY <1>2 DEF UrbFails
<1>3. CASE Uncaptured
  BY <1>3 DEF Uncaptured
<1>4. CASE IsoPacket \/ IsoLost \/ IsoBad \/ Urb \/ UrbCut \/ FrameUncaptured
  <2>1. UNCHANGED <<stream, untold, urbFailed>>
    BY <1>4, Zenon DEF IsoPacket, IsoLost, IsoBad, Urb, UrbCut, FrameUncaptured
  <2>2. QED
    BY <2>1
<1>5. CASE EmptyUrb \/ Keepalive \/ EndOfCapture \/ UNCHANGED uvcVars
  <2>1. UNCHANGED <<stream, told>>
    BY <1>5 DEF EmptyUrb, Keepalive, EndOfCapture, uvcVars
  <2>2. QED
    BY <2>1 DEF told
<1>6. QED
  BY <1>1, <1>2, <1>3, <1>4, <1>5 DEF UvcNext, Capture, Losses

LEMMA UvcInvStep == UvcInv /\ [UvcNext]_uvcVars => UvcInv'
<1> SUFFICES ASSUME UvcInv, [UvcNext]_uvcVars PROVE UvcInv'
  OBVIOUS
<1>1. UvcTypes /\ UvcTypes'
  BY UvcTypesStep DEF UvcInv
<1>2. /\ stream \in Streams /\ sent \in Piece /\ Started(asm) /\ owed \in BOOLEAN
      /\ Camera \in Int /\ EndOfFrame \in BOOLEAN
  BY <1>1, UvcTypesParts, PieceParts DEF Camera, EndOfFrame
<1>3. stream' = stream /\ (untold => untold') /\ (urbFailed => urbFailed')
  BY HistoryStays
<1>4. SUFFICES ASSUME ~untold', ~urbFailed', Carried(asm, bulk, sent, owed)
               PROVE  Carried(asm', bulk', sent', owed')
  BY <1>1, <1>3, CarriedNext DEF UvcInv
<1>5. /\ Pieces \in Nat \ {0} /\ (Owes => (owed' \in BOOLEAN /\ (owed' => EndOfPayload /\ stream.ends = "empty")))
  BY UvcAssumption DEF Owes
<1>6. IsShort \in BOOLEAN
  BY DEF IsShort
<1>7. CASE IsoPacket
  BY <1>1, <1>4, <1>7, IsoPacketStep
<1>8. ASSUME Sending, ~stream.bulk, bulk' = bulk, owed' = owed, Sent,
             asm'.state # "ACCUM", asm'.out = asm.out
      PROVE  Carried(asm', bulk', sent', owed')
  <2>1. bulk.pending = <<>> /\ ~bulk.cont /\ ~owed
    BY <1>4, <1>8 DEF Carried, Pending, Sending
  <2>2. QED
    BY <1>1, <1>2, <1>3, <1>4, <1>8, <2>1, RoughStep DEF Rough
<1>9. CASE IsoLost
  BY <1>2, <1>8, <1>9, PoisonIsTyped DEF IsoLost
<1>10. CASE IsoBad
  <2>1. PICK h \in {Insane, [sane |-> TRUE, fid |-> Camera % 2, eof |-> EndOfFrame, err |-> TRUE]} :
          asm' = Feed(asm, h, <<sent>>, sent)
    BY <1>10 DEF IsoBad
  <2>2. h \in Header /\ (h.err \/ ~h.sane)
    <3>1. Insane \in Header /\ ~Insane.sane
      BY DEF Header, Insane
    <3>2. Camera % 2 \in 0..1
      BY <1>2
    <3> DEFINE e == [sane |-> TRUE, fid |-> Camera % 2, eof |-> EndOfFrame, err |-> TRUE]
    <3>3. e \in Header /\ e.err
      BY <1>2, <3>2 DEF Header
    <3>4. h = Insane \/ h = e
      BY <2>1
    <3> HIDE DEF e
    <3>5. QED
      BY <3>1, <3>3, <3>4
  <2>3. <<sent>> \in Buffers
    BY <1>2 DEF Buffers
  <2>4. asm'.state # "ACCUM" /\ asm'.out = asm.out
    BY <1>2, <2>1, <2>2, <2>3, FeedBad
  <2>5. QED
    BY <1>8, <1>10, <2>4 DEF IsoBad
<1>11. CASE Urb
  BY <1>1, <1>3, <1>4, <1>11, BulkUrbStep DEF Urb
<1>12. CASE UrbUnasked
  <2>1. bulk.req \in BOOLEAN
    BY <1>1, UvcTypesParts DEF HeldBy, Payload
  <2>2. Pieces = 1
    <3>1. untold' = (untold \/ Pieces > 1)
      BY <1>12 DEF UrbUnasked
    <3>2. ~(Pieces > 1)
      BY <1>4, <3>1, Zenon
    <3>3. QED
      BY <1>5, <3>2
  <2>3. QED
    BY <1>1, <1>3, <1>4, <1>12, <2>1, <2>2, BulkUrbStep DEF UrbUnasked
<1>13. CASE UrbCut
  <2>1. PICK some \in BOOLEAN : FeedCut(some, TRUE)
    BY <1>13 DEF UrbCut
  <2>2. bulk'.pending = <<>> /\ ~bulk'.cont
    BY <2>1, DroppedIsHeld DEF FeedCut
  <2>3. Rough(asm') /\ asm'.out = asm.out
    BY <1>2, <2>1, PoisonIsTyped DEF FeedCut, Rough
  <2>4. QED
    BY <1>1, <1>3, <1>4, <1>5, <1>13, <2>2, <2>3, RoughStep DEF UrbCut
<1>14. CASE UrbFails \/ Uncaptured
  BY <1>4, <1>14 DEF UrbFails, Uncaptured
<1>15. CASE EmptyUrb
  BY <1>1, <1>3, <1>4, <1>15, BulkEmptyStep DEF EmptyUrb
<1>16. CASE Keepalive
  BY <1>1, <1>4, <1>16, KeepaliveStep
<1>17. CASE FrameUncaptured
  BY <1>1, <1>4, <1>17, FrameUncapturedStep
<1>18. CASE EndOfCapture \/ UNCHANGED uvcVars
  <2>1. UNCHANGED uvcVars
    BY <1>18 DEF EndOfCapture
  <2>2. QED
    BY <1>4, <2>1 DEF uvcVars
<1>19. QED
  BY <1>7, <1>9, <1>10, <1>11, <1>12, <1>13, <1>14, <1>15, <1>16, <1>17, <1>18
     DEF UvcNext, Capture, Losses

\* uvcpcap.py:436-692: unless something was lost without a trace, or a URB failed, what comes
\* out is a camera frame without a hole, stamped with its first byte, once and in order.
THEOREM FramesAreTheCameras == UvcSpec => []OneFrameEach
<1>1. UvcInv => OneFrameEach
  <2>1. Good(asm.out, sent[1]) => FramesInOrder
    BY DEF Good, FramesInOrder, Out, Intact, FrameOf
  <2>2. untold \/ urbFailed => FramesInOrder
    BY DEF FramesInOrder
  <2>3. UvcInv => UvcTypeOK /\ (untold \/ urbFailed \/ Good(asm.out, sent[1]))
    BY Zenon DEF UvcInv, Carried, Emitted, UvcTypes
  <2>4. QED
    BY <2>1, <2>2, <2>3, Zenon DEF OneFrameEach
<1>2. QED
  BY <1>1, UvcInvInitially, UvcInvStep, PTL DEF UvcSpec

\* Whether a frame came out, and whether it may be expected to.
Latest(S, g) == g \in S /\ \A h \in S : h <= g
IsOut(out, f) == \E n \in DOMAIN out : out[n].start[1] = f
Expected(out, S, f) ==
  \A g \in S : (g < f /\ \A h \in S : h < f => h <= g) => IsOut(out, g) \/ (Last = 1 /\ g % 2 # f % 2)

\* Payload k of f finds what was accumulated of f, or begins it.
Ready(s, f) == s.state = "AWAIT" \/ (Last = 1 /\ s.fid # f % 2)
Begun(s, f, k) == IF k = 1 THEN Ready(s, f) ELSE Clean(s, f, k) /\ s.start = First(f)

\* S are the frames seen, H those hurt; the rest as above.
SeenInOrder(q, S) ==
  /\ S = {} \/ \E g \in S : Latest(S, g)
  /\ \A g \in S : g <= q[1]
  /\ q[2] = 1 /\ q[3] = 1 => q[1] \notin S

PendingIsLatest(s, b, q, due, S) ==
  b.pending # <<>> =>
    /\ Latest(S, b.pending[1][1]) /\ Good(s.out, b.pending[1][1])
    /\ b.pending[1][3] \in 1..Last
    /\ ~due => b.pending[1][1] = q[1] /\ ~(q[2] = 1 /\ q[3] = 1)

AtRest(s, b, S) ==
  b.pending = <<>> =>
    /\ \A g \in S : Latest(S, g) /\ IsOut(s.out, g) => s.state = "AWAIT"
    /\ S = {} => s.state = "AWAIT"
    /\ Last = 1 /\ s.state # "AWAIT" => \E g \in S : Latest(S, g) /\ s.fid = g % 2

Unhurt(b, q, H) ==
  IF b.pending = <<>> THEN q[1] \notin H => q[3] = 1
  ELSE b.pending[1][1] \notin H => b.pending[1][3] = 1

\* A frame to be expected is begun by its first payload and accumulated from there on.
Current(s, b, q, due, S, H) ==
  \A f \in Int, k \in 1..Payloads :
    Aligned(b, q, due, f, k) /\ f \notin H /\ Expected(s.out, S, f) => Begun(s, f, k)

Past(s, b, q, S, H) ==
  \A f \in S \ H :
    /\ f < q[1] /\ ~(b.pending # <<>> /\ b.pending[1][1] = f) /\ Expected(s.out, S, f)
    => IsOut(s.out, f)

Keeping(s, b, q, due, S, H) ==
  /\ SeenInOrder(q, S) /\ PendingIsLatest(s, b, q, due, S) /\ AtRest(s, b, S)
  /\ Unhurt(b, q, H) /\ Current(s, b, q, due, S, H) /\ Past(s, b, q, S, H)
  /\ Last = 1 => ~Dirty(s)

\* The assembly t that payload k of f makes of s.
Takes(s, t, f, k) ==
  /\ \A g : g # f => (IsOut(t.out, g) <=> IsOut(s.out, g))
  /\ IsOut(t.out, f) => IsOut(s.out, f) \/ t.state = "AWAIT"
  /\ t.state # "AWAIT" => t.fid = f % 2
  /\ Last = 1 /\ ~Dirty(s) => ~Dirty(t)
  /\ Begun(s, f, k) => IF k = Payloads THEN IsOut(t.out, f) ELSE Begun(t, f, k + 1)

LEMMA ExpectedEarlier ==
  ASSUME NEW out, NEW new, NEW S, S \subseteq Int, NEW f \in Int, NEW g \in Int, g <= f,
         \A h \in Int : h < f => (IsOut(new, h) <=> IsOut(out, h))
  PROVE  Expected(new, S \cup {f}, g) <=> Expected(out, S, g)
BY DEF Expected

LEMMA LatestAdded ==
  ASSUME NEW S, S \subseteq Int, NEW f \in Int, \A g \in S : g <= f
  PROVE  \A g : Latest(S \cup {f}, g) <=> g = f
<1> TAKE g
<1>1. ASSUME Latest(S \cup {f}, g) PROVE g = f
  <2>1. g \in S \cup {f} /\ f <= g
    BY <1>1 DEF Latest
  <2>2. g \in Int /\ g <= f
    BY <2>1
  <2>3. QED
    BY <2>1, <2>2
<1>2. Latest(S \cup {f}, f)
  BY DEF Latest
<1>3. QED
  BY <1>1, <1>2

LEMMA OutAppended ==
  ASSUME NEW out \in Outs, NEW o \in OutFrame
  PROVE  \A g : IsOut(Append(out, o), g) <=> (IsOut(out, g) \/ o.start[1] = g)
<1> DEFINE new == Append(out, o)
<1>1. /\ DOMAIN new = 1..(Len(out) + 1) /\ DOMAIN out = 1..Len(out)
      /\ Len(out) \in Nat /\ new[Len(out) + 1] = o
      /\ \A n \in 1..Len(out) : new[n] = out[n]
  BY DEF Outs
<1> HIDE DEF new
<1>2. TAKE g
<1>3. ASSUME IsOut(new, g) PROVE IsOut(out, g) \/ o.start[1] = g
  <2>1. PICK n \in DOMAIN new : new[n].start[1] = g
    BY <1>3 DEF IsOut
  <2>2. n \in 1..Len(out) \/ n = Len(out) + 1
    BY <1>1
  <2>3. QED
    BY <1>1, <2>1, <2>2 DEF IsOut
<1>4. IsOut(out, g) => IsOut(new, g)
  BY <1>1 DEF IsOut
<1>5. ASSUME o.start[1] = g PROVE IsOut(new, g)
  <2>1. Len(out) + 1 \in DOMAIN new /\ new[Len(out) + 1].start[1] = g
    BY <1>1, <1>5
  <2>2. QED
    BY <2>1, Zenon DEF IsOut
<1>6. QED
  BY <1>3, <1>4, <1>5, Zenon DEF new

LEMMA FinalizeOuts ==
  ASSUME NEW s, Started(s), s.state = "ACCUM", stream \in Streams, NEW f \in Int, NEW k \in 1..Payloads,
         Dirty(s) \/ Clean(s, f, k + 1)
  PROVE  /\ \A g : g # f => (IsOut(Finalize(s).out, g) <=> IsOut(s.out, g))
         /\ k = Payloads /\ Clean(s, f, k + 1) /\ s.start = First(f) => IsOut(Finalize(s).out, f)
<1>1. s.buf \in Buffers /\ s.out \in Outs /\ s.start \in Piece
  BY AssemblyFields DEF Started
<1> DEFINE o == [start |-> s.start, data |-> s.buf]
<1>2. o \in OutFrame /\ o.start = s.start
  BY <1>1 DEF OutFrame
<1>3. /\ Valid(s.buf) => Finalize(s).out = Append(s.out, o)
      /\ ~Valid(s.buf) => Finalize(s).out = s.out
  BY FinalizeParts
<1> HIDE DEF o
<1>4. \A g : IsOut(Append(s.out, o), g) <=> (IsOut(s.out, g) \/ o.start[1] = g)
  BY <1>1, <1>2, OutAppended
<1>5. ASSUME Clean(s, f, k + 1) PROVE s.start[1] = f
  <2>1. PICK k0 \in 1..((k + 1) - 1) : s.start = <<f, k0, 1>>
    BY <1>5 DEF Clean
  <2>2. QED
    BY <2>1
<1>6. ASSUME Dirty(s) PROVE Finalize(s).out = s.out
  BY <1>6, NothingFinalized
<1>7. \A g : g # f => (IsOut(Finalize(s).out, g) <=> IsOut(s.out, g))
  <2>1. CASE Dirty(s)
    BY <1>6, <2>1
  <2>2. CASE Clean(s, f, k + 1)
    <3>1. o.start[1] = f
      BY <1>2, <1>5, <2>2
    <3>2. CASE Valid(s.buf)
      BY <1>3, <1>4, <3>1, <3>2
    <3>3. CASE ~Valid(s.buf)
      BY <1>3, <3>3
    <3>4. QED
      BY <3>2, <3>3
  <2>3. QED
    BY <2>1, <2>2
<1>8. ASSUME k = Payloads, Clean(s, f, k + 1), s.start = First(f)
      PROVE  IsOut(Finalize(s).out, f)
  <2>1. PICK k0 \in 1..((Payloads + 1) - 1) : s.start = <<f, k0, 1>> /\ Run(s.buf, f, k0, Payloads + 1)
    BY <1>8 DEF Clean
  <2>2. k0 = 1
    BY <1>8, <2>1 DEF First
  <2>3. Valid(s.buf)
    BY <1>1, <2>1, <2>2, WholeIsValid
  <2>4. o.start[1] = f
    BY <1>2, <1>5, <1>8
  <2>5. QED
    BY <1>3, <1>4, <2>3, <2>4
<1>9. QED
  BY <1>7, <1>8

\* The assembly t that payload k of f makes of s, which accumulates.
Accumulates(s, t, f, k) ==
  /\ \A g : g # f => (IsOut(t.out, g) <=> IsOut(s.out, g))
  /\ IsOut(t.out, f) => IsOut(s.out, f) \/ t.state = "AWAIT"
  /\ t.state # "AWAIT" => t.fid = f % 2
  /\ ~Dirty(s) => ~Dirty(t)
  /\ (k = 1 /\ ~Dirty(s)) \/ (Clean(s, f, k) /\ s.start = First(f)) =>
       IF k = Payloads THEN IsOut(t.out, f) ELSE Clean(t, f, k + 1) /\ t.start = First(f)

LEMMA AccumulateTakes ==
  ASSUME NEW s, Started(s), s.state = "ACCUM", stream \in Streams, NEW f \in Int, NEW k \in 1..Payloads,
         NEW p, WholePayload(p, f, k), <<f, k, 1>> \in Piece, f % 2 \in 0..1,
         Dirty(s) \/ (s.fid = f % 2 /\ s.buf = <<>> /\ s.start = <<f, k, 1>>) \/ Clean(s, f, k)
  PROVE  Accumulates(s, Accumulate(s, Genuine(f, k), p, <<f, k, 1>>), f, k)
<1> DEFINE h == Genuine(f, k)   ts == <<f, k, 1>>   v == Taken(s, h, ts)   u == With(v, p)
           t == Accumulate(s, h, p, ts)
<1>1. h \in Header /\ h.fid = f % 2 /\ ~h.err /\ (h.eof <=> k = Payloads)
  BY DEF Genuine, Header
<1>2. p \in Buffers /\ p[1] = <<f, k, 1>> /\ p # <<>> /\ s \in Assembly
  <2>1. Last \in Nat \ {0} /\ Len(p) = Last
    BY LastIsPositive DEF WholePayload
  <2>2. QED
    BY <2>1 DEF WholePayload, Started
<1>3. t = IF k = Payloads THEN Completed(u) ELSE u
  BY <1>1, AccumulateCases
<1>4. /\ Started(v) /\ v.state = "ACCUM" /\ v.fid = f % 2
      /\ f % 2 = s.fid => v = s
      /\ f % 2 # s.fid => v.buf = <<>> /\ v.start = ts /\ v.out = Finalize(s).out
  BY <1>1, TakenParts
<1> HIDE DEF h, v
<1>5. f % 2 # s.fid => Dirty(s) /\ Finalize(s).out = s.out
  <2>1. SUFFICES ASSUME f % 2 # s.fid PROVE Dirty(s) /\ Finalize(s).out = s.out
    OBVIOUS
  <2>2. Dirty(s)
    BY <2>1 DEF Clean
  <2>3. QED
    BY <2>2, NothingFinalized
<1>6. v.out = s.out
  BY <1>4, <1>5
<1>7. /\ Started(u) /\ u.state = "ACCUM" /\ u.fid = f % 2 /\ u.out = s.out
      /\ u.buf = v.buf \o p /\ u.start = v.start
  BY <1>2, <1>4, <1>6, WithParts
<1>8. Dirty(v) \/ (v.buf = <<>> /\ v.start = <<f, k, 1>>) \/ Clean(v, f, k)
  BY <1>4
<1>9. Dirty(u) \/ Clean(u, f, k + 1)
  BY <1>2, <1>4, <1>8, DirtyStays, CleanGrows
<1>10. ~Dirty(s) => ~Dirty(u)
  <2>1. SUFFICES ASSUME ~Dirty(s) PROVE ~Dirty(u)
    OBVIOUS
  <2>2. v = s
    BY <1>4, <1>5, <2>1
  <2>3. v.buf \in Seq(Piece) /\ p \in Seq(Piece)
    BY <1>2, <1>4, AssemblyFields DEF Started, Buffers
  <2>4. CASE v.buf = <<>>
    <3>1. u.buf = p
      BY <1>7, <2>3, <2>4
    <3>2. QED
      BY <1>2, <3>1 DEF Dirty
  <2>5. CASE v.buf # <<>>
    <3>1. (v.buf \o p)[1] = v.buf[1]
      BY <2>3, <2>5
    <3>2. v.buf[1][3] # 0
      BY <1>4, <2>1, <2>2, <2>5 DEF Dirty
    <3>3. QED
      BY <1>7, <3>1, <3>2 DEF Dirty
  <2>6. QED
    BY <2>4, <2>5
<1> DEFINE begun == (k = 1 /\ ~Dirty(s)) \/ (Clean(s, f, k) /\ s.start = First(f))
<1>11. begun => Clean(u, f, k + 1) /\ u.start = First(f)
  <2>1. SUFFICES ASSUME begun PROVE Clean(u, f, k + 1) /\ u.start = First(f)
    OBVIOUS
  <2>2. CASE k = 1 /\ ~Dirty(s)
    <3>1. Clean(u, f, k + 1)
      BY <1>9, <1>10, <2>2
    <3>2. ~Clean(s, f, k)
      BY <2>2 DEF Clean
    <3>3. v = s /\ s.start = <<f, k, 1>>
      BY <1>4, <1>5, <2>2, <3>2
    <3>4. QED
      BY <1>7, <2>2, <3>1, <3>3 DEF First
  <2>3. CASE Clean(s, f, k) /\ s.start = First(f)
    <3>1. s.fid = f % 2
      BY <2>3 DEF Clean
    <3>2. v = s
      BY <1>4, <3>1
    <3>3. Clean(u, f, k + 1)
      BY <1>2, <1>4, <2>3, <3>2, CleanGrows
    <3>4. QED
      BY <1>7, <2>3, <3>2, <3>3
  <2>4. QED
    BY <2>1, <2>2, <2>3
<1> HIDE DEF u, begun
<1>12. CASE k # Payloads
  <2>1. t = u
    BY <1>3, <1>12
  <2> HIDE DEF t
  <2>2. QED
    BY <1>7, <1>10, <1>11, <1>12, <2>1 DEF Accumulates, begun, t, h
<1>13. CASE k = Payloads
  <2>1. t.state = "AWAIT" /\ t.out = Finalize(u).out
    BY <1>3, <1>7, <1>13, CompletedParts
  <2>2. /\ \A g : g # f => (IsOut(Finalize(u).out, g) <=> IsOut(u.out, g))
        /\ Clean(u, f, k + 1) /\ u.start = First(f) => IsOut(Finalize(u).out, f)
    BY <1>7, <1>9, <1>13, FinalizeOuts
  <2>3. ~Dirty(t)
    BY <2>1 DEF Dirty
  <2> HIDE DEF t
  <2>4. QED
    BY <1>7, <1>11, <1>13, <2>1, <2>2, <2>3 DEF Accumulates, begun, t, h
<1>14. QED
  BY <1>12, <1>13

\* A payload from its first byte on, fed to what is rough or has its frame so far.
LEMMA FeedTakes ==
  ASSUME NEW s, Started(s), stream \in Streams, NEW f \in Int, NEW k \in 1..Payloads,
         NEW p, WholePayload(p, f, k), <<f, k, 1>> \in Piece, f % 2 \in 0..1,
         Rough(s) \/ Clean(s, f, k), Last = 1 => ~Dirty(s)
  PROVE  Takes(s, Feed(s, Genuine(f, k), p, <<f, k, 1>>), f, k)
<1> DEFINE h == Genuine(f, k)   ts == <<f, k, 1>>   r == Begin(s, h.fid, ts)
           t == Feed(s, h, p, ts)
<1>1. h \in Header /\ h.fid = f % 2 /\ h.sane /\ k + 1 # 1
  BY DEF Genuine, Header
<1>2. s \in Assembly /\ p \in Buffers /\ p # <<>>
  <2>1. Last \in Nat \ {0} /\ Len(p) = Last
    BY LastIsPositive DEF WholePayload
  <2>2. QED
    BY <2>1 DEF WholePayload, Started
<1>3. /\ Started(r) /\ r.buf = <<>> /\ r.state = "ACCUM" /\ r.fid = f % 2
      /\ r.start = ts /\ r.out = s.out /\ ~Dirty(r)
  <2>1. /\ r \in Assembly /\ r.buf = <<>> /\ r.state = "ACCUM" /\ r.fid = f % 2
        /\ r.start = ts /\ r.out = s.out /\ ts \in Piece
    BY <1>1, <1>2, BeginParts
  <2> HIDE DEF r, ts
  <2>2. QED
    BY <2>1 DEF Started, Dirty
<1>4. \/ t = s /\ s.state = "SKIP" /\ s.fid = f % 2
      \/ t = Accumulate(s, h, p, ts) /\ s.state = "ACCUM"
      \/ t = Accumulate(r, h, p, ts) /\ s.state # "ACCUM"
  BY <1>1, <1>2, FeedCases
<1> HIDE DEF r
<1>5. CASE t = s /\ s.state = "SKIP" /\ s.fid = f % 2
  <2>1. ~Begun(s, f, k)
    BY <1>5 DEF Begun, Ready, Clean
  <2>2. QED
    BY <1>5, <2>1 DEF Takes
<1>6. CASE t = Accumulate(s, h, p, ts) /\ s.state = "ACCUM"
  <2>1. Dirty(s) \/ Clean(s, f, k)
    BY <1>6 DEF Rough
  <2> DEFINE a == Accumulate(s, Genuine(f, k), p, <<f, k, 1>>)
  <2>2. Accumulates(s, a, f, k)
    BY <1>6, <2>1, AccumulateTakes
  <2>3. t = a
    BY <1>6
  <2> HIDE DEF a, t
  <2>4. Last = 1 /\ ~Dirty(s) => ~Dirty(t)
    BY <2>2, <2>3 DEF Accumulates
  <2>5. Begun(s, f, k) => IF k = Payloads THEN IsOut(t.out, f) ELSE Begun(t, f, k + 1)
    <3>1. SUFFICES ASSUME Begun(s, f, k)
                   PROVE  IF k = Payloads THEN IsOut(t.out, f) ELSE Begun(t, f, k + 1)
      OBVIOUS
    <3>2. k # 1
      <4>1. SUFFICES ASSUME k = 1 PROVE FALSE
        OBVIOUS
      <4>2. ~Clean(s, f, k)
        BY <4>1 DEF Clean
      <4>3. Last = 1 /\ s.fid # f % 2
        BY <1>6, <3>1, <4>1 DEF Begun, Ready
      <4>4. Dirty(s)
        BY <2>1, <4>2
      <4>5. QED
        BY <4>3, <4>4
    <3>3. Clean(s, f, k) /\ s.start = First(f)
      BY <3>1, <3>2 DEF Begun
    <3>4. QED
      BY <1>1, <2>2, <2>3, <3>3 DEF Begun, Accumulates
  <2>6. QED
    BY <2>2, <2>3, <2>4, <2>5 DEF Takes, Accumulates, t, h
<1>7. CASE t = Accumulate(r, h, p, ts) /\ s.state # "ACCUM"
  <2> DEFINE a == Accumulate(r, Genuine(f, k), p, <<f, k, 1>>)
  <2>2. Accumulates(r, a, f, k)
    BY <1>3, AccumulateTakes
  <2>3. t = a
    BY <1>7
  <2> HIDE DEF a, t
  <2>5. Begun(s, f, k) => k = 1
    BY <1>7 DEF Begun, Clean
  <2>6. Begun(s, f, k) => IF k = Payloads THEN IsOut(t.out, f) ELSE Begun(t, f, k + 1)
    BY <1>1, <1>3, <2>2, <2>3, <2>5 DEF Begun, Accumulates
  <2>7. QED
    BY <1>3, <2>2, <2>3, <2>6 DEF Takes, Accumulates, t, h
<1>8. QED
  BY <1>4, <1>5, <1>6, <1>7

LEMMA AlignedEmpty ==
  ASSUME stream \in Streams, NEW b, b.pending = <<>>, NEW q, NEW due, NEW f, NEW k
  PROVE  Aligned(b, q, due, f, k) <=> q = <<f, k, 1>>
<1>1. b.pending \in Buffers
  BY FieldValues
<1>2. Aligned(b, q, due, f, k) => q = <<f, k, 1>>
  BY <1>1, AlignedParts
<1>3. q = <<f, k, 1>> => Aligned(b, q, due, f, k)
  BY DEF Aligned
<1>4. QED
  BY <1>2, <1>3

LEMMA HurtGrows ==
  ASSUME NEW s, NEW b, NEW q, NEW due, NEW S, NEW H, Keeping(s, b, q, due, S, H),
         NEW more, H \subseteq more
  PROVE  Keeping(s, b, q, due, S, more)
<1>1. Unhurt(b, q, more)
  BY DEF Keeping, Unhurt
<1>2. Current(s, b, q, due, S, more)
  BY DEF Keeping, Current
<1>3. Past(s, b, q, S, more)
  BY DEF Keeping, Past
<1>4. QED
  BY <1>1, <1>2, <1>3 DEF Keeping

LEMMA GoodIsBefore ==
  ASSUME NEW out, NEW f \in Int, Good(out, f) PROVE ~IsOut(out, f)
BY DEF Good, IsOut

\* Before the first payload of a frame, what is expected is ready.
LEMMA ReadyAtFirst ==
  ASSUME NEW t, NEW c, c.pending = <<>>, NEW S, S \subseteq Int, NEW f \in Int,
         SeenInOrder(<<f, 1, 1>>, S), AtRest(t, c, S), Expected(t.out, S, f)
  PROVE  Ready(t, f)
<1>1. CASE S = {}
  BY <1>1 DEF AtRest, Ready
<1>2. CASE S # {}
  <2>1. PICK g \in S : Latest(S, g)
    BY <1>2 DEF SeenInOrder
  <2>2. f \notin S /\ \A h \in S : h <= f
    BY DEF SeenInOrder
  <2>3. g < f /\ \A h \in S : h <= g
    BY <2>1, <2>2 DEF Latest
  <2>4. IsOut(t.out, g) \/ (Last = 1 /\ g % 2 # f % 2)
    BY <2>3 DEF Expected
  <2>5. CASE IsOut(t.out, g)
    BY <2>1, <2>5 DEF AtRest, Ready
  <2>6. CASE Last = 1 /\ g % 2 # f % 2
    <3>1. SUFFICES ASSUME t.state # "AWAIT" PROVE t.fid # f % 2
      BY <2>6 DEF Ready
    <3>2. PICK h \in S : Latest(S, h) /\ t.fid = h % 2
      BY <2>6, <3>1 DEF AtRest
    <3>3. h = g
      <4>1. h <= g /\ g <= h
        BY <2>1, <3>2 DEF Latest
      <4>2. g \in Int /\ h \in Int
        BY <2>1, <3>2
      <4>3. QED
        BY <4>1, <4>2
    <3>4. QED
      BY <2>6, <3>2, <3>3
  <2>7. QED
    BY <2>4, <2>5, <2>6
<1>3. QED
  BY <1>1, <1>2

\* A payload is read from its first byte to its last.
LEMMA PayloadKept ==
  ASSUME stream \in Streams, NEW s, NEW b, NEW q \in Piece, NEW due, NEW S, S \subseteq Int, NEW H,
         Keeping(s, b, q, due, S, H), NEW f \in Int, NEW k \in 1..Payloads,
         Aligned(b, q, due, f, k), Good(s.out, f), \A g \in S : g <= f, f <= q[1],
         b.pending # <<>> => b.pending[1][1] = f,
         NEW t, Takes(s, t, f, k), NEW c, c.pending = <<>>, NEW now, NEW r,
         r = IF k = Payloads THEN <<f + 1, 1, 1>> ELSE <<f, k + 1, 1>>
  PROVE  Keeping(t, c, r, now, S \cup {f}, H)
<1> DEFINE T == S \cup {f}
<1>1. /\ \A g : Latest(T, g) <=> g = f
      /\ T \subseteq Int /\ k + 1 # 1 /\ q[1] \in Int /\ f + 1 \in Int
  <2>1. \A g : Latest(T, g) <=> g = f
    BY LatestAdded
  <2>2. q[1] \in Int /\ k + 1 # 1 /\ f + 1 \in Int
    BY PieceParts, UvcAssumption
  <2>3. QED
    BY <2>1, <2>2
<1>2. ~IsOut(s.out, f)
  BY GoodIsBefore
<1>3. \A g \in Int : g <= f => (Expected(t.out, T, g) <=> Expected(s.out, S, g))
  <2>1. \A h \in Int : h < f => (IsOut(t.out, h) <=> IsOut(s.out, h))
    BY DEF Takes
  <2>2. QED
    BY <2>1, ExpectedEarlier
<1> HIDE DEF T
<1>4. SeenInOrder(r, T)
  <2>1. \E g \in T : Latest(T, g)
    BY <1>1 DEF T
  <2>2. \A g \in T : g <= f
    BY <1>1 DEF Latest
  <2>3. QED
    BY <1>1, <2>1, <2>2 DEF SeenInOrder
<1>5. PendingIsLatest(t, c, r, now, T)
  BY DEF PendingIsLatest
<1>6. AtRest(t, c, T)
  BY <1>1, <1>2 DEF AtRest, Takes, T
<1>7. Unhurt(c, r, H)
  BY DEF Unhurt
<1>8. f \notin H /\ Expected(s.out, S, f) => Begun(s, f, k)
  BY DEF Keeping, Current
<1>9. Current(t, c, r, now, T, H)
  <2>1. SUFFICES ASSUME NEW f2 \in Int, NEW k2 \in 1..Payloads, Aligned(c, r, now, f2, k2),
                        f2 \notin H, Expected(t.out, T, f2)
                 PROVE  Begun(t, f2, k2)
    BY DEF Current
  <2>2. r = <<f2, k2, 1>>
    BY <2>1, AlignedEmpty
  <2>3. CASE k # Payloads
    <3>1. f2 = f /\ k2 = k + 1
      BY <2>2, <2>3
    <3>2. Expected(s.out, S, f)
      BY <1>3, <2>1, <3>1
    <3>3. Begun(s, f, k)
      BY <1>8, <2>1, <3>1, <3>2
    <3>4. QED
      BY <2>3, <3>1, <3>3 DEF Takes
  <2>4. CASE k = Payloads
    <3>1. f2 = f + 1 /\ k2 = 1
      BY <2>2, <2>4
    <3>2. SeenInOrder(<<f2, 1, 1>>, T)
      BY <1>4, <2>4, <3>1
    <3>3. Ready(t, f2)
      BY <1>1, <1>6, <2>1, <3>2, ReadyAtFirst
    <3>4. QED
      BY <3>1, <3>3 DEF Begun
  <2>5. QED
    BY <2>3, <2>4
<1>10. Past(t, c, r, T, H)
  <2>1. SUFFICES ASSUME NEW g \in T \ H, g < r[1], Expected(t.out, T, g)
                 PROVE  IsOut(t.out, g)
    BY DEF Past
  <2>2. g \in Int /\ g <= f
    BY <1>1, <2>1 DEF T
  <2>3. Expected(s.out, S, g)
    BY <1>3, <2>1, <2>2
  <2>4. CASE g = f
    <3>1. k = Payloads
      BY <2>1, <2>4
    <3>2. Begun(s, f, k)
      BY <1>8, <2>1, <2>3, <2>4
    <3>3. QED
      BY <2>4, <3>1, <3>2 DEF Takes
  <2>5. CASE g # f
    <3>1. g \in S \ H /\ g < q[1] /\ ~(b.pending # <<>> /\ b.pending[1][1] = g)
      BY <1>1, <2>1, <2>2, <2>5 DEF T
    <3>2. IsOut(s.out, g)
      BY <2>3, <3>1 DEF Keeping, Past
    <3>3. QED
      BY <2>5, <3>2 DEF Takes
  <2>6. QED
    BY <2>4, <2>5
<1>11. Last = 1 => ~Dirty(t)
  BY DEF Keeping, Takes
<1>12. QED
  BY <1>4, <1>5, <1>6, <1>7, <1>9, <1>10, <1>11 DEF Keeping, T

\* What is read of a frame lacks the beginning of a payload, or is given up.
LEMMA RestKept ==
  ASSUME stream \in Streams, NEW s, NEW b, NEW q \in Piece, NEW due, NEW S, S \subseteq Int, NEW H,
         Keeping(s, b, q, due, S, H), NEW f \in Int, f \in H, Last # 1,
         Good(s.out, f), \A g \in S : g <= f, f <= q[1],
         b.pending # <<>> => b.pending[1][1] = f,
         NEW t, t.out = s.out, NEW c, c.pending = <<>>, NEW now, NEW r \in Piece,
         f <= r[1], r[1] = f \/ r[3] = 1, r[2] = 1 /\ r[3] = 1 => r[1] # f
  PROVE  Keeping(t, c, r, now, S \cup {f}, H)
<1> DEFINE T == S \cup {f}
<1>1. /\ \A g : Latest(T, g) <=> g = f
      /\ T \subseteq Int /\ q[1] \in Int /\ r[1] \in Int
  <2>1. \A g : Latest(T, g) <=> g = f
    BY LatestAdded
  <2>2. q[1] \in Int /\ r[1] \in Int
    BY PieceParts, UvcAssumption
  <2>3. QED
    BY <2>1, <2>2
<1>2. ~IsOut(t.out, f)
  BY GoodIsBefore
<1>3. \A g \in Int : g <= f => (Expected(t.out, T, g) <=> Expected(s.out, S, g))
  BY ExpectedEarlier
<1> HIDE DEF T
<1>4. SeenInOrder(r, T)
  <2>1. \E g \in T : Latest(T, g)
    BY <1>1 DEF T
  <2>2. \A g \in T : g <= f
    BY <1>1 DEF Latest
  <2>3. \A g \in T : g <= r[1]
    BY <1>1, <2>2
  <2>4. r[2] = 1 /\ r[3] = 1 => r[1] \notin T
    BY <1>1, <2>2
  <2>5. QED
    BY <2>1, <2>3, <2>4 DEF SeenInOrder
<1>5. PendingIsLatest(t, c, r, now, T)
  BY DEF PendingIsLatest
<1>6. AtRest(t, c, T)
  BY <1>1, <1>2 DEF AtRest, T
<1>7. Unhurt(c, r, H)
  BY DEF Unhurt
<1>9. Current(t, c, r, now, T, H)
  <2>1. SUFFICES ASSUME NEW f2 \in Int, NEW k2 \in 1..Payloads, Aligned(c, r, now, f2, k2),
                        f2 \notin H, Expected(t.out, T, f2)
                 PROVE  FALSE
    BY DEF Current
  <2>2. r = <<f2, k2, 1>>
    BY <2>1, AlignedEmpty
  <2>3. f < f2
    BY <2>1, <2>2
  <2>4. f \in T /\ \A h \in T : h <= f
    BY <1>1 DEF Latest
  <2>5. IsOut(t.out, f) \/ Last = 1
    BY <2>1, <2>3, <2>4 DEF Expected
  <2>6. QED
    BY <1>2, <2>5
<1>10. Past(t, c, r, T, H)
  <2>1. SUFFICES ASSUME NEW g \in T \ H, g < r[1], Expected(t.out, T, g)
                 PROVE  IsOut(t.out, g)
    BY DEF Past
  <2>2. g \in Int /\ g < f /\ g \in S \ H
    BY <1>1, <2>1 DEF T
  <2>3. Expected(s.out, S, g)
    BY <1>3, <2>1, <2>2
  <2>4. g < q[1] /\ ~(b.pending # <<>> /\ b.pending[1][1] = g)
    BY <1>1, <2>2
  <2>5. QED
    BY <2>2, <2>3, <2>4 DEF Keeping, Past
<1>12. QED
  BY <1>4, <1>5, <1>6, <1>7, <1>9, <1>10 DEF Keeping, T

\* A piece is put to what is pending.
LEMMA PieceKept ==
  ASSUME stream \in Streams, NEW s, NEW b, NEW q \in Piece, NEW due, NEW S, S \subseteq Int, NEW H,
         Keeping(s, b, q, due, S, H), NEW f \in Int, q[1] = f,
         Good(s.out, f), \A g \in S : g <= f, b.pending # <<>> => b.pending[1][1] = f,
         NEW c, c.pending \in Buffers, c.pending # <<>>, c.pending[1][1] = f,
         c.pending[1][3] \in 1..Last, f \notin H => c.pending[1][3] = 1,
         NEW now, NEW r \in Piece, f <= r[1], r[2] = 1 /\ r[3] = 1 => r[1] # f,
         ~now => r[1] = f,
         \A k \in 1..Payloads : Aligned(c, r, now, f, k) => Aligned(b, q, due, f, k)
  PROVE  Keeping(s, c, r, now, S \cup {f}, H)
<1> DEFINE T == S \cup {f}
<1>1. /\ \A g : Latest(T, g) <=> g = f
      /\ T \subseteq Int /\ r[1] \in Int
  <2>1. \A g : Latest(T, g) <=> g = f
    BY LatestAdded
  <2>2. r[1] \in Int
    BY PieceParts, UvcAssumption
  <2>3. QED
    BY <2>1, <2>2
<1>3. \A g \in Int : g <= f => (Expected(s.out, T, g) <=> Expected(s.out, S, g))
  BY ExpectedEarlier
<1> HIDE DEF T
<1>4. SeenInOrder(r, T)
  <2>1. \E g \in T : Latest(T, g)
    BY <1>1 DEF T
  <2>2. \A g \in T : g <= f
    BY <1>1 DEF Latest
  <2>3. \A g \in T : g <= r[1]
    BY <1>1, <2>2
  <2>4. r[2] = 1 /\ r[3] = 1 => r[1] \notin T
    BY <1>1, <2>2
  <2>5. QED
    BY <2>1, <2>3, <2>4 DEF SeenInOrder
<1>5. PendingIsLatest(s, c, r, now, T)
  BY <1>1 DEF PendingIsLatest
<1>6. AtRest(s, c, T)
  BY DEF AtRest
<1>7. Unhurt(c, r, H)
  BY DEF Unhurt
<1>9. Current(s, c, r, now, T, H)
  <2>1. SUFFICES ASSUME NEW f2 \in Int, NEW k2 \in 1..Payloads, Aligned(c, r, now, f2, k2),
                        f2 \notin H, Expected(s.out, T, f2)
                 PROVE  Begun(s, f2, k2)
    BY DEF Current
  <2>2. c.pending[1] = <<f2, k2, 1>>
    BY <2>1, AlignedParts
  <2>3. f2 = f
    BY <2>2
  <2>4. Aligned(b, q, due, f2, k2) /\ Expected(s.out, S, f2)
    BY <1>3, <2>1, <2>3
  <2>5. QED
    BY <2>1, <2>4 DEF Keeping, Current
<1>10. Past(s, c, r, T, H)
  <2>1. SUFFICES ASSUME NEW g \in T \ H, g # f, Expected(s.out, T, g)
                 PROVE  IsOut(s.out, g)
    BY DEF Past
  <2>2. g \in Int /\ g < f /\ g \in S \ H
    BY <1>1, <2>1 DEF T
  <2>3. Expected(s.out, S, g)
    BY <1>3, <2>1, <2>2
  <2>4. g < q[1] /\ ~(b.pending # <<>> /\ b.pending[1][1] = g)
    BY <2>1, <2>2
  <2>5. QED
    BY <2>2, <2>3, <2>4 DEF Keeping, Past
<1>12. QED
  BY <1>4, <1>5, <1>6, <1>7, <1>9, <1>10 DEF Keeping, T

\* The camera went on from q to r, within f or to the next frame.
Onward(q, r, f) ==
  /\ q[1] = f /\ r \in Piece /\ (r[1] = f \/ r = <<f + 1, 1, 1>>)
  /\ r[2] = 1 /\ r[3] = 1 => r[1] # f

\* A piece, or a frame, is lost.
LEMMA LossKept ==
  ASSUME stream \in Streams, NEW s, NEW b, NEW q \in Piece, NEW due, NEW S, S \subseteq Int, NEW H,
         Keeping(s, b, q, due, S, H), NEW f \in Int,
         b.pending # <<>> => Last # 1 /\ b.pending[1][1] = f,
         NEW t, t.out = s.out, s.state = "AWAIT" => t.state = "AWAIT",
         t.state # "AWAIT" => t.fid = s.fid, Last = 1 => ~Dirty(t),
         NEW c, c.pending = <<>>, NEW now, NEW r, Onward(q, r, f)
  PROVE  Keeping(t, c, r, now, S, H \cup {f})
<1>1. /\ q[1] = f /\ r[1] \in Int /\ f <= r[1] /\ r[1] <= f + 1
      /\ \A g \in S : g <= f
  BY DEF Onward, Keeping, SeenInOrder
<1>2. SeenInOrder(r, S)
  <2>1. r[2] = 1 /\ r[3] = 1 => r[1] = f + 1
    BY DEF Onward
  <2>2. QED
    BY <1>1, <2>1 DEF Keeping, SeenInOrder
<1>3. AtRest(t, c, S)
  <2>1. CASE b.pending = <<>>
    BY <2>1 DEF Keeping, AtRest
  <2>2. CASE b.pending # <<>>
    <3>1. Latest(S, f) /\ Good(s.out, f) /\ Last # 1
      BY <2>2 DEF Keeping, PendingIsLatest
    <3>2. ~IsOut(t.out, f)
      BY <3>1, GoodIsBefore
    <3>3. \A g \in S : Latest(S, g) => g = f
      <4>1. TAKE g \in S
      <4>2. Latest(S, g) => g <= f /\ f <= g
        BY <3>1 DEF Latest
      <4>3. g \in Int
        OBVIOUS
      <4>4. Latest(S, g) => g = f
        BY <4>2, <4>3
      <4>5. QED
        BY <4>4
    <3>4. S # {}
      BY <3>1 DEF Latest
    <3>5. QED
      BY <3>1, <3>2, <3>3, <3>4 DEF AtRest
  <2>3. QED
    BY <2>1, <2>2
<1>4. Unhurt(c, r, H \cup {f})
  BY DEF Unhurt, Onward
<1>5. Current(t, c, r, now, S, H \cup {f})
  <2>1. SUFFICES ASSUME NEW f2 \in Int, NEW k2 \in 1..Payloads, Aligned(c, r, now, f2, k2),
                        f2 # f, Expected(t.out, S, f2)
                 PROVE  Begun(t, f2, k2)
    BY DEF Current
  <2>2. r = <<f2, k2, 1>>
    BY <2>1, AlignedEmpty
  <2>3. r = <<f2, 1, 1>> /\ k2 = 1
    BY <2>1, <2>2 DEF Onward
  <2>4. Ready(t, f2)
    BY <1>2, <1>3, <2>1, <2>3, ReadyAtFirst
  <2>5. QED
    BY <2>3, <2>4 DEF Begun
<1>6. Past(t, c, r, S, H \cup {f})
  <2>1. SUFFICES ASSUME NEW g \in S \ (H \cup {f}), Expected(s.out, S, g)
                 PROVE  IsOut(s.out, g)
    BY DEF Past
  <2>2. g < q[1] /\ ~(b.pending # <<>> /\ b.pending[1][1] = g)
    BY <1>1, <2>1
  <2>3. QED
    BY <2>1, <2>2 DEF Keeping, Past
<1>7. QED
  BY <1>2, <1>3, <1>4, <1>5, <1>6 DEF Keeping, PendingIsLatest

\* A packet is flagged by the camera.
LEMMA FlagKept ==
  ASSUME stream \in Streams, NEW s, NEW b, NEW q \in Piece, NEW due, NEW S, S \subseteq Int, NEW H,
         Keeping(s, b, q, due, S, H), NEW f \in Int, Good(s.out, f), b.pending = <<>>,
         NEW t, t.out = s.out, t.state # "AWAIT" => t.fid = f % 2, ~Dirty(t),
         NEW c, c.pending = <<>>, NEW now, NEW r, Onward(q, r, f)
  PROVE  Keeping(t, c, r, now, S \cup {f}, H \cup {f})
<1> DEFINE T == S \cup {f}
<1>1. /\ q[1] = f /\ r[1] \in Int /\ f <= r[1] /\ r[1] <= f + 1
      /\ \A g \in S : g <= f
  BY DEF Onward, Keeping, SeenInOrder
<1>2. (\A g : Latest(T, g) <=> g = f) /\ T \subseteq Int
  BY <1>1, LatestAdded
<1>3. \A g \in Int : g <= f => (Expected(t.out, T, g) <=> Expected(s.out, S, g))
  BY ExpectedEarlier
<1>4. ~IsOut(t.out, f)
  BY GoodIsBefore
<1> HIDE DEF T
<1>5. SeenInOrder(r, T)
  <2>1. \E g \in T : Latest(T, g)
    BY <1>2 DEF T
  <2>2. \A g \in T : g <= f
    BY <1>2 DEF Latest
  <2>3. \A g \in T : g <= r[1]
    BY <1>1, <1>2, <2>2
  <2>4. r[2] = 1 /\ r[3] = 1 => r[1] = f + 1
    BY DEF Onward
  <2>5. QED
    BY <1>1, <2>1, <2>2, <2>3, <2>4 DEF SeenInOrder
<1>6. AtRest(t, c, T)
  BY <1>2, <1>4 DEF AtRest, T
<1>7. Unhurt(c, r, H \cup {f})
  BY DEF Unhurt, Onward
<1>8. Current(t, c, r, now, T, H \cup {f})
  <2>1. SUFFICES ASSUME NEW f2 \in Int, NEW k2 \in 1..Payloads, Aligned(c, r, now, f2, k2),
                        f2 # f, Expected(t.out, T, f2)
                 PROVE  Begun(t, f2, k2)
    BY DEF Current
  <2>2. r = <<f2, k2, 1>>
    BY <2>1, AlignedEmpty
  <2>3. r = <<f2, 1, 1>> /\ k2 = 1
    BY <2>1, <2>2 DEF Onward
  <2>4. Ready(t, f2)
    BY <1>2, <1>5, <1>6, <2>1, <2>3, ReadyAtFirst
  <2>5. QED
    BY <2>3, <2>4 DEF Begun
<1>9. Past(t, c, r, T, H \cup {f})
  <2>1. SUFFICES ASSUME NEW g \in T \ (H \cup {f}), Expected(t.out, T, g)
                 PROVE  IsOut(t.out, g)
    BY DEF Past
  <2>2. g \in S \ H /\ g < q[1] /\ g \in Int /\ g <= f
    BY <1>1, <2>1 DEF T
  <2>3. Expected(s.out, S, g)
    BY <1>3, <2>1, <2>2
  <2>4. QED
    BY <2>2, <2>3 DEF Keeping, Past
<1>10. QED
  BY <1>5, <1>6, <1>7, <1>8, <1>9 DEF Keeping, PendingIsLatest, T

\* Nothing of a payload was pending, and nothing is.
LEMMA NothingKept ==
  ASSUME stream \in Streams, NEW s, NEW b, NEW q, NEW due, NEW S, NEW H,
         Keeping(s, b, q, due, S, H), b.pending = <<>>,
         NEW t, t = s \/ (t.state = "AWAIT" /\ t.out = s.out /\ q[2] = 1),
         NEW c, c.pending = <<>>, NEW now
  PROVE  Keeping(t, c, q, now, S, H)
<1>1. t.out = s.out /\ (t.state # "AWAIT" => t = s)
  OBVIOUS
<1>2. AtRest(t, c, S)
  BY <1>1 DEF Keeping, AtRest
<1>3. Current(t, c, q, now, S, H)
  <2>1. SUFFICES ASSUME NEW f \in Int, NEW k \in 1..Payloads, Aligned(c, q, now, f, k),
                        f \notin H, Expected(s.out, S, f)
                 PROVE  Begun(t, f, k)
    BY <1>1 DEF Current
  <2>2. q = <<f, k, 1>>
    BY <2>1, AlignedEmpty
  <2>3. Aligned(b, q, due, f, k)
    BY <2>2, AlignedEmpty
  <2>4. Begun(s, f, k)
    BY <2>1, <2>3 DEF Keeping, Current
  <2>5. t = s \/ (t.state = "AWAIT" /\ k = 1)
    BY <2>2
  <2>6. QED
    BY <2>4, <2>5 DEF Begun, Ready
<1>4. Unhurt(c, q, H) /\ Past(t, c, q, S, H)
  BY <1>1 DEF Keeping, Unhurt, Past
<1>5. Last = 1 => ~Dirty(t)
  BY DEF Keeping, Dirty
<1>6. QED
  BY <1>2, <1>3, <1>4, <1>5 DEF Keeping, PendingIsLatest

\* The camera sends on.
LEMMA OnwardSent ==
  ASSUME UvcTypes, Sending, Sent
  PROVE  Onward(sent, sent', Camera) /\ Camera \in Int
<1>1. PICK f \in 1..CamFrames, k \in 1..Payloads, c \in 1..Last :
        /\ sent = <<f, k, c>> /\ Camera = f
        /\ sent' = IF c # Last THEN <<f, k, c + 1>>
                   ELSE IF k = Payloads THEN <<f + 1, 1, 1>> ELSE <<f, k + 1, 1>>
  BY SentParts
<1>2. sent' \in Piece /\ f \in Int /\ k + 1 # 1 /\ c + 1 # 1 /\ f + 1 # f
  BY SentStays, UvcAssumption
<1>3. sent[1] = f /\ (sent'[1] = f \/ sent' = <<f + 1, 1, 1>>)
  BY <1>1
<1>4. sent'[2] = 1 /\ sent'[3] = 1 => sent'[1] # f
  BY <1>1, <1>2
<1>5. QED
  BY <1>1, <1>2, <1>3, <1>4 DEF Onward

\* What the steps below start from.
LEMMA KeepingParts ==
  ASSUME UvcTypes, Carried(asm, bulk, sent, owed), Keeping(asm, bulk, sent, owed, seen, hurt)
  PROVE  /\ stream \in Streams /\ sent \in Piece /\ Started(asm) /\ bulk.pending \in Buffers
         /\ owed \in BOOLEAN /\ Last \in Nat \ {0} /\ sent[1] \in Int /\ sent[3] \in 1..Last
         /\ seen \subseteq Int /\ \A g \in seen : g <= sent[1]
         /\ Camera = sent[1] /\ Good(asm.out, sent[1])
         /\ Last = 1 => ~Dirty(asm)
<1>1. /\ stream \in Streams /\ sent \in Piece /\ Started(asm) /\ bulk.pending \in Buffers
      /\ owed \in BOOLEAN /\ seen \subseteq 1..CamFrames /\ sent[3] \in 1..Last
  BY UvcTypesParts DEF HeldBy, Payload
<1>2. sent[1] \in Int /\ Last \in Nat \ {0} /\ seen \subseteq Int
  BY <1>1, PieceParts, LastIsPositive, UvcAssumption
<1>3. \A g \in seen : g <= sent[1]
  BY DEF Keeping, SeenInOrder
<1>4. Good(asm.out, sent[1]) /\ (Last = 1 => ~Dirty(asm))
  BY DEF Carried, Emitted, Keeping
<1>5. QED
  BY <1>1, <1>2, <1>3, <1>4 DEF Camera

\* Before an empty URB is due, what is pending is of the frame the camera sends.
LEMMA PendingIsOfCamera ==
  ASSUME UvcTypes, Carried(asm, bulk, sent, owed), Keeping(asm, bulk, sent, owed, seen, hurt),
         ~owed, bulk.pending # <<>>
  PROVE  Last # 1 /\ bulk.pending[1][1] = sent[1] /\ ~(sent[2] = 1 /\ sent[3] = 1)
<1>1. /\ stream \in Streams /\ bulk.pending \in Buffers /\ sent \in Piece /\ sent[3] \in 1..Last
      /\ Last \in Nat \ {0}
  BY KeepingParts
<1>2. /\ bulk.pending[1][1] = sent[1] /\ ~(sent[2] = 1 /\ sent[3] = 1)
      /\ bulk.pending[1][3] \in 1..Last
  BY DEF Keeping, PendingIsLatest
<1>3. ASSUME Last = 1 PROVE FALSE
  <2> DEFINE f == bulk.pending[1][1]   k == bulk.pending[1][2]
  <2>1. bulk.pending[1][3] = 1
    BY <1>2, <1>3
  <2>2. Aligned(bulk, sent, owed, f, k)
    BY <2>1 DEF Carried, Pending
  <2> HIDE DEF f, k
  <2>3. sent = <<f, k, Len(bulk.pending) + 1>>
    BY <1>1, <2>2, AlignedParts
  <2>4. sent[3] = Len(bulk.pending) + 1
    BY <2>3
  <2>5. Len(bulk.pending) >= 1
    BY <1>1 DEF Buffers
  <2>6. QED
    BY <1>1, <1>3, <2>4, <2>5
<1>4. QED
  BY <1>2, <1>3

LEMMA FedTakes ==
  ASSUME NEW s, Started(s), stream \in Streams, NEW f \in Int, NEW k \in 1..Payloads,
         NEW p \in Buffers, p # <<>>, WholePayload(p, f, k), f % 2 \in 0..1,
         Rough(s) \/ Clean(s, f, k), Last = 1 => ~Dirty(s), NEW t \in Fed(s, p, p[1])
  PROVE  Takes(s, t, f, k)
<1>1. t = Feed(s, Genuine(f, k), p, <<f, k, 1>>) /\ <<f, k, 1>> \in Piece
  BY FedFromFirst
<1>2. QED
  BY <1>1, FeedTakes

LEMMA KeepIsoPacket ==
  ASSUME UvcTypes, Carried(asm, bulk, sent, owed), Keeping(asm, bulk, sent, owed, seen, hurt),
         IsoPacket
  PROVE  Keeping(asm', bulk', sent', owed', seen', hurt)
<1>1. PICK f \in 1..CamFrames, k \in 1..Payloads, c \in 1..Last :
        /\ sent = <<f, k, c>> /\ Camera = f /\ f % 2 \in 0..1
        /\ sent' = IF c # Last THEN <<f, k, c + 1>>
                   ELSE IF k = Payloads THEN <<f + 1, 1, 1>> ELSE <<f, k + 1, 1>>
  BY SentParts DEF IsoPacket
<1>2. /\ stream \in Streams /\ sent \in Piece /\ Started(asm) /\ bulk.pending \in Buffers
      /\ seen \subseteq Int /\ \A g \in seen : g <= sent[1]
      /\ Good(asm.out, sent[1]) /\ (Last = 1 => ~Dirty(asm)) /\ sent[1] = f
  BY <1>1, KeepingParts
<1>3. Last = 1 /\ f \in Int /\ f <= sent[1]
  BY <1>1 DEF IsoPacket, Last
<1>4. bulk' = bulk /\ bulk.pending = <<>> /\ seen' = seen \cup {f}
  BY <1>1 DEF Carried, Pending, IsoPacket, Sees
<1>5. sent = <<f, k, 1>> /\ sent' = IF k = Payloads THEN <<f + 1, 1, 1>> ELSE <<f, k + 1, 1>>
  BY <1>1, <1>3
<1>6. Aligned(bulk, sent, owed, f, k)
  BY <1>2, <1>4, <1>5, AlignedEmpty
<1> DEFINE p == <<sent>>
<1>7. p \in Buffers /\ p # <<>> /\ p[1] = sent /\ WholePayload(p, f, k)
  BY <1>2, <1>3, <1>5 DEF WholePayload, Buffers
<1>8. asm' \in Fed(asm, p, p[1])
  BY DEF IsoPacket
<1> HIDE DEF p
<1>9. Rough(asm) \/ Clean(asm, f, k)
  BY <1>4, <1>5, WhatIsClean
<1>10. Takes(asm, asm', f, k)
  BY <1>1, <1>2, <1>3, <1>7, <1>8, <1>9, FedTakes
<1>11. Keeping(asm', bulk', sent', owed', seen \cup {f}, hurt)
  BY <1>2, <1>3, <1>4, <1>5, <1>6, <1>10, PayloadKept
<1>12. QED
  BY <1>4, <1>11

\* A bulk URB that is captured, what is known of its request aside.
LEMMA KeepUrb ==
  ASSUME UvcTypes, Carried(asm, bulk, sent, owed), Keeping(asm, bulk, sent, owed, seen, hurt),
         Sending, stream.bulk, stream' = stream,
         NEW req \in BOOLEAN, req \/ Pieces = 1, FeedUrb(sent, IsShort, req), Sent, Owes, Sees
  PROVE  Keeping(asm', bulk', sent', owed', seen', hurt)
<1>1. PICK f \in 1..CamFrames, k \in 1..Payloads, c \in 1..Last, p \in Buffers :
        /\ sent = <<f, k, c>> /\ f % 2 \in 0..1 /\ <<f, k, 1>> \in Piece
        /\ sent' = IF c # Last THEN <<f, k, c + 1>>
                   ELSE IF k = Payloads THEN <<f + 1, 1, 1>> ELSE <<f, k + 1, 1>>
        /\ owed' \in BOOLEAN /\ (owed' <=> c = Last /\ stream.ends = "empty")
        /\ p # <<>> /\ p[1] = (IF bulk.pending = <<>> THEN sent ELSE bulk.pending[1])
        /\ p[1][3] = 1 <=> Aligned(bulk, sent, owed, f, k)
        /\ p[1][3] = 1 => Len(p) = c /\ \A j \in 1..c : p[j] = <<f, k, j>>
        /\ \/ /\ c = Last /\ p[1][3] = 1 /\ WholePayload(p, f, k)
              /\ asm' \in Fed(asm, p, p[1]) /\ bulk' = Dropped(FALSE)
           \/ /\ c = Last /\ (k = Payloads \/ p[1][3] = 1) => owed'
              /\ asm' = asm /\ bulk'.pending = p /\ bulk'.cont /\ bulk'.ts = p[1]
           \/ /\ p[1][3] # 1
              /\ asm' \in Fed(asm, p, p[1]) \cup {asm} /\ bulk' = Dropped(FALSE)
  BY UrbCases
<1>2. /\ stream \in Streams /\ sent \in Piece /\ Started(asm) /\ bulk.pending \in Buffers
      /\ seen \subseteq Int /\ \A g \in seen : g <= f
      /\ Good(asm.out, f) /\ (Last = 1 => ~Dirty(asm)) /\ sent[1] = f /\ sent[3] = c
      /\ Last \in Nat \ {0} /\ f <= sent[1] /\ f \in Int /\ ~owed
      /\ seen' = seen \cup {f}
  BY <1>1, KeepingParts DEF Sees, Sending
<1>3. Onward(sent, sent', f)
  BY <1>2, OnwardSent, KeepingParts
<1>4. bulk.pending # <<>> => Last # 1 /\ bulk.pending[1][1] = f /\ bulk.pending[1][3] \in 1..Last
  BY <1>2, PendingIsOfCamera DEF Keeping, PendingIsLatest
<1>5. p[1][1] = f /\ p[1][3] \in 1..Last
  BY <1>1, <1>2, <1>4
<1>6. f \notin hurt => p[1][3] = 1
  <2>1. Unhurt(bulk, sent, hurt)
    BY DEF Keeping
  <2>2. QED
    BY <1>1, <1>2, <1>4, <2>1 DEF Unhurt
<1>7. Dropped(FALSE).pending = <<>>
  BY DroppedIsHeld
<1>8. ASSUME p[1][3] = 1 PROVE p[1] = <<f, k, 1>>
  <2>1. 1 \in 1..c
    BY <1>2
  <2>2. QED
    BY <1>1, <1>8, <2>1, Zenon
<1>9. CASE /\ c = Last /\ p[1][3] = 1 /\ WholePayload(p, f, k)
           /\ asm' \in Fed(asm, p, p[1]) /\ bulk' = Dropped(FALSE)
  <2>1. Rough(asm) \/ Clean(asm, f, k)
    BY <1>1, <1>8, <1>9, WhatIsClean
  <2>2. Takes(asm, asm', f, k)
    BY <1>1, <1>2, <1>9, <2>1, FedTakes
  <2>3. sent' = IF k = Payloads THEN <<f + 1, 1, 1>> ELSE <<f, k + 1, 1>>
    BY <1>1, <1>9
  <2>4. Aligned(bulk, sent, owed, f, k) /\ bulk'.pending = <<>>
    BY <1>1, <1>7, <1>9
  <2>5. Keeping(asm', bulk', sent', owed', seen \cup {f}, hurt)
    BY <1>2, <1>4, <2>2, <2>3, <2>4, PayloadKept
  <2>6. QED
    BY <1>2, <2>5
<1>10. CASE /\ c = Last /\ (k = Payloads \/ p[1][3] = 1) => owed'
            /\ asm' = asm /\ bulk'.pending = p /\ bulk'.cont /\ bulk'.ts = p[1]
  <2>1. /\ sent' \in Piece /\ f <= sent'[1]
        /\ sent'[2] = 1 /\ sent'[3] = 1 => sent'[1] # f
    BY <1>2, <1>3 DEF Onward
  <2>2. ~owed' => sent'[1] = f
    BY <1>1, <1>10
  <2>3. ASSUME NEW k2 \in 1..Payloads, Aligned(bulk', sent', owed', f, k2)
        PROVE  Aligned(bulk, sent, owed, f, k2)
    <3>1. p[1] = <<f, k2, 1>>
      BY <1>1, <1>2, <1>10, <2>3, AlignedParts
    <3>2. Aligned(bulk, sent, owed, f, k) /\ k2 = k
      BY <1>1, <1>8, <3>1
    <3>3. QED
      BY <3>2
  <2> DEFINE b == bulk'
  <2>4. /\ b.pending \in Buffers /\ b.pending # <<>> /\ b.pending[1][1] = f
        /\ b.pending[1][3] \in 1..Last /\ (f \notin hurt => b.pending[1][3] = 1)
    BY <1>1, <1>5, <1>6, <1>10
  <2> HIDE DEF b
  <2>5. Keeping(asm, b, sent', owed', seen \cup {f}, hurt)
    BY <1>2, <1>4, <2>1, <2>2, <2>3, <2>4, PieceKept DEF b
  <2>6. QED
    BY <1>2, <1>10, <2>5 DEF b
<1>11. CASE /\ p[1][3] # 1
            /\ asm' \in Fed(asm, p, p[1]) \cup {asm} /\ bulk' = Dropped(FALSE)
  <2>1. f \in hurt /\ Last # 1 /\ bulk'.pending = <<>>
    <3>1. p[1][3] # 1
      BY <1>11
    <3>2. Last # 1
      BY <1>5, <3>1
    <3>3. f \in hurt
      BY <1>6, <3>1
    <3>4. QED
      BY <1>7, <1>11, <3>2, <3>3
  <2>2. Rough(asm)
    <3>1. SUFFICES ASSUME NEW f2 \in Int, NEW k2 \in 1..Payloads,
                          Aligned(bulk, sent, owed, f2, k2)
                   PROVE  FALSE
      BY Zenon DEF Carried, Assembling
    <3>2. p[1] = <<f2, k2, 1>>
      BY <1>1, <1>2, <3>1, AlignedParts
    <3>3. QED
      BY <1>11, <3>2
  <2>3. asm'.out = asm.out
    <3>1. ASSUME asm' \in Fed(asm, p, p[1]) PROVE asm'.out = asm.out
      BY <1>1, <1>2, <1>11, <2>2, <3>1, FedParts
    <3>2. QED
      BY <1>11, <3>1
  <2>4. /\ sent' \in Piece /\ f <= sent'[1] /\ (sent'[1] = f \/ sent'[3] = 1)
        /\ sent'[2] = 1 /\ sent'[3] = 1 => sent'[1] # f
    BY <1>2, <1>3 DEF Onward
  <2>5. Keeping(asm', bulk', sent', owed', seen \cup {f}, hurt)
    BY <1>2, <1>4, <2>1, <2>3, <2>4, RestKept
  <2>6. QED
    BY <1>2, <2>5
<1>12. QED
  BY <1>1, <1>9, <1>10, <1>11

LEMMA KeepEmptyUrb ==
  ASSUME UvcTypes, Carried(asm, bulk, sent, owed), Keeping(asm, bulk, sent, owed, seen, hurt),
         owed, FeedEmpty, sent' = sent
  PROVE  Keeping(asm', bulk', sent', owed', seen, hurt)
<1>1. /\ stream \in Streams /\ sent \in Piece /\ Started(asm) /\ bulk.pending \in Buffers
      /\ seen \subseteq Int /\ \A g \in seen : g <= sent[1]
      /\ (Last = 1 => ~Dirty(asm)) /\ Last \in Nat \ {0} /\ bulk.cont \in BOOLEAN
  BY KeepingParts, UvcTypesParts DEF HeldBy, Payload
<1>2. /\ bulk.cont <=> bulk.pending # <<>>
      /\ bulk.cont => bulk.ts = bulk.pending[1]
      /\ bulk.cont /\ bulk.pending[1][3] = 1
           => Aligned(bulk, sent, owed, bulk.pending[1][1], bulk.pending[1][2])
      /\ sent[3] = 1
  BY DEF Carried, Pending
<1>3. asm' \in Fed(asm, bulk.pending, bulk.ts)
  BY <1>2 DEF FeedEmpty
<1>4. bulk'.pending = <<>>
  BY DroppedIsHeld DEF FeedEmpty
<1>5. CASE bulk.pending = <<>>
  <2>1. asm' = asm
    BY <1>3, <1>5 DEF Fed
  <2>2. QED
    BY <1>1, <1>4, <1>5, <2>1, NothingKept
<1>6. CASE bulk.pending # <<>>
  <2> DEFINE p == bulk.pending   f == p[1][1]   k == p[1][2]
  <2>1. p \in Buffers /\ p # <<>> /\ p[1] \in Piece /\ asm' \in Fed(asm, p, p[1])
    BY <1>1, <1>2, <1>3, <1>6 DEF Buffers
  <2>2. f \in 1..(CamFrames + 1) /\ k \in 1..Payloads /\ p[1] = <<f, k, p[1][3]>>
    BY <2>1, PieceParts
  <2>3. f \in Int /\ f % 2 \in 0..1
    BY <2>2, UvcAssumption
  <2>4. p[1][3] = 1 => Aligned(bulk, sent, owed, f, k)
    BY <1>2, <1>6
  <2>5. Latest(seen, f) /\ Good(asm.out, f) /\ p[1][3] \in 1..Last
    BY <1>6 DEF Keeping, PendingIsLatest
  <2>6. f \in hurt \/ p[1][3] = 1
    BY <1>6 DEF Keeping, Unhurt
  <2>7. bulk.pending # <<>> => bulk.pending[1][1] = f
    OBVIOUS
  <2> HIDE DEF f, k
  <2>8. /\ \A g \in seen : g <= f
        /\ seen \cup {f} = seen /\ f <= sent[1] /\ ~(sent[2] = 1 /\ sent[3] = 1 /\ sent[1] = f)
    BY <1>1, <2>5 DEF Latest, Keeping, SeenInOrder
  <2>9. CASE p[1][3] = 1
    <3>1. /\ WholePayload(p, f, k)
          /\ sent = IF k = Payloads THEN <<f + 1, 1, 1>> ELSE <<f, k + 1, 1>>
      BY <1>6, <2>4, <2>9 DEF Aligned
    <3>2. Rough(asm) \/ Clean(asm, f, k)
      BY <1>6, <2>2, <2>9, WhatIsClean
    <3>3. Takes(asm, asm', f, k)
      BY <1>1, <2>1, <2>2, <2>3, <3>1, <3>2, FedTakes
    <3>4. Keeping(asm', bulk', sent', owed', seen \cup {f}, hurt)
      BY <1>1, <1>4, <2>2, <2>3, <2>4, <2>5, <2>7, <2>8, <2>9, <3>1, <3>3, PayloadKept
    <3>5. QED
      BY <2>8, <3>4
  <2>10. CASE p[1][3] # 1
    <3>1. Rough(asm)
      <4>1. SUFFICES ASSUME NEW f2 \in Int, NEW k2 \in 1..Payloads,
                            Aligned(bulk, sent, owed, f2, k2)
                     PROVE  FALSE
        BY Zenon DEF Carried, Assembling
      <4>2. p[1] = <<f2, k2, 1>>
        BY <1>1, <1>6, <4>1, AlignedParts
      <4>3. QED
        BY <2>10, <4>2
    <3>2. asm'.out = asm.out
      BY <1>1, <2>1, <2>2, <2>3, <2>10, <3>1, FedParts
    <3>3. Last # 1 /\ f \in hurt
      BY <2>5, <2>6, <2>10
    <3>4. Keeping(asm', bulk', sent', owed', seen \cup {f}, hurt)
      BY <1>1, <1>2, <1>4, <2>3, <2>5, <2>7, <2>8, <3>2, <3>3, RestKept
    <3>5. QED
      BY <2>8, <3>4
  <2>11. QED
    BY <2>9, <2>10
<1>7. QED
  BY <1>5, <1>6

\* What was being accumulated is skipped, or nothing is known of what is lost.
LEMMA KeepLoss ==
  ASSUME UvcTypes, Carried(asm, bulk, sent, owed), Keeping(asm, bulk, sent, owed, seen, hurt),
         ~owed, NEW r, Onward(sent, r, Camera),
         NEW t \in {Poison(asm), asm}, NEW c, c.pending = <<>>, NEW now
  PROVE  Keeping(t, c, r, now, seen, hurt \cup {Camera})
<1>1. /\ stream \in Streams /\ sent \in Piece /\ Started(asm) /\ seen \subseteq Int
      /\ Camera \in Int /\ Camera = sent[1] /\ (Last = 1 => ~Dirty(asm))
  BY KeepingParts
<1>2. bulk.pending # <<>> => Last # 1 /\ bulk.pending[1][1] = Camera
  BY <1>1, PendingIsOfCamera
<1>3. /\ Poison(asm).out = asm.out /\ Poison(asm).state # "ACCUM" /\ Poison(asm).fid = asm.fid
      /\ asm.state # "ACCUM" => Poison(asm) = asm
  <2>1. asm.state = "ACCUM" => Poison(asm) = Skipped(asm)
    BY DEF Poison, Skipped
  <2>2. asm.state # "ACCUM" => Poison(asm) = asm
    BY DEF Poison
  <2>3. Skipped(asm).state = "SKIP" /\ Skipped(asm).fid = asm.fid /\ Skipped(asm).out = asm.out
    BY <1>1, SkippedParts DEF Started
  <2>4. QED
    BY <2>1, <2>2, <2>3
<1>4. /\ t.out = asm.out /\ (asm.state = "AWAIT" => t.state = "AWAIT")
      /\ t.fid = asm.fid /\ (Last = 1 => ~Dirty(t))
  BY <1>1, <1>3 DEF Dirty
<1>5. QED
  BY <1>1, <1>2, <1>4, LossKept

\* A packet whose header the camera flagged.
LEMMA KeepFlagged ==
  ASSUME UvcTypes, Carried(asm, bulk, sent, owed), Keeping(asm, bulk, sent, owed, seen, hurt),
         Sending, ~stream.bulk, Sent, bulk' = bulk,
         NEW h \in Header, h.err, h.sane, h.fid = Camera % 2, asm' = Feed(asm, h, <<sent>>, sent)
  PROVE  Keeping(asm', bulk', sent', owed', seen \cup {Camera}, hurt \cup {Camera})
<1>1. /\ stream \in Streams /\ sent \in Piece /\ Started(asm) /\ seen \subseteq Int
      /\ Camera \in Int /\ Good(asm.out, Camera) /\ (Last = 1 => ~Dirty(asm)) /\ sent[3] \in 1..Last
  BY KeepingParts
<1>2. Onward(sent, sent', Camera) /\ Last = 1
  BY OnwardSent DEF Last
<1>3. bulk.pending = <<>>
  BY DEF Carried, Pending
<1>4. asm.state = "ACCUM" => asm.fid = Camera % 2
  <2>1. PICK f \in 1..CamFrames, k \in 1..Payloads, c \in 1..Last :
          sent = <<f, k, c>> /\ Camera = f
    BY SentParts
  <2>2. sent = <<f, k, 1>>
    BY <1>2, <2>1
  <2>3. Rough(asm) \/ Clean(asm, f, k)
    BY <1>3, <2>2, WhatIsClean
  <2>4. QED
    BY <1>1, <1>2, <2>1, <2>3 DEF Rough, Clean
<1> DEFINE r == Begin(asm, h.fid, sent)   data == <<sent>>   t == Feed(asm, h, data, sent)
<1>5. asm \in Assembly /\ h.fid \in 0..1 /\ data \in Buffers
  BY <1>1 DEF Started, Header, Buffers
<1>6. r \in Assembly /\ r.out = asm.out /\ r.fid = h.fid
  BY <1>1, <1>5, BeginParts
<1>7. /\ Skipped(asm).state = "SKIP" /\ Skipped(asm).out = asm.out /\ Skipped(asm).fid = asm.fid
      /\ Skipped(r).state = "SKIP" /\ Skipped(r).out = r.out /\ Skipped(r).fid = r.fid
  BY <1>5, <1>6, SkippedParts
<1>8. data # <<>>
  OBVIOUS
<1> HIDE DEF r, data
<1>9. \/ t = asm /\ asm.state # "ACCUM" /\ h.fid = asm.fid
      \/ t = Skipped(asm) /\ asm.state = "ACCUM"
      \/ t = Skipped(r)
  BY <1>5, <1>8, FeedCases, AccumulateCases DEF r
<1>10. t.out = asm.out /\ t.fid = Camera % 2 /\ t.state # "ACCUM"
  BY <1>4, <1>6, <1>7, <1>9
<1>11. asm'.out = asm.out /\ asm'.fid = Camera % 2 /\ ~Dirty(asm')
  BY <1>10 DEF Dirty, data
<1>12. QED
  BY <1>1, <1>2, <1>3, <1>11, FlagKept

LEMMA KeepKeepalive ==
  ASSUME UvcTypes, Carried(asm, bulk, sent, owed), Keeping(asm, bulk, sent, owed, seen, hurt),
         Keepalive
  PROVE  Keeping(asm', bulk', sent', owed', seen, hurt)
<1> DEFINE h == [sane |-> TRUE, fid |-> (Camera - 1) % 2, eof |-> TRUE, err |-> FALSE]
<1>1. /\ stream \in Streams /\ sent \in Piece /\ Started(asm) /\ asm \in Assembly /\ Camera \in Int
      /\ <<>> \in Buffers /\ bulk.pending = <<>>
  BY KeepingParts, FieldValues DEF Keepalive, Started
<1>2. h \in Header /\ h.eof /\ ~h.err /\ h.sane /\ h.fid \in 0..1
  BY <1>1 DEF Header
<1>3. /\ asm' = Feed(asm, h, <<>>, sent) /\ bulk' = bulk /\ sent' = sent /\ sent[2] = 1
      /\ sent = First(Camera) /\ Sending
  BY DEF Keepalive, First
<1> HIDE DEF h
<1>4. Rough(asm)
  BY <1>3, FirstIsRough
<1>5. asm'.out = asm.out
  BY <1>1, <1>2, <1>3, <1>4, FeedRough
<1>6. ASSUME NEW s, Started(s), s.state = "ACCUM"
      PROVE  Accumulate(s, h, <<>>, sent).state = "AWAIT"
  <2> DEFINE v == Taken(s, h, sent)   u == With(v, <<>>)
  <2>1. Started(v) /\ v.state = "ACCUM"
    BY <1>1, <1>2, <1>6, TakenParts
  <2> HIDE DEF v
  <2>2. Started(u) /\ u.state = "ACCUM"
    BY <1>1, <2>1, WithParts
  <2> HIDE DEF u
  <2>3. Completed(u).state = "AWAIT"
    BY <2>2, CompletedParts
  <2>4. QED
    BY <1>2, <2>3, AccumulateCases DEF u, v
<1> DEFINE r == Begin(asm, h.fid, sent)
<1>7. Started(r) /\ r.state = "ACCUM"
  BY <1>1, <1>2, BeginParts DEF Started
<1> HIDE DEF r
<1>8. \/ asm' = asm
      \/ asm.state = "ACCUM" /\ asm' = Accumulate(asm, h, <<>>, sent)
      \/ asm' = Accumulate(r, h, <<>>, sent)
  BY <1>1, <1>2, <1>3, FeedCases DEF r
<1>9. asm' = asm \/ asm'.state = "AWAIT"
  BY <1>1, <1>6, <1>7, <1>8
<1>10. asm' = asm \/ (asm'.state = "AWAIT" /\ asm'.out = asm.out /\ sent[2] = 1)
  BY <1>3, <1>5, <1>9
<1>11. bulk'.pending = <<>> /\ sent' = sent
  BY <1>1, <1>3
<1>12. QED
  BY <1>1, <1>10, <1>11, NothingKept

LEMMA KeepingNext ==
  ASSUME stream' = stream
  PROVE  Keeping(asm, bulk, sent, owed, seen, hurt)' <=> Keeping(asm', bulk', sent', owed', seen', hurt')
<1>1. Last' = Last
  BY DEF Last
<1>2. \A f : First(f)' = First(f) /\ Whole(f)' = Whole(f)
  BY <1>1 DEF First, Whole
<1>3. \A f : Good(asm.out, f)' <=> Good(asm'.out, f)
  BY <1>2 DEF Good
<1>4. \A f, k : Begun(asm, f, k)' <=> Begun(asm', f, k)
  BY <1>1, <1>2 DEF Begun, Ready, Clean, Run
<1>5. \A f, k : Aligned(bulk, sent, owed, f, k)' <=> Aligned(bulk', sent', owed', f, k)
  BY <1>1 DEF Aligned, WholePayload, Buffers
<1>6. \A f : Expected(asm.out, seen, f)' <=> Expected(asm'.out, seen', f)
  BY <1>1 DEF Expected, IsOut
<1>7. SeenInOrder(sent, seen)' <=> SeenInOrder(sent', seen')
  BY DEF SeenInOrder, Latest
<1>8. PendingIsLatest(asm, bulk, sent, owed, seen)' <=> PendingIsLatest(asm', bulk', sent', owed', seen')
  BY <1>1, <1>3 DEF PendingIsLatest, Latest
<1>9. AtRest(asm, bulk, seen)' <=> AtRest(asm', bulk', seen')
  BY <1>1 DEF AtRest, Latest, IsOut
<1>10. Unhurt(bulk, sent, hurt)' <=> Unhurt(bulk', sent', hurt')
  BY DEF Unhurt
<1>11. Current(asm, bulk, sent, owed, seen, hurt)' <=> Current(asm', bulk', sent', owed', seen', hurt')
  BY <1>4, <1>5, <1>6 DEF Current
<1>12. Past(asm, bulk, sent, seen, hurt)' <=> Past(asm', bulk', sent', seen', hurt')
  BY <1>6 DEF Past, IsOut
<1>13. Dirty(asm)' <=> Dirty(asm')
  BY DEF Dirty
<1>14. QED
  BY <1>1, <1>7, <1>8, <1>9, <1>10, <1>11, <1>12, <1>13 DEF Keeping

KeptInv == UvcInv /\ (untold \/ urbFailed \/ Keeping(asm, bulk, sent, owed, seen, hurt))

LEMMA KeptInitially == UvcInit => KeptInv
<1> SUFFICES ASSUME UvcInit PROVE KeptInv
  OBVIOUS
<1>1. UvcInv /\ stream \in Streams
  BY UvcInvInitially, UvcTypesParts DEF UvcInv
<1>2. asm.state = "AWAIT" /\ bulk.pending = <<>> /\ seen = {}
  BY DEF UvcInit
<1>3. PICK k \in 1..Payloads, c \in 1..Last : sent = <<1, k, c>>
  BY DEF UvcInit
<1>4. 1 \notin hurt => sent = <<1, 1, 1>>
  BY DEF UvcInit, First
<1>5. Unhurt(bulk, sent, hurt)
  BY <1>2, <1>3, <1>4 DEF Unhurt
<1>6. Current(asm, bulk, sent, owed, seen, hurt)
  <2>1. SUFFICES ASSUME NEW f \in Int, NEW k2 \in 1..Payloads,
                        Aligned(bulk, sent, owed, f, k2), f \notin hurt
                 PROVE  Begun(asm, f, k2)
    BY DEF Current
  <2>2. sent = <<f, k2, 1>>
    BY <1>1, <1>2, <2>1, AlignedEmpty
  <2>3. f = 1 /\ k2 = 1
    BY <1>3, <1>4, <2>1, <2>2
  <2>4. QED
    BY <1>2, <2>3 DEF Begun, Ready
<1>7. SeenInOrder(sent, seen) /\ PendingIsLatest(asm, bulk, sent, owed, seen)
  BY <1>2 DEF SeenInOrder, PendingIsLatest
<1>8. AtRest(asm, bulk, seen) /\ Past(asm, bulk, sent, seen, hurt) /\ ~Dirty(asm)
  BY <1>2 DEF AtRest, Past, Dirty
<1>9. QED
  BY <1>1, <1>5, <1>6, <1>7, <1>8 DEF KeptInv, Keeping

LEMMA KeptStep == KeptInv /\ [UvcNext]_uvcVars => KeptInv'
<1> SUFFICES ASSUME KeptInv, [UvcNext]_uvcVars PROVE KeptInv'
  OBVIOUS
<1>1. UvcInv /\ UvcInv' /\ UvcTypes
  BY UvcInvStep DEF KeptInv, UvcInv
<1>2. stream' = stream /\ (untold => untold') /\ (urbFailed => urbFailed')
  BY HistoryStays
<1>3. SUFFICES ASSUME ~untold', ~urbFailed', Carried(asm, bulk, sent, owed),
                      Keeping(asm, bulk, sent, owed, seen, hurt)
               PROVE  Keeping(asm', bulk', sent', owed', seen', hurt')
  BY <1>1, <1>2, KeepingNext DEF KeptInv, UvcInv
<1>4. /\ stream \in Streams /\ sent \in Piece /\ Camera \in Int /\ EndOfFrame \in BOOLEAN
      /\ IsShort \in BOOLEAN /\ Started(asm)
  BY <1>1, <1>3, KeepingParts DEF EndOfFrame, IsShort
<1>5. Sending => ~owed
  BY DEF Sending
<1>6. ~stream.bulk => bulk.pending = <<>>
  BY <1>3 DEF Carried, Pending
<1>7. CASE IsoPacket
  <2>1. hurt' = hurt
    BY <1>7 DEF IsoPacket
  <2>2. QED
    BY <1>1, <1>3, <1>7, <2>1, KeepIsoPacket
<1>8. CASE IsoLost
  <2>1. /\ Onward(sent, sent', Camera) /\ asm' = Poison(asm) /\ bulk'.pending = <<>>
        /\ seen' = seen /\ hurt' = hurt \cup {Camera} /\ ~owed
    BY <1>1, <1>5, <1>6, <1>8, OnwardSent DEF IsoLost, Hurts
  <2>2. QED
    BY <1>1, <1>3, <2>1, KeepLoss
<1>9. CASE IsoBad
  <2>1. PICK h \in {Insane, [sane |-> TRUE, fid |-> Camera % 2, eof |-> EndOfFrame, err |-> TRUE]} :
          /\ asm' = Feed(asm, h, <<sent>>, sent)
          /\ seen' = IF h.sane THEN seen \cup {Camera} ELSE seen
    BY <1>9 DEF IsoBad
  <2>2. /\ Sending /\ Sent /\ ~stream.bulk /\ bulk' = bulk /\ hurt' = hurt \cup {Camera} /\ ~owed
        /\ Onward(sent, sent', Camera) /\ bulk'.pending = <<>>
    BY <1>1, <1>5, <1>6, <1>9, OnwardSent DEF IsoBad, Hurts
  <2>3. CASE h = Insane
    <3>1. Insane \in Header /\ ~Insane.sane
      BY DEF Header, Insane
    <3>2. asm \in Assembly /\ <<sent>> \in Buffers
      BY <1>4 DEF Started, Buffers
    <3>3. Feed(asm, h, <<sent>>, sent) = Poison(asm)
      BY <2>3, <3>1, <3>2, FeedCases DEF Poison, Skipped
    <3>4. asm' = Poison(asm) /\ seen' = seen
      BY <2>1, <2>3, <3>1, <3>3
    <3>5. QED
      BY <1>1, <1>3, <2>2, <3>4, KeepLoss
  <2>4. CASE h = [sane |-> TRUE, fid |-> Camera % 2, eof |-> EndOfFrame, err |-> TRUE]
    <3>1. Camera % 2 \in 0..1
      BY <1>4
    <3>2. h \in Header /\ h.err /\ h.sane /\ h.fid = Camera % 2
      BY <1>4, <2>4, <3>1 DEF Header
    <3>3. seen' = seen \cup {Camera}
      BY <2>1, <3>2
    <3>4. QED
      BY <1>1, <1>3, <2>1, <2>2, <3>2, <3>3, KeepFlagged
  <2>5. QED
    BY <2>1, <2>3, <2>4
<1>10. CASE Urb
  <2>1. hurt' = hurt
    BY <1>10 DEF Urb
  <2>2. QED
    BY <1>1, <1>2, <1>3, <1>10, <2>1, KeepUrb DEF Urb
<1>11. CASE UrbUnasked
  <2>1. bulk.req \in BOOLEAN
    BY <1>1, UvcTypesParts DEF HeldBy, Payload
  <2>2. Pieces = 1
    <3>1. untold' = (untold \/ Pieces > 1)
      BY <1>11 DEF UrbUnasked
    <3>2. ~(Pieces > 1)
      BY <1>3, <3>1, Zenon
    <3>3. QED
      BY <3>2, UvcAssumption
  <2>3. Keeping(asm', bulk', sent', owed', seen', hurt)
    BY <1>1, <1>2, <1>3, <1>11, <2>1, <2>2, KeepUrb DEF UrbUnasked
  <2>4. hurt' = hurt \cup {Camera}
    BY <1>11 DEF UrbUnasked, Hurts
  <2>5. QED
    BY <2>3, <2>4, HurtGrows
<1>12. CASE UrbCut
  <2>1. PICK some \in BOOLEAN : FeedCut(some, TRUE)
    BY <1>12 DEF UrbCut
  <2>2. bulk'.pending = <<>> /\ asm' = Poison(asm)
    BY <2>1, DroppedIsHeld DEF FeedCut
  <2>3. /\ Onward(sent, sent', Camera) /\ seen' = seen /\ hurt' = hurt \cup {Camera} /\ ~owed
    BY <1>1, <1>5, <1>12, OnwardSent DEF UrbCut, Hurts
  <2>4. QED
    BY <1>1, <1>3, <2>2, <2>3, KeepLoss
<1>13. CASE UrbFails \/ Uncaptured
  BY <1>3, <1>13 DEF UrbFails, Uncaptured
<1>14. CASE EmptyUrb
  <2>1. owed /\ FeedEmpty /\ sent' = sent /\ seen' = seen /\ hurt' = hurt
    BY <1>14 DEF EmptyUrb, told
  <2>2. QED
    BY <1>1, <1>3, <2>1, KeepEmptyUrb
<1>15. CASE Keepalive
  <2>1. seen' = seen /\ hurt' = hurt
    BY <1>15 DEF Keepalive, told
  <2>2. QED
    BY <1>1, <1>3, <1>15, <2>1, KeepKeepalive
<1>16. CASE FrameUncaptured
  <2>1. /\ sent = <<Camera, 1, 1>> /\ sent' = <<Camera + 1, 1, 1>> /\ asm' = asm /\ bulk' = bulk
        /\ ~owed /\ seen' = seen /\ hurt' = hurt \cup {Camera} /\ Camera \in 1..CamFrames
    BY <1>4, <1>5, <1>16, PieceParts, UvcAssumption
       DEF FrameUncaptured, First, Hurts, Sending, Camera
  <2>2. Onward(sent, sent', Camera)
    <3>1. sent' \in Piece
      BY <2>1, UvcAssumption DEF Piece
    <3>2. sent[1] = Camera /\ sent'[1] = Camera + 1 /\ sent' = <<Camera + 1, 1, 1>>
      BY <2>1
    <3>3. Camera + 1 # Camera
      BY <1>4
    <3>4. QED
      BY <3>1, <3>2, <3>3 DEF Onward
  <2>3. bulk'.pending = <<>>
    <3>1. sent[2] = 1 /\ sent[3] = 1
      BY <2>1
    <3>2. QED
      BY <1>1, <1>3, <2>1, <3>1, PendingIsOfCamera
  <2>4. QED
    BY <1>1, <1>3, <2>1, <2>2, <2>3, KeepLoss
<1>17. CASE EndOfCapture \/ UNCHANGED uvcVars
  <2>1. UNCHANGED uvcVars
    BY <1>17 DEF EndOfCapture
  <2>2. QED
    BY <1>3, <2>1 DEF uvcVars, told
<1>18. QED
  BY <1>7, <1>8, <1>9, <1>10, <1>11, <1>12, <1>13, <1>14, <1>15, <1>16, <1>17
     DEF UvcNext, Capture, Losses

\* uvcpcap.py:436-692: a frame that was captured as sent comes out if the last one seen before
\* it did, however many others were lost as a whole between them; where a payload is one
\* packet, after a frame that was hurt, too, if the FID differs.
THEOREM IntactFramesComeOut == UvcSpec => []IntactKept
<1>1. KeptInv => IntactKept
  <2>1. SUFFICES ASSUME KeptInv, ~owed, NEW f \in 1..CamFrames, Readable(f) PROVE CameOut(f)
    BY DEF IntactKept
  <2>2. /\ f \in seen \ hurt /\ f < Camera /\ ~untold /\ ~urbFailed
        /\ \A g \in Predecessor(f) : CameOut(g) \/ (Last = 1 /\ g % 2 # f % 2)
    BY <2>1 DEF Readable
  <2>3. \A g : CameOut(g) <=> IsOut(asm.out, g)
    BY DEF CameOut, IsOut, Out, FrameOf
  <2>4. Expected(asm.out, seen, f)
    BY <2>2, <2>3 DEF Expected, Predecessor
  <2>5. UvcTypes /\ Carried(asm, bulk, sent, owed) /\ Keeping(asm, bulk, sent, owed, seen, hurt)
    BY <2>1, <2>2 DEF KeptInv, UvcInv
  <2>6. bulk.pending # <<>> => bulk.pending[1][1] # f
    <3>1. sent[1] = Camera /\ Camera \in Int
      BY <2>5, KeepingParts
    <3>2. bulk.pending # <<>> => bulk.pending[1][1] = sent[1]
      BY <2>1, <2>5, PendingIsOfCamera
    <3>3. QED
      BY <2>2, <3>1, <3>2
  <2>7. IsOut(asm.out, f)
    BY <2>2, <2>4, <2>5, <2>6 DEF Keeping, Past, Camera
  <2>8. QED
    BY <2>3, <2>7
<1>2. QED
  BY <1>1, KeptInitially, KeptStep, PTL DEF UvcSpec
=============================================================================
