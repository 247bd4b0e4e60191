-------------------------- MODULE ReplaySource_proofs --------------------------
(***************************************************************************)
(* Proofs about ReplaySource, for any number of sessions, rows, requests,  *)
(* failures and cycles.                                                    *)
(*                                                                         *)
(* ReaderInv says what each program point of the main thread may rely on   *)
(* while no stop has begun: outside a rebuild the reader is the current    *)
(* one and hears its watch, and it is paused only after an end that a      *)
(* restart will see.  DeliveryInv, in the second half, says which frames   *)
(* can still go out, and after what.                                       *)
(***************************************************************************)
EXTENDS ReplaySource, FiniteSetTheorems, TLAPS

MediaInv == First \in 1..Sessions

CycleInv ==
  /\ main = "locked" /\ op = "restart" => cycle < MaxCycles
  /\ main = "restart" => cycle < MaxCycles

GateInv ==
  /\ armed /\ gate = "waiting" => ~touched
  /\ GateYields

ReaderInv ==
  handler = "off" /\ ~lost =>
    /\ main \notin {"null", "clear", "build"} => readerGen = gen /\ ~stopEvt /\ reader # "null"
    /\ main = "build" => ~stopEvt
    /\ main \in {"idle", "locked", "restart", "finish"} => (reader = "paused" => finished)
    /\ main \in {"mark", "reset"} => (reader = "paused" => wasFinished)
    /\ main \in {"rewind", "seek"} => reader = "playing"

IInv == TypeOK /\ MediaInv /\ CycleInv /\ GateInv /\ ReaderInv
-------------------------------------------------------------------------------
(* A run has a first session inside its window.                            *)
LEMMA FirstInWindow ==
  ASSUME Init
  PROVE  /\ First \in 1..Sessions
         /\ Position(First, Rows - 1) >= from
         /\ \A t \in 1..(First - 1) : Position(t, Rows - 1) < from
<1> USE ReplayAssumption
<1> DEFINE Starts(s) == /\ Position(s, Rows - 1) >= from
                        /\ \A t \in 1..(s - 1) : Position(t, Rows - 1) < from
<1>1. \E s \in 1..Sessions : Starts(s)
  <2>1. Position(1, Rows - 1) = Rows - 1 /\ 1 \in 1..Sessions /\ 1..(1 - 1) = {}
    BY DEF Position
  <2>2. CASE from = 0 \/ Rows > 1
    <3>1. from \in {0, 1}
      BY DEF Init
    <3>2. Starts(1)
      BY <2>1, <2>2, <3>1
    <3> QED BY <2>1, <3>2
  <2>3. CASE from = 1 /\ Rows = 1
    <3>1. Span = Sessions
      BY <2>3 DEF Span
    <3>2. to = Span - from /\ from < to
      BY DEF Init
    <3>3. 2 \in 1..Sessions
      BY <2>3, <3>1, <3>2
    <3>4. Position(2, Rows - 1) = 1 /\ Position(1, Rows - 1) = 0
      BY <2>3 DEF Position
    <3>5. \A t \in 1..(2 - 1) : t = 1
      OBVIOUS
    <3>6. Starts(2)
      BY <2>3, <3>4, <3>5
    <3> QED BY <3>3, <3>6
  <2> QED BY <2>2, <2>3 DEF Init
<1>2. First = CHOOSE s \in 1..Sessions : Starts(s)
  BY DEF First
<1> HIDE DEF Starts
<1>3. First \in 1..Sessions /\ Starts(First)
  BY <1>1, <1>2, Zenon
<1> QED BY <1>3 DEF Starts

LEMMA InitHolds == Init => IInv
<1> SUFFICES ASSUME Init PROVE IInv
  OBVIOUS
<1> USE ReplayAssumption
<1>1. MediaInv
  BY FirstInWindow DEF MediaInv
<1>2. ControlTypeOK /\ GateInv
  BY DEF Init, ControlInit, ControlTypeOK, GateInv, GateYields
<1>3. MainTypeOK /\ SourceTypeOK /\ HistoryTypeOK
  <2>1. /\ wasFinished \in BOOLEAN /\ finished \in BOOLEAN /\ failed \in BOOLEAN
        /\ stopEvt \in BOOLEAN /\ interrupted \in BOOLEAN /\ lost \in BOOLEAN
        /\ matched \in BOOLEAN /\ vouched \in BOOLEAN /\ spare \in BOOLEAN
    BY Zenon DEF Init
  <2>2. MainTypeOK
    BY <1>1, <2>1 DEF Init, MediaInv, MainTypeOK, MainPoint
  <2>3. SourceTypeOK
    BY <1>1, <2>1 DEF Init, MediaInv, SourceTypeOK
  <2>4. HistoryTypeOK
    BY <2>1 DEF Init, HistoryTypeOK
  <2> QED BY <2>2, <2>3, <2>4
<1>4. ReaderTypeOK
  <2>1. Span \in Nat
    BY DEF Span
  <2>2. from \in Nat /\ to \in Nat
    BY <2>1 DEF Init
  <2>3. video \in [1..Sessions -> Nat]
    BY DEF Init
  <2>4. faults \in 0..MaxFaults
    <3>1. {s \in 1..Sessions : video[s] # Rows} \subseteq 1..Sessions
      OBVIOUS
    <3>4. 0 \in Int /\ 1 \in Int /\ Sessions \in Int
      OBVIOUS
    <3>5. IsFiniteSet(1..Sessions)
      BY <3>4, FS_Interval, Zenon
    <3>2. IsFiniteSet({s \in 1..Sessions : video[s] # Rows})
      BY <3>1, <3>5, FS_Subset, Zenon
    <3>3. faults \in Nat
      BY <3>2, FS_CardinalityType DEF Init
    <3> QED BY <3>3 DEF Init
  <2>5. frame \in [at : 0..MaxCycles, row : Nat, shot : Nat]
    BY DEF Init, NoFrame
  <2> QED BY <2>2, <2>3, <2>4, <2>5 DEF Init, ReaderTypeOK
<1>5. CycleInv /\ ReaderInv
  BY DEF Init, CycleInv, ReaderInv
<1> QED BY <1>1, <1>2, <1>3, <1>4, <1>5 DEF IInv, TypeOK

-------------------------------------------------------------------------------
(* The steps, one action each.                                             *)
LEMMA StepCases ==
  ASSUME [Next]_vars
  PROVE  \/ UNCHANGED vars
         \/ \E o \in Ops : Request(o)
         \/ ServeRequest \/ Shift \/ Mark \/ Reset \/ Rewind \/ Seek \/ SeekFails
         \/ Halt \/ Null \/ ActivateSession \/ Build \/ BuildFails
         \/ OnEos \/ Finish \/ OnError \/ \E g \in quiesce : Quiesce(g)
         \/ Take \/ Stamp \/ FeederFinishes \/ Hold \/ Pace \/ Deliver
         \/ EndOfStream \/ ReaderFails
         \/ GateThread \/ Stop \/ StopReturns \/ LoopQuits
BY DEF Next, Main, RestartSteps, RebuildSteps, Dispatch, Feeder

(* What a step can do to each of the variables only few actions touch.     *)
LEMMA StepEffects ==
  ASSUME TypeOK, [Next]_vars
  PROVE  /\ UNCHANGED media
         /\ main' \in MainPoint
         /\ op' \in Ops \cup {"none", "loop", "next"}
         /\ wasFinished' \in {wasFinished, finished, FALSE}
         /\ handler' \in {handler, "null", "done"}
         /\ reader' \in {reader, "playing", "paused", "null"}
         /\ readerGen' \in {readerGen, gen + 1}
         /\ pos' \in {pos, pos + 1, 0}
         /\ ended' \in {ended, TRUE, FALSE}
         /\ bus' \subseteq bus \cup {"eos", "error"}
         /\ feeder' \in {"idle", "stamp", "finish", "hold", "pace", "deliver"}
         /\ faults' = faults \/ (faults < MaxFaults /\ faults' = faults + 1)
         /\ lost' = lost \/ lost'
         /\ requests' = requests \/ \E o \in Ops : Request(o)
         /\ frame' = frame \/ Take \/ Stamp \/ Deliver
         /\ next' \in {next, First} \/ OnEos
<1> USE StepCases DEF TypeOK, MainTypeOK, ReaderTypeOK, MainPoint,
        vars, media, mainVars, sourceVars, readerVars, feederVars, history, bounds,
        MainOnly, FeederStays, Request, ServeRequest, Shift, Mark, Reset, Rewind, Seek,
        SeekFails, Halt, Null, ActivateSession, Build, BuildFails, OnEos, Finish, OnError,
        Quiesce, Take, Stamp, FeederFinishes, Hold, Pace, Deliver, EndOfStream,
        ReaderFails, ReaderPosts, GateThread, Stop, StopReturns, LoopQuits, LetGo, Go,
        Done
<1>1. UNCHANGED media
  OBVIOUS
<1>2. main' \in MainPoint
  OBVIOUS
<1>3. op' \in Ops \cup {"none", "loop", "next"}
  OBVIOUS
<1>4. wasFinished' \in {wasFinished, finished, FALSE}
  OBVIOUS
<1>5. handler' \in {handler, "null", "done"}
  OBVIOUS
<1>6. reader' \in {reader, "playing", "paused", "null"}
  OBVIOUS
<1>7. readerGen' \in {readerGen, gen + 1}
  OBVIOUS
<1>8. pos' \in {pos, pos + 1, 0}
  OBVIOUS
<1>9. ended' \in {ended, TRUE, FALSE}
  OBVIOUS
<1>10. bus' \subseteq bus \cup {"eos", "error"}
  OBVIOUS
<1>11. feeder' \in {"idle", "stamp", "finish", "hold", "pace", "deliver"}
  OBVIOUS
<1>12. faults' = faults \/ (faults < MaxFaults /\ faults' = faults + 1)
  OBVIOUS
<1>13. lost' = lost \/ lost'
  OBVIOUS
<1>14. requests' = requests \/ \E o \in Ops : Request(o)
  OBVIOUS
<1>15. frame' = frame \/ Take \/ Stamp \/ Deliver
  OBVIOUS
<1>16. next' \in {next, First} \/ OnEos
  OBVIOUS
<1> HIDE DEF vars, media, mainVars, sourceVars, readerVars, feederVars, history, bounds,
        MainOnly, FeederStays, Request, ServeRequest, Shift, Mark, Reset, Rewind, Seek,
        SeekFails, Halt, Null, ActivateSession, Build, BuildFails, OnEos, Finish, OnError,
        Quiesce, Take, Stamp, FeederFinishes, Hold, Pace, Deliver, EndOfStream,
        ReaderFails, ReaderPosts, GateThread, Stop, StopReturns, LoopQuits, LetGo, Go,
        Done
<1> QED BY <1>1, <1>2, <1>3, <1>4, <1>5, <1>6, <1>7, <1>8, <1>9, <1>10, <1>11, <1>12, <1>13, <1>14, <1>15, <1>16

(* The first session does not move.                                        *)
LEMMA MediaStays ==
  ASSUME TypeOK, MediaInv, [Next]_vars
  PROVE  MediaInv' /\ First' = First
<1>1. UNCHANGED media
  BY StepEffects
<1>2. First' = First
  BY <1>1 DEF First, Position, media
<1> QED BY <1>2 DEF MediaInv

(* What the policy's operators do to its state.                            *)
LEMMA ControlTyped ==
  ASSUME ControlTypeOK,
         \/ UNCHANGED policyVars \/ RefuseRestart \/ TakeRestart \/ TakePreroll \/ MarkFinished
         \/ \E o : Serve(o)
  PROVE  /\ state' \in {"playing", "paused", "finished"}
         /\ loop' \in BOOLEAN /\ pending' \in BOOLEAN /\ preroll' \in BOOLEAN
         /\ refusal' \in BOOLEAN
<1> USE DEF ControlTypeOK
<1>1. CASE UNCHANGED policyVars
  BY <1>1 DEF policyVars
<1>2. CASE RefuseRestart
  BY <1>2, Zenon DEF RefuseRestart
<1>3. CASE TakeRestart
  BY <1>3, Zenon DEF TakeRestart
<1>4. CASE TakePreroll
  BY <1>4, Zenon DEF TakePreroll
<1>5. CASE MarkFinished
  <2>1. CASE UNCHANGED policyVars
    BY <2>1 DEF policyVars
  <2>2. CASE state' = "finished" /\ refusal' = FALSE /\ UNCHANGED <<loop, pending, preroll>>
    BY <2>2, Zenon
  <2> QED BY <1>5, <2>1, <2>2 DEF MarkFinished
<1>6. CASE \E o : Serve(o)
  <2> PICK o : Serve(o)
    BY <1>6
  <2>1. CASE AlreadySo(o)
    BY <2>1 DEF Serve, policyVars
  <2>2. CASE ~AlreadySo(o)
    <3>1. state' \in {"playing", "paused", "finished"}
      BY <2>2 DEF Serve
    <3>2. refusal' = FALSE /\ preroll' = preroll /\ pending' = (pending \/ o = "restart")
          /\ loop' = IF o = "set_loop" THEN ~loop ELSE loop
      BY <2>2, Zenon DEF Serve
    <3>3. (pending \/ o = "restart") \in BOOLEAN /\ (~loop) \in BOOLEAN
      BY Zenon
    <3>4. loop' \in BOOLEAN
      BY <3>2, <3>3, Zenon
    <3> QED BY <3>1, <3>2, <3>3, <3>4, Zenon
  <2> QED BY <2>1, <2>2
<1> QED BY <1>1, <1>2, <1>3, <1>4, <1>5, <1>6

LEMMA GateTyped ==
  ASSUME ControlTypeOK,
         \/ UNCHANGED gateVars \/ CallOffGate \/ CancelGate \/ GateFires \/ GateResumes
  PROVE  armed' \in BOOLEAN /\ touched' \in BOOLEAN /\ gate' \in {"off", "waiting", "resume"}
<1> USE DEF ControlTypeOK
<1>1. CASE UNCHANGED gateVars
  BY <1>1 DEF gateVars
<1>2. CASE CallOffGate
  <2>1. (touched \/ gate = "waiting") \in BOOLEAN
    BY Zenon
  <2> QED BY <1>2, <2>1, Zenon DEF CallOffGate
<1>3. CASE CancelGate \/ GateFires \/ GateResumes
  <2>1. armed' = FALSE /\ touched' = touched /\ gate' \in {gate, "off", "resume"}
    BY <1>3 DEF CancelGate, GateFires, GateResumes
  <2>2. armed' \in BOOLEAN
    BY <2>1, Zenon
  <2> QED BY <2>1, <2>2
<1> QED BY <1>1, <1>2, <1>3

LEMMA ControlStep ==
  ASSUME TypeOK, [Next]_vars
  PROVE  ControlTypeOK'
<1>1. ControlTypeOK
  BY DEF TypeOK
<1>2. \/ UNCHANGED policyVars \/ RefuseRestart \/ TakeRestart \/ TakePreroll \/ MarkFinished
      \/ \E o : Serve(o)
  <2>1. CASE UNCHANGED policyVars
    BY <2>1
  <2>2. CASE ServeRequest \/ Mark \/ BuildFails \/ Finish \/ FeederFinishes
    BY <2>2 DEF ServeRequest, Mark, BuildFails, Finish, FeederFinishes
  <2>3. CASE Hold \/ Pace
    BY <2>3 DEF Hold, Pace, TakeVerdict
  <2>4. CASE GateThread
    BY <2>4 DEF GateThread, GateFires, GateResumes
  <2> QED BY <2>1, <2>2, <2>3, <2>4, StepCases DEF vars, Request, Shift, Reset, Rewind, Seek,
             SeekFails, Halt, Null, ActivateSession, Build, OnEos, OnError, Quiesce, Take, Stamp,
             Deliver, EndOfStream, ReaderFails, ReaderPosts, Stop, StopReturns, LoopQuits
<1>3. UNCHANGED gateVars \/ CallOffGate \/ CancelGate \/ GateFires \/ GateResumes
  BY StepCases DEF vars, MainOnly, FeederStays, Request, ServeRequest, Shift, Mark, Reset,
     Rewind, Seek, SeekFails, Halt, Null, ActivateSession, Build, BuildFails, OnEos, Finish,
     OnError, Quiesce, Take, Stamp, FeederFinishes, Hold, Pace, Deliver, EndOfStream,
     ReaderFails, ReaderPosts, GateThread, Stop, StopReturns, LoopQuits
<1>4. /\ state' \in {"playing", "paused", "finished"}
      /\ loop' \in BOOLEAN /\ pending' \in BOOLEAN /\ preroll' \in BOOLEAN
      /\ refusal' \in BOOLEAN
  BY <1>1, <1>2, ControlTyped
<1>5. armed' \in BOOLEAN /\ touched' \in BOOLEAN /\ gate' \in {"off", "waiting", "resume"}
  BY <1>1, <1>3, GateTyped
<1> QED BY <1>4, <1>5 DEF ControlTypeOK

(* The schedule is called off by the first request that finds it waiting.  *)
LEMMA GateStep ==
  ASSUME TypeOK, GateInv, [Next]_vars
  PROVE  GateInv'
<1>1. CASE UNCHANGED gateVars
  BY <1>1 DEF GateInv, GateYields, gateVars
<1>2. CASE \E o \in Ops : Request(o)
  BY <1>2 DEF Request, CallOffGate, GateInv, GateYields, TypeOK, ControlTypeOK
<1>3. CASE GateThread
  BY <1>3 DEF GateThread, GateFires, GateResumes, GateInv, GateYields
<1>4. CASE Stop
  BY <1>4 DEF Stop, CancelGate, GateInv, GateYields
<1> QED BY <1>1, <1>2, <1>3, <1>4, StepCases DEF vars, MainOnly, FeederStays, ServeRequest, Shift,
           Mark, Reset, Rewind, Seek, SeekFails, Halt, Null, ActivateSession, Build, BuildFails,
           OnEos, Finish, OnError, Quiesce, Take, Stamp, FeederFinishes, Hold, Pace, Deliver,
           EndOfStream, ReaderFails, ReaderPosts, StopReturns, LoopQuits

-------------------------------------------------------------------------------
(* Types.                                                                  *)
LEMMA MainTyped ==
  ASSUME TypeOK, MediaInv, [Next]_vars
  PROVE  MainTypeOK'
<1> USE ReplayAssumption DEF TypeOK, MainTypeOK
<1>1. main' \in MainPoint /\ op' \in Ops \cup {"none", "loop", "next"}
  BY StepEffects
<1>2. next' \in 1..Sessions
  <2>1. CASE OnEos
    BY <2>1 DEF OnEos, NextInWindow, SourceTypeOK
  <2> QED BY <2>1, StepEffects DEF MediaInv
<1>3. wasFinished' \in BOOLEAN
  <2>1. wasFinished' \in {wasFinished, finished, FALSE}
    BY StepEffects
  <2> QED BY <2>1, Zenon DEF SourceTypeOK
<1>4. handler' \in {"off", "null", "done"}
  BY StepEffects
<1>5. requests' \in 0..MaxRequests
  <2>1. CASE \E o \in Ops : Request(o)
    BY <2>1 DEF Request
  <2> QED BY <2>1, StepEffects
<1> QED BY <1>1, <1>2, <1>3, <1>4, <1>5

(* A step that restarts has a cycle to go.                                 *)
LEMMA CycleStep ==
  ASSUME TypeOK, CycleInv, [Next]_vars
  PROVE  CycleInv'
<1> USE DEF CycleInv
<1>1. CASE UNCHANGED <<main, op, cycle>>
  BY <1>1
<1>2. CASE \E o \in Ops : Request(o)
  BY <1>2 DEF Request, Go, sourceVars
<1>3. CASE ServeRequest
  BY <1>3 DEF ServeRequest, Go, Done, sourceVars, Runs
<1>4. CASE OnEos
  BY <1>4 DEF OnEos, Go, TypeOK, MainTypeOK, Runs
<1>5. CASE main' \notin {"locked", "restart"}
  BY <1>5
<1> QED BY <1>1, <1>2, <1>3, <1>4, <1>5, StepCases DEF
     vars, media, mainVars, sourceVars, readerVars, feederVars, history, bounds,
     MainOnly, FeederStays,
     Shift, Mark, Reset, Rewind, Seek, SeekFails, Halt, Null, ActivateSession, Build,
     BuildFails, Finish, OnError, Quiesce, Take, Stamp, FeederFinishes, Hold, Pace,
     Deliver, EndOfStream, ReaderFails, ReaderPosts, GateThread, Stop, StopReturns,
     LoopQuits, LetGo, Go, Done

LEMMA SourceTyped ==
  ASSUME TypeOK, CycleInv, [Next]_vars
  PROVE  SourceTypeOK'
<1> USE ReplayAssumption DEF TypeOK, SourceTypeOK, MainTypeOK
<1>1. CASE UNCHANGED <<sourceVars, quiesce>>
  BY <1>1 DEF sourceVars
<1>2. CASE Take
  BY <1>2 DEF Take, ReaderTypeOK
<1>3. CASE Stamp
  <2>1. finished' \in BOOLEAN
    BY <1>3, Zenon DEF Stamp
  <2>2. failed' \in BOOLEAN
    BY <1>3, Zenon DEF Stamp
  <2> QED BY <1>3, <2>1, <2>2 DEF Stamp
<1>4. CASE FeederFinishes \/ Finish
  <2>1. UNCHANGED <<finished, failed, stopEvt, gen, cycle, idx, session>>
    BY <1>4 DEF FeederFinishes, Finish, FeederStays, sourceVars
  <2>2. quiesce' = quiesce \cup {gen}
    BY <1>4 DEF FeederFinishes, Finish
  <2>3. quiesce' \subseteq 0..gen
    BY <2>2
  <2> QED BY <2>1, <2>3
<1>5. CASE Shift
  BY <1>5 DEF Shift, CycleInv, Runs
<1>6. CASE Reset
  <2>1. finished' \in BOOLEAN /\ failed' \in BOOLEAN
    BY <1>6, Zenon DEF Reset
  <2> QED BY <1>6, <2>1 DEF Reset
<1>7. CASE Rewind
  BY <1>7 DEF Rewind
<1>8. CASE LetGo /\ UNCHANGED <<finished, failed, cycle, idx, session, quiesce>>
  <2>1. stopEvt' \in BOOLEAN
    BY <1>8, Zenon DEF LetGo
  <2> QED BY <1>8, <2>1 DEF LetGo
<1>9. CASE ActivateSession
  <2>1. stopEvt' \in BOOLEAN
    BY <1>9, Zenon DEF ActivateSession
  <2> QED BY <1>9, <2>1 DEF ActivateSession
<1>10. CASE Build
  BY <1>10 DEF Build
<1>11. CASE BuildFails
  <2>1. finished' \in BOOLEAN /\ failed' \in BOOLEAN
    <3>1. (finished \/ op = "loop") \in BOOLEAN /\ (failed \/ op = "loop") \in BOOLEAN
      BY Zenon
    <3> QED BY <1>11, <3>1, Zenon DEF BuildFails
  <2> QED BY <1>11, <2>1 DEF BuildFails
<1>12. CASE OnEos
  <2>1. finished' \in BOOLEAN /\ failed' \in BOOLEAN
    <3>1. CASE UNCHANGED <<failed, finished>>
      BY <3>1
    <3>2. CASE ~UNCHANGED <<failed, finished>>
      <4>1. failed' = (failed \/ ~RowsCounted)
            /\ finished' = (~RowsCounted \/ (~NextInWindow /\ ~loop))
        BY <1>12, <3>2 DEF OnEos
      <4>2. (failed \/ ~RowsCounted) \in BOOLEAN
            /\ (~RowsCounted \/ (~NextInWindow /\ ~loop)) \in BOOLEAN
        BY Zenon
      <4> QED BY <4>1, <4>2, Zenon
    <3> QED BY <3>1, <3>2
  <2> QED BY <1>12, <2>1 DEF OnEos
<1>13. CASE OnError
  <2>1. finished' \in BOOLEAN /\ failed' \in BOOLEAN
    BY <1>13, Zenon DEF OnError
  <2> QED BY <1>13, <2>1 DEF OnError
<1>14. CASE \E g \in quiesce : Quiesce(g)
  BY <1>14 DEF Quiesce, sourceVars
<1> QED BY <1>1, <1>2, <1>3, <1>4, <1>5, <1>6, <1>7, <1>8, <1>9, <1>10, <1>11, <1>12, <1>13,
           <1>14, StepCases DEF vars, MainOnly, FeederStays, Request, ServeRequest, Mark, Seek,
           SeekFails, Halt, Null, Hold, Pace, Deliver, EndOfStream, ReaderFails, ReaderPosts,
           GateThread, Stop, StopReturns, LoopQuits

LEMMA ReaderTyped ==
  ASSUME TypeOK, [Next]_vars
  PROVE  ReaderTypeOK'
<1> USE ReplayAssumption DEF TypeOK, ReaderTypeOK, SourceTypeOK
<1>1. video' \in [1..Sessions -> Nat] /\ from' \in Nat /\ to' \in Nat
  BY StepEffects DEF media
<1>2. /\ reader' \in {"playing", "paused", "null"}
      /\ feeder' \in {"idle", "stamp", "finish", "hold", "pace", "deliver"}
      /\ bus' \subseteq {"eos", "error"}
  BY StepEffects
<1>3. readerGen' \in Nat /\ pos' \in Nat /\ faults' \in 0..MaxFaults
  <2>1. readerGen' \in {readerGen, gen + 1} /\ pos' \in {pos, pos + 1, 0}
    BY StepEffects
  <2>2. faults' = faults \/ (faults < MaxFaults /\ faults' = faults + 1)
    BY StepEffects
  <2> QED BY <2>1, <2>2
<1>4. ended' \in BOOLEAN
  <2>1. ended' \in {ended, TRUE, FALSE}
    BY StepEffects
  <2> QED BY <2>1, Zenon
<1>5. frame' \in [at : 0..MaxCycles, row : Nat, shot : Nat]
  <2>1. CASE Take
    BY <2>1 DEF Take
  <2>2. CASE Stamp
    <3>1. PICK row \in {frame.row, Rows - 1} : frame' = [frame EXCEPT !.at = cycle, !.row = row]
      BY <2>2 DEF Stamp
    <3>2. row \in Nat /\ cycle \in 0..MaxCycles
      BY <3>1
    <3> QED BY <3>1, <3>2
  <2>3. CASE Deliver
    BY <2>3 DEF Deliver, NoFrame
  <2> QED BY <2>1, <2>2, <2>3, StepEffects
<1> QED BY <1>1, <1>2, <1>3, <1>4, <1>5

LEMMA HistoryTyped ==
  ASSUME TypeOK, [Next]_vars
  PROVE  HistoryTypeOK'
<1> USE DEF TypeOK, HistoryTypeOK
<1>1. CASE UNCHANGED history
  BY <1>1 DEF history
<1>2. CASE Deliver
  <2>1. frame.at \in Int /\ frame.row \in Int /\ session \in Int
    BY <1>2 DEF ReaderTypeOK, SourceTypeOK
  <2>2. frame.at * Span + Position(session, frame.row) \in Int
    BY <2>1, ReplayAssumption DEF Span, Position
  <2>3. last' \in Int
    BY <1>2, <2>2 DEF Deliver
  <2>4. (spare /\ ~(Deliverable /\ state = "paused")) \in BOOLEAN
    BY Zenon
  <2> QED BY <1>2, <2>3, <2>4, Zenon DEF Deliver
<1>3. CASE Take
  <2>1. (matched /\ idx = pos) \in BOOLEAN
    BY Zenon
  <2> QED BY <1>3, <2>1, Zenon DEF Take
<1>4. CASE ServeRequest
  <2>1. (preroll \/ feeder = "deliver") \in BOOLEAN
    BY Zenon
  <2>2. spare' \in {TRUE, spare, preroll \/ feeder = "deliver"}
    BY <1>4 DEF ServeRequest
  <2> QED BY <1>4, <2>1, <2>2, Zenon DEF ServeRequest
<1>5. CASE Shift
  <2>1. (interrupted \/ (op = "restart" /\ ~Drained)) \in BOOLEAN
    BY Zenon
  <2> QED BY <1>5, <2>1, Zenon DEF Shift
<1>6. CASE Seek \/ Build \/ BuildFails
  BY <1>6, Zenon DEF Seek, Build, BuildFails
<1>7. CASE OnEos
  <2>1. (vouched /\ (RowsCounted => matched /\ video[session] = Rows)) \in BOOLEAN
    BY Zenon
  <2>2. vouched' \in {vouched, vouched /\ (RowsCounted => matched /\ video[session] = Rows)}
    BY <1>7 DEF OnEos
  <2> QED BY <1>7, <2>1, <2>2, Zenon DEF OnEos
<1> QED BY <1>1, <1>2, <1>3, <1>4, <1>5, <1>6, <1>7, StepCases DEF vars, MainOnly, FeederStays,
           Request, Mark, Reset, Rewind, SeekFails, Halt, Null, ActivateSession, Finish, OnError,
           Quiesce, Stamp, FeederFinishes, Hold, Pace, EndOfStream, ReaderFails, ReaderPosts,
           GateThread, Stop, StopReturns, LoopQuits

-------------------------------------------------------------------------------
(* The reader, by program point of the main thread.                        *)
LEMMA ReaderStep ==
  ASSUME TypeOK, ReaderInv, [Next]_vars
  PROVE  ReaderInv'
<1> SUFFICES ASSUME handler' = "off", ~lost'
             PROVE  ReaderInv'
  BY DEF ReaderInv
<1>1. handler = "off" /\ ~lost
  <2>1. handler' \in {handler, "null", "done"}
    BY StepEffects
  <2>2. lost' = lost \/ lost'
    BY StepEffects
  <2>3. lost' = lost
    BY <2>2
  <2> QED BY <2>1, <2>3
<1> USE DEF ReaderInv, Runs, Go, Done
<1>2. CASE UNCHANGED <<main, wasFinished, readerGen, gen, stopEvt, reader>> /\ (finished => finished')
  BY <1>1, <1>2
<1>3. CASE (\E o \in Ops : Request(o)) \/ ServeRequest
  BY <1>1, <1>3 DEF Request, ServeRequest, sourceVars, readerVars
<1>4. CASE Shift \/ Mark
  BY <1>1, <1>4 DEF Shift, Mark, sourceVars, readerVars
<1>5. CASE Reset
  BY <1>1, <1>5 DEF Reset, readerVars, Seekable, TypeOK, ReaderTypeOK
<1>6. CASE Rewind \/ Seek \/ SeekFails
  BY <1>1, <1>6 DEF Rewind, Seek, SeekFails, sourceVars, readerVars
<1>7. CASE Halt \/ Null \/ ActivateSession
  BY <1>1, <1>7 DEF Halt, Null, ActivateSession, sourceVars, readerVars
<1>8. CASE Build
  BY <1>1, <1>8 DEF Build
<1>9. CASE BuildFails
  BY <1>9 DEF BuildFails
<1>10. CASE OnEos
  BY <1>1, <1>10 DEF OnEos
<1>11. CASE Finish \/ OnError
  BY <1>1, <1>11 DEF Finish, OnError, sourceVars, readerVars, mainVars
<1>12. CASE \E g \in quiesce : Quiesce(g)
  BY <1>1, <1>12 DEF Quiesce, sourceVars, mainVars
<1> QED BY <1>1, <1>2, <1>3, <1>4, <1>5, <1>6, <1>7, <1>8, <1>9, <1>10, <1>11, <1>12, StepCases
        DEF vars, mainVars, sourceVars, readerVars, FeederStays, Take, Stamp, FeederFinishes,
            Hold, Pace, Deliver, EndOfStream, ReaderFails, ReaderPosts, GateThread, Stop,
            StopReturns, LoopQuits

-------------------------------------------------------------------------------
LEMMA Inductive == IInv /\ [Next]_vars => IInv'
BY MediaStays, ControlStep, GateStep, MainTyped, CycleStep, SourceTyped, ReaderTyped,
   HistoryTyped, ReaderStep DEF IInv, TypeOK

THEOREM Invariance == Spec => []IInv
<1>1. Init => IInv
  BY InitHolds
<1>2. IInv /\ [Next]_vars => IInv'
  BY Inductive
<1> QED BY <1>1, <1>2, PTL DEF Spec

(* Every variable keeps its type: the current session is one there is, and *)
(* no quiesce waits for a reader that was never built.                     *)
THEOREM TypeCorrect == Spec => []TypeOK
<1>1. IInv => TypeOK
  BY DEF IInv
<1> QED BY <1>1, Invariance, PTL

(* A request outranks a start gate that has not made its checks yet.       *)
THEOREM OperatorOutranksGate == Spec => []GateYields
<1>1. IInv => GateYields
  BY DEF IInv, GateInv
<1> QED BY <1>1, Invariance, PTL

(* No late quiesce, end of stream or tear-down leaves a playback that is   *)
(* neither finished nor lost without a running, listened-to reader.        *)
THEOREM PlayingIsReading == Spec => []PlayingMeansReading
<1>1. IInv => PlayingMeansReading
  BY DEF IInv, TypeOK, ReaderTypeOK, ReaderInv, PlayingMeansReading
<1> QED BY <1>1, Invariance, PTL

(* Neither the main loop nor the timer does to a reader or a request what  *)
(* was meant for an earlier one.                                           *)
THEOREM NothingStrikesLate == Spec => []NothingLateStrikes
<1>1. PlayingMeansReading /\ GateYields => NothingLateStrikes
  BY DEF NothingLateStrikes
<1> QED BY <1>1, PlayingIsReading, OperatorOutranksGate, PTL
-------------------------------------------------------------------------------
(* What comes out.  The invariants below tell, for each point of the main  *)
(* thread, which frames the feeder may still have in its hands.            *)

AtWork == {"mark", "reset", "rewind", "seek", "halt", "null", "clear", "build"}
Rewinding == {"restart", "mark", "reset"}

\* Position in the session played now, and what the cycle's stamps start from.
Here(row) == Position(session, row)
Base == cycle * Span

\* The window is not empty, and begins in the first session of a cycle.
WindowInv ==
  /\ from < to /\ to <= Span
  /\ Position(First, 0) <= from /\ from <= Position(First, Rows - 1)

FrameInv ==
  /\ frame.at <= cycle
  /\ feeder \notin {"idle", "stamp"} => frame.row < Rows
  /\ main \in {"clear", "build"} => reader = "null" /\ feeder = "idle"
  /\ failed => finished

\* A preview still to be shown is the first frame of the window.
AtStart == feeder \in {"stamp", "hold"} /\ Here(frame.row) = from

PrerollInv == preroll =>
  /\ session = First
  /\ Here(idx) <= from + 1
  /\ next # First \/ Here(idx) = from + 1 => AtStart
  /\ feeder \in {"idle", "stamp", "hold", "deliver"}
  /\ feeder = "stamp" => Here(frame.row) <= from
  /\ feeder = "deliver" => Here(frame.row) < from

\* A frame of this cycle, inside the window.
InTime == frame.at = cycle /\ Here(frame.row) >= from /\ Here(frame.row) < to

PauseInv ==
  /\ pending => main \in {"restart", "mark"}
  /\ state = "paused" =>
       /\ preroll \/ (pending /\ feeder = "pace") => spare
       /\ failed /\ main \in Rewinding => spare \/ feeder = "finish"
       /\ feeder = "deliver" /\ InTime => spare \/ failed \/ stopEvt

OpInv ==
  /\ op = "next" => /\ main \in {"halt", "null", "clear", "build"}
                    /\ main # "build" => next = session + 1
  /\ main \in {"restart", "mark", "reset", "rewind", "seek"} => op \in {"restart", "loop"}

\* A reader at its end stays there until it is rewound or rebuilt.
CalmInv == ~interrupted =>
  /\ main \in AtWork \/ (main = "restart" /\ op = "loop") => Drained
  /\ "eos" \in bus => ended /\ feeder = "idle"

\* What is still to come is later than what went out.
LastInv == ~interrupted =>
  /\ last < Base + Here(idx) /\ last < Base + Here(Rows)
  /\ main \in AtWork /\ op # "next" => last < Base
  /\ feeder # "idle" =>
       /\ frame.row < idx
       /\ (feeder # "stamp" /\ failed) \/ last < Base + Here(frame.row)
  /\ feeder \notin {"idle", "stamp"} => frame.at = cycle

DeliveryInv ==
  WindowInv /\ FrameInv /\ PrerollInv /\ PauseInv /\ OpInv /\ CalmInv /\ LastInv

(* The timeline's arithmetic.                                              *)
LEMMA Timeline ==
  /\ Span \in Nat
  /\ \A s \in 1..Sessions : Position(s, 0) \in Nat /\ Position(s, Rows) <= Span
  /\ \A s \in Int : \A r \in Int : Position(s, 0) \in Int /\ Position(s, r) = Position(s, 0) + r
  /\ \A s \in Int : Position(s + 1, 0) = Position(s, Rows)
  /\ \A c \in Nat : c * Span \in Nat /\ (c + 1) * Span = c * Span + Span
<1> USE ReplayAssumption
<1>1. Span \in Nat
  BY DEF Span
<1>2. \A s \in 1..Sessions : Position(s, 0) \in Nat /\ Position(s, Rows) <= Span
  <2> TAKE s \in 1..Sessions
  <2>1. (s - 1) * Rows \in Nat
    OBVIOUS
  <2>2. s * Rows <= Sessions * Rows
    OBVIOUS
  <2>3. (s - 1) * Rows + Rows = s * Rows
    OBVIOUS
  <2> QED BY <2>1, <2>2, <2>3 DEF Position, Span
<1>3. \A s \in Int : \A r \in Int : Position(s, 0) \in Int /\ Position(s, r) = Position(s, 0) + r
  <2> TAKE s \in Int
  <2>1. (s - 1) * Rows \in Int
    OBVIOUS
  <2> QED BY <2>1 DEF Position
<1>4. \A s \in Int : Position(s + 1, 0) = Position(s, Rows)
  BY DEF Position
<1>5. \A c \in Nat : c * Span \in Nat /\ (c + 1) * Span = c * Span + Span
  BY <1>1
<1> QED BY <1>1, <1>2, <1>3, <1>4, <1>5

(* Only a frame of the present cycle lies in the window.                   *)
LEMMA InWindowInTime ==
  ASSUME TypeOK, WindowInv, frame.at <= cycle, frame.row < Rows, InWindow(frame)
  PROVE  InTime
<1> USE ReplayAssumption
<1>1. session \in 1..Sessions /\ cycle \in Nat /\ frame.at \in Nat /\ frame.row \in Nat
      /\ from \in Nat /\ to \in Nat
  BY DEF TypeOK, SourceTypeOK, ReaderTypeOK
<1>2. Here(frame.row) < Span /\ Here(frame.row) \in Int /\ Span \in Nat
  <2>1. Position(session, frame.row) = Position(session, 0) + frame.row
        /\ Position(session, Rows) = Position(session, 0) + Rows
        /\ Position(session, 0) \in Nat /\ Position(session, Rows) <= Span /\ Span \in Nat
    <3>1. session \in Int /\ Rows \in Int /\ frame.row \in Int
      BY <1>1
    <3>2. Position(session, 0) \in Nat /\ Position(session, Rows) <= Span /\ Span \in Nat
      BY <1>1, Timeline, Zenon
    <3>3. /\ Position(session, frame.row) = Position(session, 0) + frame.row
          /\ Position(session, Rows) = Position(session, 0) + Rows
      BY <3>1, Timeline, Zenon
    <3> QED BY <3>2, <3>3
  <2> QED BY <1>1, <2>1 DEF Here
<1>3. Raw(frame) >= from /\ Raw(frame) < to /\ Raw(frame) = Here(frame.row) + (frame.at - cycle) * Span
  BY DEF InWindow, Raw, Here
<1>4. frame.at = cycle
  <2> SUFFICES ASSUME frame.at < cycle PROVE FALSE
    BY <1>1
  <2>1. PICK d \in Nat : cycle - frame.at = d + 1
    BY <1>1
  <2>2. (frame.at - cycle) * Span = -(d * Span) - Span
    <3>1. frame.at - cycle = -(d + 1)
      BY <1>1, <2>1
    <3> QED BY <1>2, <3>1
  <2>3. d * Span \in Nat
    BY <1>2
  <2> QED BY <1>1, <1>2, <1>3, <2>2, <2>3
<1>5. (frame.at - cycle) * Span = 0
  BY <1>1, <1>2, <1>4
<1> QED BY <1>1, <1>2, <1>3, <1>4, <1>5 DEF InTime

LEMMA HereIs ==
  ASSUME session \in 1..Sessions
  PROVE  /\ Here(0) \in Nat /\ Here(Rows) <= Span /\ Span \in Nat
         /\ \A r \in Int : Here(r) = Here(0) + r
<1>1. session \in Int
  BY ReplayAssumption
<1>2. \A r \in Int : Here(r) = Here(0) + r
  BY <1>1, Timeline, Zenon DEF Here
<1>3. Here(0) \in Nat /\ Here(Rows) <= Span /\ Span \in Nat
  BY Timeline, Zenon DEF Here
<1> QED BY <1>2, <1>3

LEMMA InitDelivery == Init => DeliveryInv
<1> SUFFICES ASSUME Init PROVE DeliveryInv
  OBVIOUS
<1> USE ReplayAssumption
<1>1. First \in 1..Sessions /\ session = First /\ First \in Int
  <2>1. First \in 1..Sessions
    BY FirstInWindow
  <2> QED BY <2>1 DEF Init
<1>2. Span \in Nat /\ Position(First, 0) \in Nat /\ Position(First, Rows - 1) = Position(First, 0) + Rows - 1
  <2>1. Rows - 1 \in Int /\ Rows \in Int
    OBVIOUS
  <2>2. Position(First, Rows - 1) = Position(First, 0) + (Rows - 1)
    BY <1>1, <2>1, Timeline, Zenon
  <2>3. Span \in Nat /\ Position(First, 0) \in Nat
    BY <1>1, Timeline, Zenon
  <2> QED BY <2>1, <2>2, <2>3
<1>3. from \in {0, 1} /\ to = Span - from /\ from < to
  BY DEF Init
<1>4. Position(First, Rows - 1) >= from /\ \A t \in 1..(First - 1) : Position(t, Rows - 1) < from
  BY FirstInWindow
<1>5. Position(First, 0) <= from
  <2>1. CASE First = 1
    BY <2>1, <1>3 DEF Position
  <2>2. CASE First # 1
    <3>1. First - 1 \in 1..(First - 1) /\ First - 1 \in Int /\ Rows \in Int /\ Rows - 1 \in Int
      BY <1>1, <2>2
    <3>2. Position(First - 1, Rows - 1) < from
      BY <3>1, <1>4
    <3>3. Position(First - 1 + 1, 0) = Position(First - 1, Rows)
      BY <3>1, Timeline, Zenon
    <3>4. /\ Position(First - 1, Rows) = Position(First - 1, 0) + Rows
          /\ Position(First - 1, Rows - 1) = Position(First - 1, 0) + (Rows - 1)
          /\ Position(First - 1, 0) \in Int
      BY <3>1, Timeline, Zenon
    <3>5. First - 1 + 1 = First
      BY <1>1
    <3> QED BY <3>1, <3>2, <3>3, <3>4, <3>5, <1>2, <1>3
  <2> QED BY <2>1, <2>2
<1>6. WindowInv
  BY <1>2, <1>3, <1>4, <1>5 DEF WindowInv
<1>7. FrameInv /\ OpInv /\ CalmInv
  BY DEF Init, FrameInv, OpInv, CalmInv, NoFrame, AtWork
<1>8. PrerollInv
  BY <1>1, <1>2, <1>3, <1>5 DEF Init, PrerollInv, Here
<1>9. PauseInv
  BY DEF Init, ControlInit, PauseInv, Rewinding
<1>10. LastInv
  <2>1. Here(0) \in Nat /\ Here(Rows) = Here(0) + Rows
    BY <1>1, HereIs
  <2>2. Base = 0 /\ idx = 0 /\ last = -1 /\ main = "idle" /\ feeder = "idle"
    BY <1>2 DEF Init, Base
  <2> QED BY <2>1, <2>2 DEF LastInv, AtWork
<1> QED BY <1>6, <1>7, <1>8, <1>9, <1>10 DEF DeliveryInv

LEMMA WindowStep ==
  ASSUME TypeOK, MediaInv, WindowInv, [Next]_vars
  PROVE  WindowInv'
<1>1. First' = First /\ UNCHANGED media
  BY MediaStays, StepEffects
<1> QED BY <1>1 DEF WindowInv, media, Position, Span

LEMMA FrameStep ==
  ASSUME TypeOK, FrameInv, [Next]_vars
  PROVE  FrameInv'
<1> USE ReplayAssumption DEF FrameInv, TypeOK
<1>2. CASE Take
  BY <1>2 DEF Take, SourceTypeOK, mainVars
<1>3. CASE Stamp
  <2>1. PICK row \in {frame.row, Rows - 1} :
          /\ frame' = [frame EXCEPT !.at = cycle, !.row = row] /\ row < Rows
    <3> DEFINE known == frame.row < Rows
               f == [frame EXCEPT !.at = cycle, !.row = IF known THEN frame.row ELSE Rows - 1]
    <3>1. frame' = f
      BY <1>3 DEF Stamp
    <3>2. CASE known
      BY <3>1, <3>2
    <3>3. CASE ~known
      <4>1. frame' = [frame EXCEPT !.at = cycle, !.row = Rows - 1]
        BY <3>1, <3>3
      <4> QED BY <4>1
    <3> QED BY <3>2, <3>3
  <2>2. frame'.at = cycle /\ frame'.row = row
    BY <2>1 DEF ReaderTypeOK
  <2>3. cycle' = cycle /\ main' = main /\ main \notin {"clear", "build"} /\ reader' = reader
    BY <1>3 DEF Stamp, mainVars, readerVars
  <2>4. failed' => finished'
    BY <1>3 DEF Stamp
  <2> QED BY <2>1, <2>2, <2>3, <2>4 DEF SourceTypeOK
<1>4. CASE FeederFinishes \/ Hold \/ Pace
  BY <1>4 DEF FeederFinishes, Hold, Pace, FeederStays, mainVars, sourceVars, readerVars
<1>5. CASE Deliver
  BY <1>5 DEF Deliver, NoFrame, SourceTypeOK, mainVars, sourceVars, readerVars
<1>6. CASE Shift
  BY <1>6 DEF Shift, MainOnly, Go, feederVars, readerVars, ReaderTypeOK, SourceTypeOK
<1>7. CASE OnEos
  BY <1>7 DEF OnEos, MainOnly, Go, feederVars, Runs
<1>8. CASE \E o \in Ops : Request(o)
  BY <1>8 DEF Request, Go, feederVars, sourceVars, Runs
<1>9. CASE OnError \/ (\E g \in quiesce : Quiesce(g))
  BY <1>9 DEF OnError, Quiesce, MainOnly, feederVars, mainVars, sourceVars, Runs
<1>10. CASE ServeRequest \/ Mark \/ Reset \/ Rewind \/ Seek \/ SeekFails \/ Finish
  <2>1. CASE ServeRequest
    BY <2>1 DEF ServeRequest, MainOnly, feederVars, sourceVars, readerVars, Go, Done, Runs
  <2>2. CASE Mark
    BY <2>2 DEF Mark, MainOnly, feederVars, sourceVars, readerVars, Go, Done, Runs
  <2>3. CASE Reset
    BY <2>3 DEF Reset, MainOnly, feederVars, sourceVars, readerVars, Go, Done, Runs
  <2>4. CASE Rewind
    BY <2>4 DEF Rewind, MainOnly, feederVars, sourceVars, readerVars, Go, Done, Runs
  <2>5. CASE Seek
    BY <2>5 DEF Seek, MainOnly, feederVars, sourceVars, readerVars, Go, Done, Runs
  <2>6. CASE SeekFails
    BY <2>6 DEF SeekFails, MainOnly, feederVars, sourceVars, readerVars, Go, Done, Runs
  <2>7. CASE Finish
    BY <2>7 DEF Finish, MainOnly, feederVars, sourceVars, readerVars, Go, Done, Runs
  <2> QED BY <1>10, <2>1, <2>2, <2>3, <2>4, <2>5, <2>6, <2>7
<1>11. CASE Halt \/ Null \/ ActivateSession \/ Build \/ BuildFails
  <2>1. CASE Halt
    BY <2>1 DEF Halt, MainOnly, feederVars, sourceVars, readerVars, Go, Done, Runs
  <2>2. CASE Null
    BY <2>2 DEF Null, MainOnly, feederVars, sourceVars, readerVars, Go, Done, Runs
  <2>3. CASE ActivateSession
    BY <2>3 DEF ActivateSession, MainOnly, feederVars, sourceVars, readerVars, Go, Done, Runs
  <2>4. CASE Build
    BY <2>4 DEF Build, MainOnly, feederVars, sourceVars, readerVars, Go, Done, Runs
  <2>5. CASE BuildFails
    BY <2>5 DEF BuildFails, MainOnly, feederVars, sourceVars, readerVars, Go, Done, Runs
  <2> QED BY <1>11, <2>1, <2>2, <2>3, <2>4, <2>5
<1>12. CASE EndOfStream \/ ReaderFails \/ GateThread \/ Stop \/ StopReturns \/ LoopQuits
  BY <1>12 DEF EndOfStream, ReaderFails, ReaderPosts, GateThread, Stop, StopReturns, LoopQuits,
     mainVars, feederVars, sourceVars, readerVars
<1>13. CASE UNCHANGED vars
  BY <1>13 DEF vars, mainVars, feederVars, sourceVars, readerVars
<1> QED BY <1>2, <1>3, <1>4, <1>5, <1>6, <1>7, <1>8, <1>9, <1>10, <1>11, <1>12, <1>13, StepCases

LEMMA OpStep ==
  ASSUME TypeOK, OpInv, [Next]_vars
  PROVE  OpInv'
<1> USE DEF OpInv, Runs, Go, Done
<1>1. CASE UNCHANGED <<op, main, next, session>>
  BY <1>1
<1>2. CASE \E o \in Ops : Request(o)
  BY <1>2 DEF Request, sourceVars, Ops
<1>3. CASE ServeRequest \/ OnEos
  BY <1>3 DEF ServeRequest, OnEos
<1>4. CASE Halt \/ Null \/ ActivateSession
  BY <1>4 DEF Halt, Null, ActivateSession, sourceVars
<1> QED BY <1>1, <1>2, <1>3, <1>4, StepCases DEF
     vars, mainVars, sourceVars, MainOnly, FeederStays,
     Shift, Mark, Reset, Rewind, Seek, SeekFails, Build, BuildFails, Finish, OnError, Quiesce,
     Take, Stamp, FeederFinishes, Hold, Pace, Deliver, EndOfStream, ReaderFails, ReaderPosts,
     GateThread, Stop, StopReturns, LoopQuits

(* The preview is shown once.                                              *)
LEMMA PrerollFalls ==
  ASSUME [Next]_vars
  PROVE  preroll' = preroll \/ (preroll' = FALSE /\ Hold)
<1>1. CASE ServeRequest \/ GateThread
  BY <1>1 DEF ServeRequest, GateThread, GateFires, GateResumes, Serve, policyVars
<1>2. CASE Mark \/ BuildFails \/ Finish \/ FeederFinishes \/ Pace
  BY <1>2 DEF Mark, BuildFails, Finish, FeederFinishes, Pace, TakeVerdict, TakeRestart,
     RefuseRestart, MarkFinished, policyVars
<1>3. CASE Hold
  BY <1>3 DEF Hold, TakeVerdict, TakePreroll, TakeRestart, policyVars
<1> QED BY <1>1, <1>2, <1>3, StepCases DEF vars, policyVars, Request, Shift, Reset, Rewind, Seek,
           SeekFails, Halt, Null, ActivateSession, Build, OnEos, OnError, Quiesce, Take, Stamp,
           Deliver, EndOfStream, ReaderFails, ReaderPosts, Stop, StopReturns, LoopQuits

LEMMA PrerollStep ==
  ASSUME TypeOK, MediaInv, WindowInv, FrameInv, PrerollInv, [Next]_vars
  PROVE  PrerollInv'
<1> SUFFICES ASSUME preroll' PROVE PrerollInv'
  BY DEF PrerollInv
<1> USE ReplayAssumption
<1>1. First' = First /\ UNCHANGED media
  BY MediaStays, StepEffects
<1>2. preroll /\ ~Hold
  <2>1. ~Hold
    BY DEF Hold, TakePreroll, TakeVerdict, TakeRestart, PrerollInv, policyVars
  <2> QED BY <2>1, PrerollFalls
<1>3. /\ session \in 1..Sessions /\ idx \in Nat /\ frame.row \in Nat /\ from \in Nat /\ to \in Nat
      /\ cycle \in Nat /\ Rows \in Int /\ Rows - 1 \in Int /\ idx + 1 \in Int
  BY DEF TypeOK, SourceTypeOK, ReaderTypeOK
<1>4. /\ Here(0) \in Nat /\ Span \in Nat
      /\ \A r \in Int : Here(r) = Here(0) + r
  BY <1>3, HereIs
<1>5. Here(0) <= from /\ from < to /\ from <= Here(Rows - 1)
  BY <1>2 DEF WindowInv, PrerollInv, Here
<1>6. CASE UNCHANGED <<feeder, frame, idx, session, from>> /\ next' \in {next, First}
  BY <1>1, <1>2, <1>6 DEF PrerollInv, Here, AtStart, Position
<1>7. CASE Take
  <2>1. feeder = "idle" /\ next = First /\ Here(idx) <= from
    BY <1>2, <1>3, <1>4, <1>7 DEF Take, PrerollInv, AtStart
  <2>2. feeder' = "stamp" /\ frame'.row = idx /\ idx' = idx + 1 /\ session' = session /\ next' = next
        /\ from' = from
    BY <1>7 DEF Take, mainVars, media
  <2>3. Here(idx + 1) = Here(idx) + 1 /\ Here(idx) \in Int
    BY <1>3, <1>4
  <2>4. Here(idx)' = Here(idx + 1) /\ Here(frame.row)' = Here(idx)
    BY <2>2 DEF Here, Position
  <2> QED BY <1>1, <1>2, <1>3, <2>1, <2>2, <2>3, <2>4 DEF PrerollInv, AtStart
<1>8. CASE Stamp
  <2> DEFINE known == frame.row < Rows
             f == [frame EXCEPT !.at = cycle, !.row = IF known THEN frame.row ELSE Rows - 1]
  <2>1. feeder = "stamp" /\ Here(frame.row) <= from
    BY <1>2, <1>8 DEF Stamp, PrerollInv
  <2>2. known
    BY <1>3, <1>4, <1>5, <2>1
  <2>3. f.row = frame.row /\ f.at = cycle
    BY <2>2 DEF TypeOK, ReaderTypeOK
  <2>4. Raw(f) = Here(frame.row)
    <3>1. (cycle - cycle) * Span = 0 /\ Here(frame.row) \in Int
      BY <1>3, <1>4
    <3> QED BY <2>3, <3>1 DEF Raw, Here
  <2>5. InWindow(f) <=> Here(frame.row) >= from /\ Here(frame.row) < to
    BY <2>4 DEF InWindow
  <2>6. ~(Raw(f) >= to)
    BY <1>3, <1>4, <1>5, <2>1, <2>4
  <2>7. frame' = f /\ feeder' = IF InWindow(f) THEN "hold" ELSE "deliver"
    BY <1>8, <2>2, <2>6 DEF Stamp
  <2>8. UNCHANGED <<idx, session, next, from>>
    BY <1>8 DEF Stamp, mainVars, media
  <2>9. Here(frame.row)' = Here(frame.row) /\ Here(idx)' = Here(idx)
    BY <2>3, <2>7, <2>8 DEF Here, Position
  <2>10. CASE Here(frame.row) = from
    BY <1>1, <1>2, <1>5, <2>5, <2>7, <2>8, <2>9, <2>10, <1>3 DEF PrerollInv, AtStart
  <2>11. CASE Here(frame.row) < from
    BY <1>1, <1>2, <1>3, <1>4, <2>5, <2>7, <2>8, <2>9, <2>11 DEF PrerollInv, AtStart
  <2> QED BY <1>3, <1>4, <2>1, <2>10, <2>11
<1>9. CASE FeederFinishes \/ Pace
  BY <1>2, <1>9 DEF FeederFinishes, Pace, PrerollInv
<1>10. CASE Deliver
  BY <1>1, <1>2, <1>10 DEF Deliver, PrerollInv, AtStart, mainVars, sourceVars, media, Here, Position
<1>11. CASE Rewind
  <2>1. UNCHANGED <<feeder, frame, session, next, from>> /\ idx' = 0
    BY <1>11 DEF Rewind, MainOnly, feederVars, media
  <2>2. Here(idx)' = Here(0) /\ Here(frame.row)' = Here(frame.row)
    BY <2>1 DEF Here, Position
  <2> QED BY <1>1, <1>2, <1>3, <1>4, <1>5, <2>1, <2>2 DEF PrerollInv, AtStart
<1>12. CASE ActivateSession
  <2>1. feeder = "idle" /\ next = First
    BY <1>2, <1>12 DEF ActivateSession, Runs, FrameInv, PrerollInv, AtStart
  <2>2. UNCHANGED <<feeder, frame, next, from>> /\ idx' = 0 /\ session' = First
    BY <1>12, <2>1 DEF ActivateSession, MainOnly, feederVars, media
  <2>3. Here(idx)' = Here(0)
    BY <1>2, <2>2 DEF Here, Position, PrerollInv
  <2> QED BY <1>1, <1>3, <1>4, <1>5, <2>1, <2>2, <2>3 DEF PrerollInv
<1>13. CASE OnEos
  <2>1. UNCHANGED <<feeder, frame, session, idx, from>>
    BY <1>13 DEF OnEos, MainOnly, feederVars, media
  <2>2. next' = next \/ idx = Rows
    BY <1>13 DEF OnEos, RowsCounted
  <2>3. idx = Rows => AtStart
    <3> SUFFICES ASSUME idx = Rows PROVE Here(idx) = from + 1
      BY <1>2 DEF PrerollInv
    <3>1. Here(Rows) = Here(Rows - 1) + 1 /\ Here(Rows) \in Int
      BY <1>3, <1>4
    <3> QED BY <1>2, <1>3, <1>4, <1>5, <3>1 DEF PrerollInv
  <2> QED BY <1>1, <1>2, <2>1, <2>2, <2>3 DEF PrerollInv, AtStart, Here, Position
<1>14. CASE ServeRequest \/ (\E o \in Ops : Request(o)) \/ Shift \/ Mark \/ Reset \/ Seek \/ SeekFails
  BY <1>1, <1>6, <1>14 DEF ServeRequest, Request, Shift, Mark, Reset, Seek, SeekFails, MainOnly,
     media, feederVars, sourceVars, Done
<1>15. CASE Halt \/ Null \/ Build \/ BuildFails \/ Finish \/ OnError \/ (\E g \in quiesce : Quiesce(g))
  BY <1>1, <1>6, <1>15 DEF Halt, Null, Build, BuildFails, Finish, OnError, Quiesce, MainOnly,
     media, feederVars, sourceVars, mainVars, Done
<1> QED BY <1>1, <1>2, <1>6, <1>7, <1>8, <1>9, <1>10, <1>11, <1>12, <1>13, <1>14, <1>15, StepCases DEF
     vars, media, mainVars, sourceVars, feederVars, EndOfStream, ReaderFails, ReaderPosts,
     GateThread, Stop, StopReturns, LoopQuits

(* Deliver gives a frame out only if it lies in this cycle's window.       *)
LEMMA DeliverableInTime ==
  ASSUME TypeOK, WindowInv, FrameInv, Deliver, Deliverable
  PROVE  InTime
<1>1. frame.at <= cycle /\ frame.row < Rows
  BY DEF FrameInv, Deliver
<1> QED BY <1>1, InWindowInTime DEF Deliverable

LEMMA PendingStep ==
  ASSUME pending => main \in {"restart", "mark"}, [Next]_vars
  PROVE  pending' => main' \in {"restart", "mark"}
<1> USE DEF Runs, Go, Done
<1>1. CASE ServeRequest
  BY <1>1 DEF ServeRequest, Serve, policyVars
<1>2. CASE Mark \/ BuildFails
  BY <1>2 DEF Mark, BuildFails, TakeRestart, RefuseRestart, policyVars
<1>3. CASE Finish \/ FeederFinishes
  BY <1>3 DEF Finish, FeederFinishes, MarkFinished, FeederStays, policyVars, mainVars
<1>4. CASE Hold \/ Pace
  BY <1>4 DEF Hold, Pace, TakeVerdict, TakeRestart, TakePreroll, FeederStays, policyVars, mainVars
<1>5. CASE GateThread
  BY <1>5 DEF GateThread, GateFires, GateResumes, Serve, policyVars, mainVars
<1> QED BY <1>1, <1>2, <1>3, <1>4, <1>5, StepCases DEF vars, policyVars, mainVars, Request, Shift,
           Reset, Rewind, Seek, SeekFails, Halt, Null, ActivateSession, Build, OnEos, OnError,
           Quiesce, Take, Stamp, Deliver, EndOfStream, ReaderFails, ReaderPosts, Stop,
           StopReturns, LoopQuits

(* A pause comes from a request, and from nowhere else.                    *)
LEMMA PausedBefore ==
  ASSUME TypeOK, [Next]_vars, state' = "paused"
  PROVE  state = "paused" \/ (ServeRequest /\ op = "pause" /\ state = "playing")
<1>1. CASE ServeRequest
  BY <1>1 DEF ServeRequest, Serve, AlreadySo, policyVars, TypeOK, ControlTypeOK
<1>2. CASE Mark \/ BuildFails \/ Finish \/ FeederFinishes \/ Hold \/ Pace
  BY <1>2 DEF Mark, BuildFails, Finish, FeederFinishes, Hold, Pace, TakeVerdict, TakeRestart,
     TakePreroll, RefuseRestart, MarkFinished, policyVars
<1>3. CASE GateThread
  BY <1>3 DEF GateThread, GateFires, GateResumes, Serve, policyVars
<1> QED BY <1>1, <1>2, <1>3, StepCases DEF vars, policyVars, Request, Shift,
           Reset, Rewind, Seek, SeekFails, Halt, Null, ActivateSession, Build, OnEos, OnError,
           Quiesce, Take, Stamp, Deliver, EndOfStream, ReaderFails, ReaderPosts, Stop,
           StopReturns, LoopQuits

LEMMA PauseStep ==
  ASSUME TypeOK, WindowInv, FrameInv, PrerollInv, PauseInv, [Next]_vars
  PROVE  PauseInv'
<1> DEFINE Held == /\ preroll \/ (pending /\ feeder = "pace") => spare
                   /\ failed /\ main \in Rewinding => spare \/ feeder = "finish"
                   /\ feeder = "deliver" /\ InTime => spare \/ failed \/ stopEvt
<1> SUFFICES ASSUME state' = "paused" PROVE Held'
  BY PendingStep DEF PauseInv
<1> USE ReplayAssumption DEF Rewinding
<1>1. state = "paused" \/ (ServeRequest /\ op = "pause" /\ state = "playing")
  BY PausedBefore
<1>2. state = "paused" => Held
  BY DEF PauseInv
<1>3. CASE ServeRequest
  <2>1. UNCHANGED <<preroll, feeder, frame, session, cycle, from, to, failed, stopEvt>>
    BY <1>3 DEF ServeRequest, Serve, policyVars, feederVars, sourceVars, media
  <2>2. InTime' = InTime
    BY <2>1 DEF InTime, Here, Position
  <2>3. CASE op = "restart"
    BY <1>3, <2>3 DEF ServeRequest
  <2>4. CASE op = "pause" /\ state = "playing"
    BY <1>3, <2>1, <2>4 DEF ServeRequest, PauseInv, Runs, Go, Done, Serve, policyVars
  <2>5. CASE op # "restart" /\ state = "paused"
    BY <1>2, <1>3, <2>1, <2>2, <2>5 DEF ServeRequest, PauseInv, Runs, Go, Done, Serve, policyVars
  <2> QED BY <1>1, <2>3, <2>4, <2>5
<1>4. (state = "paused" /\ Held) \/ ServeRequest
  BY <1>1, <1>2
<1>5. CASE UNCHANGED <<preroll, feeder, frame, session, cycle, from, to, spare>> /\ (pending' => pending)
           /\ (main' \in Rewinding /\ failed' => main \in Rewinding /\ failed)
           /\ (failed => failed') /\ (stopEvt => stopEvt')
  <2>1. InTime' = InTime
    BY <1>5 DEF InTime, Here, Position
  <2> QED BY <1>3, <1>4, <1>5, <2>1
<1>6. CASE Take
  BY <1>3, <1>4, <1>6 DEF Take, policyVars, mainVars
<1>7. CASE Stamp
  <2> DEFINE known == frame.row < Rows
             f == [frame EXCEPT !.at = cycle, !.row = IF known THEN frame.row ELSE Rows - 1]
  <2>1. feeder = "stamp" /\ frame' = f /\ failed' = (failed \/ ~known)
    BY <1>7 DEF Stamp
  <2>2. UNCHANGED <<preroll, pending, main, session, cycle, from, to, spare, stopEvt>>
    BY <1>7 DEF Stamp, policyVars, mainVars, media, history
  <2>3. feeder' # "pace" /\ (feeder' = "deliver" /\ ~failed' => ~InWindow(f))
        /\ (~failed /\ failed' => feeder' = "finish")
    BY <1>7 DEF Stamp
  <2>4. known => Raw(f) = Here(frame.row)'
    <3> SUFFICES ASSUME known PROVE Raw(f) = Here(frame.row)'
      OBVIOUS
    <3>1. f.row = frame.row /\ f.at = cycle
      BY DEF TypeOK, ReaderTypeOK
    <3>2. session \in 1..Sessions /\ frame.row \in Int /\ cycle \in Nat
      BY DEF TypeOK, SourceTypeOK, ReaderTypeOK
    <3>3. (cycle - cycle) * Span = 0 /\ Here(frame.row) \in Int
      BY <3>2, HereIs
    <3>4. Here(frame.row)' = Here(frame.row)
      BY <2>1, <2>2, <3>1 DEF Here, Position
    <3> QED BY <3>1, <3>3, <3>4 DEF Raw, Here
  <2>5. known /\ InTime' => InWindow(f)
    BY <2>2, <2>4 DEF InTime, InWindow
  <2> QED BY <1>3, <1>4, <2>1, <2>2, <2>3, <2>5
<1>8. CASE FeederFinishes \/ Finish
  BY <1>8 DEF FeederFinishes, Finish, MarkFinished, policyVars
<1>9. CASE Hold
  <2>1. UNCHANGED <<main, frame, session, cycle, from, to, spare, failed, stopEvt>> /\ feeder = "hold"
    BY <1>9 DEF Hold, FeederStays, mainVars, sourceVars, media, history
  <2>2. CASE preroll
    <3>1. preroll' = FALSE /\ feeder' = "deliver"
      BY <1>9, <2>2 DEF Hold, TakePreroll
    <3> QED BY <1>3, <1>4, <2>1, <2>2, <3>1
  <2>3. CASE ~preroll
    <3>1. ~StaysHeld(stopEvt) /\ TakeVerdict(stopEvt)
          /\ feeder' = IF Verdict(stopEvt) = "stop" THEN "deliver" ELSE "pace"
      BY <1>9, <2>3 DEF Hold
    <3>2. preroll' = preroll
      BY <3>1 DEF TakeVerdict, TakeRestart, policyVars
    <3>3. CASE stopEvt
      BY <1>3, <1>4, <2>1, <2>3, <3>1, <3>2, <3>3 DEF Verdict
    <3>4. CASE ~stopEvt
      <4>1. pending \/ ServeRequest
        BY <1>4, <3>1, <3>4 DEF StaysHeld
      <4>2. pending => Verdict(stopEvt) = "restart"
        BY <3>4 DEF Verdict
      <4>3. pending => pending' = FALSE /\ feeder' = "pace"
        BY <3>1, <4>2 DEF TakeVerdict, TakeRestart
      <4> QED BY <1>3, <1>4, <2>1, <2>3, <3>2, <4>1, <4>3
    <3> QED BY <3>3, <3>4
  <2> QED BY <2>2, <2>3
<1>10. CASE Pace
  <2>1. UNCHANGED <<main, frame, session, cycle, from, to, spare, failed, stopEvt>>
        /\ feeder = "pace" /\ feeder' = "deliver"
    BY <1>10 DEF Pace, FeederStays, mainVars, sourceVars, media, history
  <2>2. ~StaysHeld(stopEvt) /\ TakeVerdict(stopEvt)
    BY <1>10 DEF Pace
  <2>3. preroll' = preroll
    BY <2>2 DEF TakeVerdict, TakeRestart, policyVars
  <2>4. stopEvt \/ pending \/ ServeRequest
    BY <1>4, <2>2 DEF StaysHeld
  <2> QED BY <1>3, <1>4, <2>1, <2>3, <2>4
<1>11. CASE Deliver
  <2>1. UNCHANGED <<preroll, pending, main, failed>> /\ feeder = "deliver" /\ feeder' = "idle"
        /\ spare' = (spare /\ ~(Deliverable /\ state = "paused"))
    BY <1>11 DEF Deliver, policyVars, mainVars, sourceVars
  <2>2. preroll => ~Deliverable
    <3> SUFFICES ASSUME preroll, Deliverable PROVE FALSE
      OBVIOUS
    <3>1. InTime
      BY <1>11, DeliverableInTime
    <3>2. Here(frame.row) < from
      BY <2>1 DEF PrerollInv
    <3>3. Here(frame.row) \in Int /\ from \in Nat
      <4>1. session \in 1..Sessions /\ frame.row \in Int /\ from \in Nat
        BY DEF TypeOK, SourceTypeOK, ReaderTypeOK
      <4> QED BY <4>1, HereIs
    <3> QED BY <3>1, <3>2, <3>3 DEF InTime
  <2>3. failed => ~Deliverable
    BY DEF Deliverable
  <2> QED BY <1>3, <1>4, <2>1, <2>2, <2>3
<1>12. CASE Shift
  <2>1. UNCHANGED <<preroll, pending, feeder, frame, failed, spare, stopEvt>> /\ cycle' = cycle + 1
        /\ main = "restart"
    BY <1>12 DEF Shift, MainOnly, policyVars, feederVars, Runs
  <2>2. ~InTime'
    BY <2>1 DEF InTime, FrameInv, TypeOK, SourceTypeOK, ReaderTypeOK
  <2> QED BY <1>3, <1>4, <2>1, <2>2
<1>13. CASE Mark
  BY <1>5, <1>13 DEF Mark, MainOnly, TakeRestart, sourceVars, history, feederVars, media, Runs, policyVars
<1>14. CASE Reset
  <2>1. UNCHANGED <<preroll, pending, feeder, frame, session, cycle, from, to, spare, stopEvt>>
        /\ main = "reset" /\ main' \notin Rewinding
    BY <1>14 DEF Reset, MainOnly, policyVars, feederVars, media, history, Runs, Go
  <2>2. InTime' = InTime
    BY <2>1 DEF InTime, Here, Position
  <2> QED BY <1>3, <1>4, <2>1, <2>2
<1>15. CASE Rewind \/ Seek \/ SeekFails \/ Halt
  BY <1>5, <1>15 DEF Rewind, Seek, SeekFails, Halt, LetGo, Go, Done, MainOnly, policyVars,
     feederVars, media, history, sourceVars
<1>16. CASE Null \/ Build
  BY <1>5, <1>16 DEF Null, Build, Go, Done, MainOnly, policyVars,
     feederVars, media, history, sourceVars
<1>17. CASE ActivateSession
  BY <1>3, <1>4, <1>17 DEF ActivateSession, FrameInv, Runs, Go, MainOnly, policyVars, feederVars, history
<1>18. CASE BuildFails
  <2>1. UNCHANGED <<preroll, feeder, spare>> /\ feeder = "idle" /\ main' = "idle"
    BY <1>18 DEF BuildFails, RefuseRestart, MainOnly, feederVars, policyVars, FrameInv, Runs, Done
  <2> QED BY <1>3, <1>4, <2>1
<1>19. CASE OnEos
  <2>1. UNCHANGED <<preroll, pending, feeder, frame, session, cycle, from, to, spare, stopEvt>>
    BY <1>19 DEF OnEos, MainOnly, policyVars, feederVars, media
  <2>2. (failed => failed') /\ (main' \in Rewinding => ~failed')
    BY <1>19 DEF OnEos, FrameInv, Go, Runs
  <2> QED BY <1>5, <2>1, <2>2
<1>20. CASE OnError \/ (\E g \in quiesce : Quiesce(g))
  BY <1>5, <1>20 DEF OnError, Quiesce, MainOnly, policyVars, feederVars, media, history, mainVars,
     sourceVars, Runs
<1>21. CASE (\E o \in Ops : Request(o)) \/ LoopQuits
  BY <1>5, <1>21 DEF Request, LoopQuits, Go, policyVars, feederVars, media, history, sourceVars
<1>22. CASE GateThread
  BY <1>1, <1>3, <1>5, <1>22 DEF GateThread, GateFires, GateResumes, Serve, AlreadySo, policyVars,
     feederVars, media, history, sourceVars, mainVars
<1>23. CASE EndOfStream \/ ReaderFails \/ Stop \/ StopReturns \/ UNCHANGED vars
  BY <1>5, <1>23 DEF EndOfStream, ReaderFails, ReaderPosts, Stop, LetGo, StopReturns, policyVars,
     feederVars, media, history, sourceVars, mainVars, vars
<1> QED BY <1>3, <1>6, <1>7, <1>8, <1>9, <1>10, <1>11, <1>12, <1>13, <1>14, <1>15, <1>16, <1>17,
           <1>18, <1>19, <1>20, <1>21, <1>22, <1>23, StepCases

LEMMA InterruptedStays ==
  ASSUME [Next]_vars
  PROVE  interrupted => interrupted'
BY StepCases DEF vars, history, Request, ServeRequest, Shift, Mark, Reset, Rewind, Seek, SeekFails,
   Halt, Null, ActivateSession, Build, BuildFails, OnEos, Finish, OnError, Quiesce, Take, Stamp,
   FeederFinishes, Hold, Pace, Deliver, EndOfStream, ReaderFails, ReaderPosts, GateThread, Stop,
   StopReturns, LoopQuits

LEMMA CalmStep ==
  ASSUME TypeOK, OpInv, CalmInv, [Next]_vars
  PROVE  CalmInv'
<1> DEFINE Working == main \in AtWork \/ (main = "restart" /\ op = "loop")
<1> SUFFICES ASSUME ~interrupted'
             PROVE  (Working => Drained)' /\ ("eos" \in bus => ended /\ feeder = "idle")'
  BY DEF CalmInv
<1>1. (Working => Drained) /\ ("eos" \in bus => ended /\ feeder = "idle")
  BY InterruptedStays DEF CalmInv
<1> USE DEF AtWork, Drained, Runs, Go, Done
<1>2. CASE UNCHANGED <<feeder, reader, ended, bus>> /\ (Working' => Working)
  BY <1>1, <1>2
<1>3. CASE (\E o \in Ops : Request(o)) \/ ServeRequest
  BY <1>1, <1>3 DEF Request, ServeRequest, feederVars, readerVars
<1>4. CASE Shift
  <2>1. Drained /\ UNCHANGED <<feeder, reader, ended, bus>>
    BY <1>1, <1>4 DEF Shift, OpInv, MainOnly, feederVars, readerVars
  <2> QED BY <2>1
<1>5. CASE Mark \/ Reset \/ Rewind
  BY <1>2, <1>5 DEF Mark, Reset, Rewind, MainOnly, feederVars, readerVars
<1>6. CASE SeekFails \/ Finish
  BY <1>2, <1>6 DEF SeekFails, Finish, MainOnly, feederVars, readerVars
<1>7. CASE Seek
  BY <1>1, <1>7 DEF Seek, MainOnly
<1>8. CASE Halt \/ Null \/ ActivateSession
  BY <1>1, <1>8 DEF Halt, LetGo, Null, ActivateSession, MainOnly, feederVars, readerVars
<1>9. CASE Build \/ BuildFails
  BY <1>1, <1>9 DEF Build, BuildFails, MainOnly, feederVars, readerVars
<1>10. CASE OnEos
  BY <1>1, <1>10 DEF OnEos, MainOnly, feederVars
<1>11. CASE OnError \/ (\E g \in quiesce : Quiesce(g))
  BY <1>1, <1>11 DEF OnError, Quiesce, MainOnly, feederVars, mainVars
<1>12. CASE Take \/ Stamp \/ Deliver
  BY <1>1, <1>12 DEF Take, Stamp, Deliver, mainVars, readerVars
<1>13. CASE FeederFinishes \/ Hold \/ Pace
  BY <1>1, <1>13 DEF FeederFinishes, Hold, Pace, FeederStays, mainVars, readerVars
<1>14. CASE EndOfStream \/ ReaderFails
  BY <1>1, <1>14 DEF EndOfStream, ReaderFails, ReaderPosts, mainVars, feederVars
<1>15. CASE Stop \/ StopReturns
  BY <1>1, <1>15 DEF Stop, StopReturns, LetGo, mainVars, feederVars
<1>16. CASE GateThread \/ LoopQuits \/ UNCHANGED vars
  BY <1>2, <1>16 DEF GateThread, LoopQuits, vars, mainVars, feederVars, readerVars
<1> QED BY <1>3, <1>4, <1>5, <1>6, <1>7, <1>8, <1>9, <1>10, <1>11, <1>12, <1>13, <1>14, <1>15,
           <1>16, StepCases

LEMMA LastStep ==
  ASSUME TypeOK, WindowInv, FrameInv, OpInv, CalmInv, LastInv, CalmInv', [Next]_vars
  PROVE  LastInv'
<1> DEFINE Ahead == last < Base + Here(idx) /\ last < Base + Here(Rows)
           Afresh == main \in AtWork /\ op # "next" => last < Base
           InHand == feeder # "idle" =>
                       /\ frame.row < idx
                       /\ (feeder # "stamp" /\ failed) \/ last < Base + Here(frame.row)
           Present == feeder \notin {"idle", "stamp"} => frame.at = cycle
<1> SUFFICES ASSUME ~interrupted'
             PROVE  Ahead' /\ Afresh' /\ InHand' /\ Present'
  BY DEF LastInv
<1>1. ~interrupted
  BY InterruptedStays
<1>2. Ahead /\ Afresh /\ InHand /\ Present
  BY <1>1 DEF LastInv
<1>3. main \in AtWork => feeder = "idle"
  BY <1>1 DEF CalmInv, Drained
<1>4. main' \in AtWork => feeder' = "idle"
  BY DEF CalmInv, Drained
<1> USE ReplayAssumption
<1>5. /\ session \in 1..Sessions /\ next \in 1..Sessions /\ idx \in Nat /\ frame.row \in Nat
      /\ cycle \in Nat /\ last \in Int /\ Rows \in Int /\ Rows - 1 \in Int /\ idx + 1 \in Int
      /\ 0 \in Int
  BY DEF TypeOK, MainTypeOK, SourceTypeOK, ReaderTypeOK, HistoryTypeOK
<1>6. /\ Here(0) \in Nat /\ Span \in Nat /\ Here(Rows) <= Span
      /\ \A r \in Int : Here(r) = Here(0) + r
  BY <1>5, HereIs
<1>7. Base \in Nat /\ (cycle' = cycle + 1 => Base' = Base + Span)
  BY <1>5, Timeline DEF Base
<1>8. CASE UNCHANGED <<last, cycle, session, idx, feeder, frame>>
           /\ (main' \in AtWork /\ op' # "next" => main \in AtWork /\ op # "next")
           /\ (failed => failed' \/ feeder = "idle")
  <2>1. Base' = Base /\ Here(idx)' = Here(idx) /\ Here(Rows)' = Here(Rows)
        /\ Here(frame.row)' = Here(frame.row)
    BY <1>8 DEF Base, Here, Position
  <2> QED BY <1>2, <1>8, <2>1
<1>9. CASE Take
  <2>1. UNCHANGED <<last, cycle, session, main, op>> /\ idx' = idx + 1 /\ frame'.row = idx
        /\ feeder' = "stamp"
    BY <1>9 DEF Take, mainVars
  <2>2. Base' = Base /\ Here(Rows)' = Here(Rows) /\ Here(idx)' = Here(idx + 1)
        /\ Here(frame.row)' = Here(idx)
    BY <2>1 DEF Base, Here, Position
  <2>3. Here(idx + 1) = Here(idx) + 1 /\ Here(idx) \in Int
    BY <1>5, <1>6
  <2> QED BY <1>2, <1>5, <1>7, <2>1, <2>2, <2>3
<1>10. CASE Stamp
  <2> DEFINE known == frame.row < Rows
             f == [frame EXCEPT !.at = cycle, !.row = IF known THEN frame.row ELSE Rows - 1]
  <2>1. feeder = "stamp" /\ frame' = f /\ failed' = (failed \/ ~known) /\ feeder' # "idle" /\ feeder' # "stamp"
        /\ UNCHANGED <<last, cycle, session, idx, main, op>>
    BY <1>10 DEF Stamp, history, mainVars
  <2>2. f.at = cycle /\ f.row = IF known THEN frame.row ELSE Rows - 1
    BY DEF TypeOK, ReaderTypeOK
  <2>3. Base' = Base /\ Here(Rows)' = Here(Rows) /\ Here(idx)' = Here(idx)
        /\ (known => Here(frame.row)' = Here(frame.row))
    BY <2>1, <2>2 DEF Base, Here, Position
  <2>4. frame'.row < idx'
    BY <1>2, <1>5, <2>1, <2>2
  <2> QED BY <1>2, <2>1, <2>2, <2>3, <2>4
<1>11. CASE FeederFinishes \/ Hold \/ Pace
  <2>1. UNCHANGED <<last, cycle, session, idx, frame, failed, main, op>>
        /\ feeder \notin {"idle", "stamp"} /\ feeder' \notin {"idle", "stamp"}
    BY <1>11 DEF FeederFinishes, Hold, Pace, FeederStays, history, mainVars, sourceVars
  <2>2. Base' = Base /\ Here(idx)' = Here(idx) /\ Here(Rows)' = Here(Rows)
        /\ Here(frame.row)' = Here(frame.row)
    BY <2>1 DEF Base, Here, Position
  <2> QED BY <1>2, <2>1, <2>2
<1>12. CASE Deliver
  <2>1. UNCHANGED <<cycle, session, idx, main, op>> /\ feeder = "deliver" /\ feeder' = "idle"
        /\ main' \notin AtWork
    BY <1>3, <1>12 DEF Deliver, mainVars, sourceVars
  <2>2. Base' = Base /\ Here(idx)' = Here(idx) /\ Here(Rows)' = Here(Rows)
    BY <2>1 DEF Base, Here, Position
  <2>3. CASE ~Deliverable
    BY <1>2, <1>12, <2>1, <2>2, <2>3 DEF Deliver
  <2>4. CASE Deliverable
    <3>1. frame.at = cycle
      BY <1>12, <2>4, DeliverableInTime DEF InTime
    <3>2. last' = Base + Here(frame.row)
      BY <1>12, <2>4, <3>1 DEF Deliver, Base, Here
    <3>3. frame.row < idx /\ frame.row < Rows
      BY <1>2, <2>1 DEF FrameInv
    <3>4. Here(frame.row) < Here(idx) /\ Here(frame.row) < Here(Rows)
      BY <1>5, <1>6, <3>3
    <3>5. Here(frame.row) \in Int /\ Here(idx) \in Int /\ Here(Rows) \in Int
      BY <1>5, <1>6
    <3> QED BY <1>7, <2>1, <2>2, <3>2, <3>4, <3>5
  <2> QED BY <2>3, <2>4
<1>13. CASE Shift
  <2>1. UNCHANGED <<last, session, idx>> /\ cycle' = cycle + 1 /\ feeder' = "idle"
    BY <1>4, <1>13 DEF Shift, Go, AtWork
  <2>2. Base' = Base + Span /\ Here(idx)' = Here(idx) /\ Here(Rows)' = Here(Rows)
    BY <1>7, <2>1 DEF Here, Position
  <2>3. Here(idx) \in Nat /\ Here(Rows) \in Nat
    BY <1>5, <1>6
  <2>4. last < Base + Span
    BY <1>2, <1>5, <1>6, <1>7, <2>3
  <2> QED BY <1>5, <1>6, <1>7, <2>1, <2>2, <2>3, <2>4
<1>14. CASE Mark \/ Reset
  BY <1>3, <1>8, <1>14 DEF Mark, Reset, Runs, Go, MainOnly, feederVars, sourceVars, history, AtWork
<1>15. CASE Rewind
  <2>1. UNCHANGED <<last, session, cycle, feeder, frame, op>> /\ idx' = 0 /\ feeder = "idle"
        /\ main \in AtWork /\ op # "next"
    BY <1>3, <1>15 DEF Rewind, Runs, MainOnly, feederVars, history, AtWork, OpInv
  <2>2. Base' = Base /\ Here(idx)' = Here(0) /\ Here(Rows)' = Here(Rows)
    BY <2>1 DEF Base, Here, Position
  <2> QED BY <1>2, <1>5, <1>6, <1>7, <2>1, <2>2
<1>16. CASE Seek \/ SeekFails \/ Halt \/ Null
  BY <1>8, <1>16 DEF Seek, SeekFails, Halt, Null, Runs, Go, Done, MainOnly, feederVars, sourceVars,
     history, AtWork
<1>17. CASE ActivateSession
  <2>1. UNCHANGED <<last, cycle, feeder, op>> /\ idx' = 0 /\ feeder = "idle" /\ session' = next
        /\ main = "clear"
    BY <1>3, <1>17 DEF ActivateSession, Runs, MainOnly, feederVars, history, AtWork
  <2>2. Base' = Base /\ Here(idx)' = Position(next, 0) /\ Here(Rows)' = Position(next, Rows)
    BY <2>1 DEF Base, Here, Position
  <2>3. Position(next, 0) \in Nat /\ Position(next, Rows) = Position(next, 0) + Rows
    <3>1. next \in Int
      BY <1>5
    <3> QED BY <1>5, <3>1, Timeline, Zenon
  <2>4. last < Base + Position(next, 0) /\ (op # "next" => last < Base)
    <3>1. CASE op = "next"
      <4>1. next = session + 1 /\ session \in Int
        BY <1>5, <2>1, <3>1 DEF OpInv
      <4>2. Position(next, 0) = Here(Rows)
        BY <4>1, Timeline, Zenon DEF Here
      <4> QED BY <1>2, <3>1, <4>2
    <3>2. CASE op # "next"
      BY <1>2, <1>5, <1>7, <2>1, <2>3, <3>2 DEF AtWork
    <3> QED BY <3>1, <3>2
  <2> QED BY <1>5, <1>7, <2>1, <2>2, <2>3, <2>4
<1>18. CASE Build \/ BuildFails \/ Finish
  BY <1>8, <1>18 DEF Build, BuildFails, Finish, Runs, Done, MainOnly, feederVars, sourceVars,
     history, AtWork
<1>19. CASE OnEos
  BY <1>8, <1>19 DEF OnEos, Go, MainOnly, feederVars, AtWork
<1>20. CASE OnError \/ (\E g \in quiesce : Quiesce(g))
  BY <1>8, <1>20 DEF OnError, Quiesce, MainOnly, feederVars, mainVars, sourceVars, history
<1>21. CASE (\E o \in Ops : Request(o)) \/ ServeRequest
  BY <1>8, <1>21 DEF Request, ServeRequest, Go, Done, feederVars, sourceVars, history, AtWork
<1>22. CASE GateThread \/ LoopQuits \/ StopReturns
  BY <1>8, <1>22 DEF GateThread, LoopQuits, StopReturns, feederVars, mainVars, sourceVars, history, AtWork
<1>23. CASE EndOfStream \/ ReaderFails \/ Stop \/ UNCHANGED vars
  BY <1>8, <1>23 DEF EndOfStream, ReaderFails, ReaderPosts, Stop, LetGo, vars, feederVars, mainVars,
     sourceVars, history
<1> QED BY <1>9, <1>10, <1>11, <1>12, <1>13, <1>14, <1>15, <1>16, <1>17, <1>18, <1>19, <1>20, <1>21,
           <1>22, <1>23, StepCases

LEMMA DeliveryStep == IInv /\ DeliveryInv /\ [Next]_vars => DeliveryInv'
BY WindowStep, FrameStep, PrerollStep, PauseStep, OpStep, CalmStep, LastStep DEF IInv, DeliveryInv

(* Only Deliver moves last.                                                *)
LEMMA OnlyDeliver ==
  ASSUME [Next]_vars, last' # last
  PROVE  Deliver /\ Deliverable
BY StepCases DEF vars, history, Request, ServeRequest, Shift, Mark, Reset, Rewind, Seek, SeekFails,
   Halt, Null, ActivateSession, Build, BuildFails, OnEos, Finish, OnError, Quiesce, Take, Stamp,
   FeederFinishes, Hold, Pace, Deliver, EndOfStream, ReaderFails, ReaderPosts, GateThread, Stop,
   StopReturns, LoopQuits

LEMMA DeliveryInvariant == Spec => [](IInv /\ DeliveryInv)
<1>1. Init => IInv /\ DeliveryInv
  BY InitHolds, InitDelivery
<1>2. (IInv /\ DeliveryInv) /\ [Next]_vars => (IInv /\ DeliveryInv)'
  BY Inductive, DeliveryStep
<1> QED BY <1>1, <1>2, PTL DEF Spec

(* For any number of sessions, rows, loops, restarts and failures: the     *)
(* stamps increase over all cycles but for a restart that hits a reader in *)
(* mid-frame, and nothing comes out of a pause but what was on its way out *)
(* when it came (playback.py:9-11, 484-493).                               *)
THEOREM DeliveredInOrder == Spec => DeliveryIsOrdered
<1> DEFINE Later == last' # last => (last' > last \/ interrupted)
           Quiet == last' # last /\ state = "paused" => spare
<1>1. IInv /\ DeliveryInv /\ [Next]_vars => Later /\ Quiet
  <2> SUFFICES ASSUME IInv, DeliveryInv, [Next]_vars, last' # last
               PROVE  (last' > last \/ interrupted) /\ (state = "paused" => spare)
    OBVIOUS
  <2>1. Deliver /\ Deliverable
    BY OnlyDeliver
  <2>2. InTime /\ feeder = "deliver"
    BY <2>1, DeliverableInTime DEF IInv, DeliveryInv, Deliver
  <2>3. state = "paused" => spare
    BY <2>1, <2>2 DEF DeliveryInv, PauseInv, Deliverable
  <2>4. ~interrupted => last' > last
    <3> SUFFICES ASSUME ~interrupted PROVE last' > last
      OBVIOUS
    <3>1. last < Base + Here(frame.row)
      BY <2>1, <2>2 DEF DeliveryInv, LastInv, Deliverable
    <3>2. last' = Base + Here(frame.row)
      BY <2>1, <2>2 DEF Deliver, InTime, Base, Here
    <3>3. last \in Int /\ Base \in Int /\ Here(frame.row) \in Int
      <4>1. session \in 1..Sessions /\ frame.row \in Int /\ cycle \in Nat /\ last \in Int
        BY ReplayAssumption DEF IInv, TypeOK, SourceTypeOK, ReaderTypeOK, HistoryTypeOK
      <4>2. Here(0) \in Nat /\ \A r \in Int : Here(r) = Here(0) + r
        BY <4>1, HereIs
      <4>3. Here(frame.row) \in Int
        BY <4>1, <4>2
      <4>4. Base \in Int
        BY <4>1, Timeline DEF Base
      <4> QED BY <4>1, <4>3, <4>4
    <3> QED BY <3>1, <3>2, <3>3
  <2> QED BY <2>3, <2>4
<1>2. IInv /\ DeliveryInv /\ [Next]_vars => [Later]_vars /\ [Quiet]_vars
  BY <1>1
<1> QED BY <1>2, DeliveryInvariant, PTL DEF Spec, DeliveryIsOrdered, StampsIncrease, PauseHolds
-------------------------------------------------------------------------------
(* The end it reports.  As long as no restart has hit a reader in          *)
(* mid-frame, rows and frames are counted in step.                         *)
EndInv ==
  /\ "error" \in bus => faults > 0
  /\ faults = 0 => \A s \in 1..Sessions : video[s] = Rows
  /\ ~interrupted =>
       /\ matched
       /\ main \in {"seek", "build"} => idx = 0
       /\ reader = "playing" /\ ~ended => idx = pos
       /\ "eos" \in bus => idx = pos /\ pos = video[session]
       /\ feeder = "stamp" /\ faults = 0 => frame.row < Rows
  /\ EndIsTrue

LEMMA InitEnd == Init => EndInv
<1> SUFFICES ASSUME Init PROVE EndInv
  OBVIOUS
<1> USE ReplayAssumption
<1>1. faults = 0 => \A s \in 1..Sessions : video[s] = Rows
  <2> DEFINE Bad == {s \in 1..Sessions : video[s] # Rows}
  <2> SUFFICES ASSUME faults = 0 PROVE Bad = {}
    OBVIOUS
  <2>1. 0 \in Int /\ 1 \in Int /\ Sessions \in Int
    OBVIOUS
  <2>2. Bad \subseteq 1..Sessions /\ IsFiniteSet(1..Sessions)
    BY <2>1, FS_Interval, Zenon
  <2>3. IsFiniteSet(Bad)
    BY <2>2, FS_Subset, Zenon
  <2>4. Cardinality(Bad) = 0
    BY DEF Init
  <2> QED BY <2>3, <2>4, FS_EmptySet, Zenon
<1>2. bus = {} /\ main = "idle" /\ idx = 0 /\ pos = 0 /\ feeder = "idle" /\ ~failed
  BY DEF Init
<1>3. matched /\ vouched
  BY DEF Init
<1> QED BY <1>1, <1>2, <1>3 DEF EndInv, EndIsTrue, CleanEndIsTrue, FailsOnlyOnBadData

LEMMA EndStep ==
  ASSUME TypeOK, FrameInv, CalmInv, EndInv, [Next]_vars
  PROVE  EndInv'
<1> DEFINE Told == "error" \in bus => faults > 0
           Whole == faults = 0 => \A s \in 1..Sessions : video[s] = Rows
           InStep == ~interrupted =>
             /\ matched
             /\ main \in {"seek", "build"} => idx = 0
             /\ reader = "playing" /\ ~ended => idx = pos
             /\ "eos" \in bus => idx = pos /\ pos = video[session]
             /\ feeder = "stamp" /\ faults = 0 => frame.row < Rows
           Honest == interrupted \/ (vouched /\ (failed => faults > 0))
           AllTold == Told /\ Whole /\ InStep /\ Honest
<1>1. AllTold /\ (AllTold' => EndInv')
  BY DEF EndInv, EndIsTrue, CleanEndIsTrue, FailsOnlyOnBadData
<1> SUFFICES AllTold'
  BY <1>1
<1>2. interrupted => interrupted'
  BY InterruptedStays
<1>3. video' = video /\ faults \in Nat /\ (faults' = faults \/ faults' = faults + 1)
  <2>1. UNCHANGED media /\ (faults' = faults \/ (faults < MaxFaults /\ faults' = faults + 1))
    BY StepEffects
  <2> QED BY <2>1, ReplayAssumption DEF media, TypeOK, ReaderTypeOK
<1>4. Whole'
  BY <1>1, <1>3
<1>5. ~interrupted => (main \in AtWork => Drained) /\ ("eos" \in bus => ended /\ feeder = "idle")
  BY DEF CalmInv
<1>6. idx \in Nat /\ pos \in Nat /\ session \in 1..Sessions /\ Rows \in Nat
  BY ReplayAssumption DEF TypeOK, SourceTypeOK, ReaderTypeOK
<1> USE DEF Runs, Go, Done
<1>7. CASE UNCHANGED <<reader, ended, idx, pos, session, matched, vouched>>
           /\ (bus' \subseteq bus) /\ (feeder' = "stamp" => feeder = "stamp" /\ frame' = frame)
           /\ (main' \in {"seek", "build"} => main \in {"seek", "build"})
           /\ (failed' => failed \/ faults' > 0)
  <2>1. Told' /\ InStep'
    BY <1>1, <1>2, <1>3, <1>7
  <2>2. Honest'
    BY <1>1, <1>2, <1>3, <1>7
  <2> QED BY <1>4, <2>1, <2>2
<1>8. CASE Take
  <2>1. UNCHANGED <<bus, faults, main, reader, ended, session, failed, vouched, interrupted>>
        /\ reader = "playing" /\ ~ended /\ pos < video[session] /\ feeder' = "stamp"
        /\ frame'.row = idx /\ idx' = idx + 1 /\ pos' = pos + 1 /\ matched' = (matched /\ idx = pos)
    BY <1>8 DEF Take, mainVars, bounds
  <2>2. ~interrupted => main \notin {"seek", "build"} /\ "eos" \notin bus
    BY <1>5, <2>1 DEF AtWork, Drained
  <2>3. ~interrupted => idx = pos
    BY <1>1, <2>1
  <2>4. faults = 0 => video[session] = Rows
    BY <1>1, <1>6
  <2>5. InStep'
    BY <1>1, <1>6, <2>1, <2>2, <2>3, <2>4
  <2> QED BY <1>1, <1>4, <2>1, <2>5
<1>9. CASE Stamp
  <2>1. UNCHANGED <<bus, faults, main, reader, ended, session, idx, pos, matched, vouched, interrupted>>
        /\ feeder = "stamp" /\ feeder' # "stamp" /\ failed' = (failed \/ ~(frame.row < Rows))
    BY <1>9 DEF Stamp, mainVars, readerVars, bounds, history
  <2>2. Told' /\ InStep'
    BY <1>1, <1>3, <2>1
  <2>3. ~interrupted /\ faults = 0 => frame.row < Rows
    BY <1>1, <2>1
  <2>4. faults # 0 => faults > 0
    BY <1>3
  <2>5. failed' => failed \/ ~(frame.row < Rows)
    BY <2>1
  <2>6. Honest'
    BY <1>1, <2>1, <2>3, <2>4, <2>5
  <2> QED BY <1>4, <2>2, <2>6
<1>10. CASE FeederFinishes \/ Hold \/ Pace \/ Deliver
  BY <1>7, <1>10 DEF FeederFinishes, Hold, Pace, Deliver, FeederStays, mainVars, sourceVars, readerVars, history
<1>11. CASE EndOfStream
  <2>1. UNCHANGED <<faults, main, reader, session, idx, pos, matched, vouched, interrupted, failed, feeder>>
        /\ reader = "playing" /\ ~ended /\ pos = video[session] /\ bus' \subseteq bus \cup {"eos"}
        /\ feeder = "idle" /\ ended'
    BY <1>11 DEF EndOfStream, ReaderPosts, mainVars, sourceVars, feederVars, history
  <2>2. Told' /\ Honest'
    BY <1>1, <2>1
  <2>3. ~interrupted => idx' = pos' /\ pos' = video'[session']
    BY <1>1, <1>3, <2>1
  <2>4. InStep'
    BY <1>1, <2>1, <2>3
  <2> QED BY <1>4, <2>2, <2>4
<1>12. CASE ReaderFails
  <2>1. UNCHANGED <<main, reader, session, idx, pos, matched, vouched, interrupted, failed, feeder, frame>>
        /\ ~ended /\ bus' \subseteq bus \cup {"error"} /\ ended' /\ faults' = faults + 1
    BY <1>12 DEF ReaderFails, ReaderPosts, mainVars, sourceVars, feederVars, history
  <2>2. faults' > 0 /\ faults' # 0 /\ ("eos" \in bus' => "eos" \in bus)
    BY <1>3, <2>1
  <2>3. InStep'
    BY <1>1, <1>3, <2>1, <2>2
  <2>4. Honest'
    BY <1>1, <2>1, <2>2
  <2> QED BY <1>4, <2>2, <2>3, <2>4
<1>13. CASE (\E o \in Ops : Request(o)) \/ ServeRequest \/ Mark
  BY <1>7, <1>13 DEF Request, ServeRequest, Mark, MainOnly, sourceVars, readerVars, feederVars, history
<1>14. CASE Shift
  <2>1. UNCHANGED <<bus, faults, reader, ended, session, idx, pos, matched, vouched, failed, feeder, frame>>
        /\ main' = "mark"
    BY <1>14 DEF Shift, MainOnly, feederVars, readerVars
  <2> QED BY <1>1, <1>2, <1>3, <1>4, <2>1
<1>15. CASE Reset
  BY <1>7, <1>15 DEF Reset, MainOnly, readerVars, feederVars, history
<1>16. CASE Rewind
  <2>1. UNCHANGED <<bus, faults, reader, ended, matched, vouched, interrupted, failed, feeder, frame>>
        /\ idx' = 0 /\ main = "rewind"
    BY <1>16 DEF Rewind, MainOnly, readerVars, feederVars, history
  <2>2. ~interrupted => ~(reader = "playing" /\ ~ended) /\ "eos" \notin bus
    BY <1>5, <2>1 DEF AtWork, Drained
  <2> QED BY <1>1, <1>3, <1>4, <2>1, <2>2
<1>17. CASE Seek
  <2>1. UNCHANGED <<bus, faults, reader, idx, vouched, interrupted, failed, feeder, frame>>
        /\ pos' = 0 /\ main = "seek" /\ main' = "idle" /\ matched' = TRUE
    BY <1>17 DEF Seek, MainOnly, sourceVars, feederVars
  <2>2. ~interrupted => "eos" \notin bus /\ idx = 0
    BY <1>1, <1>5, <2>1 DEF AtWork, Drained
  <2> QED BY <1>1, <1>3, <1>4, <2>1, <2>2
<1>18. CASE SeekFails
  BY <1>7, <1>18 DEF SeekFails, MainOnly, sourceVars, readerVars, feederVars, history
<1>19. CASE Halt \/ Null
  <2>1. UNCHANGED <<faults, ended, idx, pos, session, matched, vouched, interrupted, failed, feeder, frame>>
        /\ bus' \subseteq bus /\ (reader' = "playing" => reader = "playing") /\ main' \notin {"seek", "build"}
    BY <1>19 DEF Halt, Null, LetGo, MainOnly, sourceVars, feederVars, history
  <2> QED BY <1>1, <1>3, <1>4, <2>1
<1>20. CASE ActivateSession
  <2>1. UNCHANGED <<bus, faults, reader, ended, matched, vouched, interrupted, failed, feeder, frame>>
        /\ idx' = 0 /\ main = "clear"
    BY <1>20 DEF ActivateSession, MainOnly, readerVars, feederVars, history
  <2>2. ~interrupted => ~(reader = "playing" /\ ~ended) /\ "eos" \notin bus
    BY <1>5, <2>1 DEF AtWork, Drained
  <2> QED BY <1>1, <1>3, <1>4, <2>1, <2>2
<1>21. CASE Build
  <2>1. UNCHANGED <<bus, faults, idx, vouched, interrupted, failed, feeder, frame>>
        /\ pos' = 0 /\ main = "build" /\ main' = "idle" /\ matched' = TRUE
    BY <1>21 DEF Build, MainOnly, feederVars
  <2>2. ~interrupted => "eos" \notin bus /\ idx = 0
    BY <1>1, <1>5, <2>1 DEF AtWork, Drained
  <2> QED BY <1>1, <1>3, <1>4, <2>1, <2>2
<1>22. CASE BuildFails
  <2>1. UNCHANGED <<bus, reader, ended, idx, pos, session, matched, vouched, feeder, frame>>
        /\ main' = "idle" /\ faults' = faults + 1
    BY <1>22 DEF BuildFails, MainOnly, feederVars, readerVars
  <2> QED BY <1>3, <1>7, <2>1
<1>23. CASE OnEos
  <2>1. UNCHANGED <<faults, reader, ended, idx, pos, session, matched, interrupted, feeder, frame>>
        /\ bus' \subseteq bus /\ "eos" \in bus /\ main' \notin {"seek", "build"}
    BY <1>23 DEF OnEos, MainOnly, feederVars
  <2>2. ~interrupted => idx = pos /\ pos = video[session] /\ matched
    BY <1>1, <2>1
  <2>3. faults = 0 => video[session] = Rows
    BY <1>1, <1>6
  <2>4. \/ UNCHANGED <<failed, vouched>>
        \/ /\ failed' = (failed \/ ~(idx = Rows))
           /\ vouched' = (vouched /\ (idx = Rows => matched /\ video[session] = Rows))
    BY <1>23 DEF OnEos, RowsCounted
  <2>5. Honest'
    <3> SUFFICES ASSUME ~interrupted PROVE vouched' /\ (failed' => faults' > 0)
      BY <2>1
    <3>1. vouched /\ (failed => faults > 0) /\ faults' = faults
      BY <1>1, <2>1
    <3>2. faults = 0 => idx = Rows
      BY <2>2, <2>3
    <3>3. idx = Rows => matched /\ video[session] = Rows
      BY <2>2
    <3>4. vouched'
      BY <2>4, <3>1, <3>3
    <3>5. failed' => failed \/ idx # Rows
      BY <2>4
    <3>6. faults > 0 \/ faults = 0
      BY <1>3
    <3> QED BY <3>1, <3>2, <3>4, <3>5, <3>6
  <2>6. Told' /\ InStep'
    BY <1>1, <1>3, <2>1
  <2> QED BY <1>4, <2>5, <2>6
<1>24. CASE Finish
  BY <1>7, <1>24 DEF Finish, MainOnly, sourceVars, readerVars, feederVars, history
<1>25. CASE OnError
  <2>1. UNCHANGED <<faults, reader, ended, idx, pos, session, matched, vouched, feeder, frame, main>>
        /\ bus' \subseteq bus /\ "error" \in bus
    BY <1>25 DEF OnError, MainOnly, feederVars, mainVars, history
  <2> QED BY <1>1, <1>7, <2>1
<1>26. CASE \E g \in quiesce : Quiesce(g)
  <2>1. UNCHANGED <<faults, bus, ended, idx, pos, session, matched, vouched, interrupted, failed, feeder, frame, main>>
        /\ (reader' = "playing" => reader = "playing")
    BY <1>26 DEF Quiesce, MainOnly, feederVars, mainVars, sourceVars, history
  <2> QED BY <1>1, <1>3, <1>4, <2>1
<1>27. CASE Stop \/ StopReturns
  <2>1. UNCHANGED <<faults, ended, idx, pos, session, matched, vouched, interrupted, failed, feeder, frame, main>>
        /\ bus' \subseteq bus /\ (reader' = "playing" => reader = "playing")
    BY <1>27 DEF Stop, StopReturns, LetGo, feederVars, mainVars, sourceVars, bounds, history
  <2> QED BY <1>1, <1>3, <1>4, <2>1
<1>28. CASE GateThread \/ LoopQuits \/ UNCHANGED vars
  BY <1>7, <1>28 DEF GateThread, LoopQuits, vars, mainVars, sourceVars, readerVars, feederVars, history
<1> QED BY <1>8, <1>9, <1>10, <1>11, <1>12, <1>13, <1>14, <1>15, <1>16, <1>17, <1>18, <1>19, <1>20,
           <1>21, <1>22, <1>23, <1>24, <1>25, <1>26, <1>27, <1>28, StepCases

(* For any number of sessions, rows, loops and failures: an end taken as   *)
(* good is that of sessions read whole, each frame under its own row, and  *)
(* a run fails only when something was wrong, unless a restart hit a       *)
(* reader in mid-frame (replay.py:529-585).                                *)
THEOREM EndIsAsReported == Spec => []EndIsTrue
<1>1. Init => EndInv
  BY InitEnd
<1>2. (IInv /\ DeliveryInv) /\ EndInv /\ [Next]_vars => EndInv'
  BY EndStep DEF IInv, DeliveryInv
<1>3. EndInv => EndIsTrue
  BY DEF EndInv
<1> QED BY <1>1, <1>2, <1>3, DeliveryInvariant, PTL DEF Spec
===============================================================================
