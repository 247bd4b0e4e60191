---------------------------- MODULE Service_proofs ----------------------------
(***************************************************************************)
(* Proofs about the service process: its Lifecycle, for any number of       *)
(* processes and sessions, and its HealthMonitor, for all times and limits, *)
(* any number of late answers and any number of reconnects.                 *)
(*                                                                         *)
(* A signal handler may close the session under the main thread's hands,   *)
(* so the invariants of Lifecycle say what each program point may still     *)
(* rely on: OwnInv at any time, StateInv and FileInv while no stop was      *)
(* requested, and StopInv and ForgetInv once one was.                       *)
(*                                                                         *)
(* Of the health monitor, RowsInv says what is on its way to the readers    *)
(* and what they have, PortInv how late an answer of the serial port can    *)
(* be, DeviceInv whose values a poll and the provider have in their hands,  *)
(* and WorkInv who owns port and file where a stop may find the thread.     *)
(***************************************************************************)
EXTENDS Lifecycle, HealthMonitor, FiniteSetTheorems, TLAPS

-------------------------------------------------------------------------------
(* Lifecycle.                                                              *)

(* Where a command is, and what it is.                                     *)
PathInv ==
  /\ main \in {"enter", "open", "publish", "declare"} => cmd.from \in {"boot", "request"}
  /\ main \in {"enter", "open"} => ~cmd.ok
  /\ main = "settle" /\ Uncommanded => session = 0
  /\ ~deploy.enabled => session = 0 /\ main \in {"down", "start", "source", "loop", "shutdown"}

(* Who will close which recorder, by program point: the published session, *)
(* or the transition that has it in its hands.                             *)
OwnInv ==
  /\ main \notin {"publish", "close"} => recorders = IF session = 0 THEN {} ELSE {session}
  /\ main = "publish" => session = 0 /\ recorders = {cmd.mine}
  /\ main = "close" => session = 0 /\ recorders \subseteq {cmd.mine}
  /\ main \in {"start", "open", "closed"} => session = 0
  /\ main \in {"declare", "take"} => session \in {0, cmd.mine}
  /\ main = "open" => seq \in Sessions

(* Outside a transition the state follows the session; a transition knows  *)
(* what it found unless a stop came between.                               *)
StateInv ==
  /\ main \in {"leave", "settle"} => state \in {"active", "inactive"}
  /\ ~stopping =>
       /\ main \in {"down", "start", "source", "loop", "enter", "notify", "settle", "leave",
                    "shutdown"} => state = IF session = 0 THEN "inactive" ELSE "active"
       /\ main = "enter" => session = 0
       /\ main \in {"leave", "declare"} => session # 0

(* What a restart would boot into, by program point.                       *)
FileInv ==
  ~stopping /\ handler = "none" /\ deploy.resume /\ ~stale =>
    /\ main \in {"source", "loop"} => BootState = state
    /\ main = "notify" /\ (cmd.from = "boot" => cmd.ok) => BootState = state
    /\ main \in {"enter", "open"} /\ cmd.from = "request" => BootState = "inactive"

(* After a stop that hit no transition nothing is opened any more.         *)
StopInv ==
  /\ handler = "stop" => signalled = "busy" \/ (signalled = "idle" /\ main = "loop")
  /\ stopping /\ signalled # "busy" =>
       /\ session = 0 /\ state = "inactive"
       /\ main \in {"loop", "enter", "notify", "shutdown", "down"}
       /\ main \in {"enter", "notify"} => cmd.from = "request"

ForgetInv ==
  signalled = "idle" =>
    /\ stopping \/ handler = "stop" \/ main = "down"
    /\ deploy.resume /\ ~stale => file = "none"

IInv == TypeOK /\ PathInv /\ OwnInv /\ StateInv /\ FileInv /\ StopInv /\ ForgetInv

-----------------------------------------------------------------------------
(* A transition begins with no session in its hands.                       *)
LEMMA CommandTyped ==
  ASSUME NEW op \in {"none", "activate", "deactivate"},
         NEW from \in {"none", "boot", "request", "error", "finish"}
  PROVE  Command(op, from) \in Transition
BY LifecycleAssumption DEF Command, Transition

(* Taking and closing the open session keeps the types.                    *)
LEMMA CloseTyped ==
  ASSUME SessTypeOK, CloseForStop, UNCHANGED broken
  PROVE  SessTypeOK'
<1>1. recorders' \in SUBSET Sessions
  BY DEF SessTypeOK, CloseForStop
<1>2. session' = 0 /\ 0 \in 0..MaxSessions
  BY LifecycleAssumption DEF CloseForStop
<1> QED BY <1>1, <1>2 DEF SessTypeOK, CloseForStop

(* It leaves nothing without an owner, wherever the main thread is.        *)
LEMMA CloseOwns ==
  ASSUME SessTypeOK, OwnInv, CloseForStop, UNCHANGED <<main, cmd>>
  PROVE  OwnInv'
<1>1. session' = 0 /\ recorders' = recorders \ {session} /\ seq' = seq
  BY DEF CloseForStop
<1>2. session = 0 => recorders' = recorders
  BY <1>1 DEF SessTypeOK, Sessions
<1>3. CASE main \notin {"publish", "close"}
  <2>1. recorders' = {}
    BY <1>1, <1>2, <1>3 DEF OwnInv
  <2> QED BY <1>1, <1>3, <2>1 DEF OwnInv
<1>4. CASE main \in {"publish", "close"}
  BY <1>1, <1>2, <1>4 DEF OwnInv
<1> QED BY <1>3, <1>4

(* A deployment is never reconfigured.                                     *)
LEMMA DeployStays ==
  ASSUME [Next]_vars
  PROVE  deploy' = deploy
BY DEF Next, Callback, LoopEvent, Environment, Finished, vars, procVars, worldVars,
       StartProcess, EnterBootState, Request, ActivateRefused, BeginActivate, OpenFails,
       OpenSession,
       PublishSession, DeclareActive, DeactivateRefused, BeginDeactivate, UnpublishSession,
       CloseSession, DeclareInactive, Settle, BootAnswered, ErrorAnswered, RequestAnswered,
       StartSource, SessionError, PlaybackEndStops, PlaybackEndHolds, PlaybackRuns, RunStopDue,
       PipelineError, QuitLoop, Shutdown, RecorderFails, PlaybackEnds, PlaybackRestarted,
       SourceChanged, StopSignal, StopSignalReturns, Crash

(* Every step keeps the types of what outlives a process.                  *)
LEMMA DiskTyped ==
  ASSUME TypeOK, StateInv, [Next]_vars
  PROVE  DiskTypeOK'
<1> USE LifecycleAssumption DEF TypeOK, DiskTypeOK, StateInv, ExitCode
<1>1. CASE UNCHANGED <<file, stale, boots, exit>>
  BY <1>1
<1>2. CASE StartProcess
  BY <1>2 DEF StartProcess, Fresh, NoCmd, diskVars
<1>3. CASE Settle
  BY <1>3 DEF Settle, Go, Remember, Uncommanded, At, diskVars, worldVars, sessVars, runVars,
       playVars
<1>4. CASE Shutdown
  BY <1>4 DEF Shutdown, Go, At, CloseForStop, diskVars, playVars
<1>5. CASE StopSignal
  BY <1>5 DEF StopSignal, Forget, Alive, diskVars, worldVars, sessVars, runVars, playVars
<1>6. CASE Crash
  BY <1>6 DEF Crash, Fresh, Alive, NoCmd, diskVars
<1>7. [Next]_vars =>
         \/ UNCHANGED <<file, stale, boots, exit>>
         \/ StartProcess \/ Settle \/ Shutdown \/ StopSignal \/ Crash
  BY DEF Next, Callback, LoopEvent, Environment, Finished, vars, procVars, worldVars, diskVars,
       sessVars, runVars, playVars, EnterBootState, Request, ActivateRefused, BeginActivate,
       OpenFails, OpenSession, PublishSession, DeclareActive, DeactivateRefused,
       BeginDeactivate, UnpublishSession, CloseSession, DeclareInactive, BootAnswered,
       ErrorAnswered, RequestAnswered, StartSource, SessionError, PlaybackEndStops,
       PlaybackEndHolds, PlaybackRuns, RunStopDue, PipelineError, QuitLoop, RecorderFails,
       PlaybackEnds, PlaybackRestarted, SourceChanged, StopSignalReturns
<1> QED BY <1>1, <1>2, <1>3, <1>4, <1>5, <1>6, <1>7

(* Every step keeps the types of the program points.                       *)
LEMMA ThreadTyped ==
  ASSUME TypeOK, OwnInv, [Next]_vars
  PROVE  ThreadTypeOK'
<1> USE LifecycleAssumption DEF TypeOK, ThreadTypeOK, SessTypeOK, MainPoint
<1>1. CASE UNCHANGED <<main, handler, cmd>>
  BY <1>1 DEF Transition
<1>2. CASE StartProcess
  BY <1>2 DEF StartProcess, Fresh, NoCmd, diskVars, Transition
<1>3. CASE EnterBootState
  <2>1. Command("activate", "boot") \in Transition
    BY CommandTyped
  <2> QED BY <1>3, <2>1 DEF EnterBootState, Go, At
<1>4. CASE Request
  <2>1. /\ Command("activate", "request") \in Transition
        /\ Command("deactivate", "request") \in Transition
    BY CommandTyped
  <2> QED BY <1>4, <2>1 DEF Request, Go, At
<1>5. CASE ActivateRefused
  BY <1>5 DEF ActivateRefused, Go, At, worldVars, diskVars, sessVars, runVars, playVars,
       Transition
<1>6. CASE BeginActivate
  BY <1>6 DEF BeginActivate, Go, At, worldVars, diskVars, runVars, playVars, Transition
<1>7. CASE OpenFails
  BY <1>7 DEF OpenFails, Go, At, worldVars, diskVars, runVars, playVars, Transition
<1>8. CASE OpenSession
  BY <1>8 DEF OpenSession, Go, At, worldVars, diskVars, runVars, playVars, Transition
<1>9. CASE PublishSession
  BY <1>9 DEF PublishSession, Go, At, worldVars, diskVars, runVars, playVars, Transition
<1>10. CASE DeclareActive
  BY <1>10 DEF DeclareActive, Go, At, worldVars, diskVars, runVars, playVars, Transition
<1>11. CASE DeactivateRefused
  BY <1>11 DEF DeactivateRefused, Go, Uncommanded, At, worldVars, diskVars, sessVars, runVars,
       playVars, Transition
<1>12. CASE BeginDeactivate
  BY <1>12 DEF BeginDeactivate, Go, At, worldVars, diskVars, runVars, playVars, Transition
<1>13. CASE UnpublishSession
  BY <1>13 DEF UnpublishSession, Go, At, worldVars, diskVars, runVars, playVars, Transition
<1>14. CASE CloseSession
  BY <1>14 DEF CloseSession, Go, At, worldVars, diskVars, runVars, playVars, Transition
<1>15. CASE DeclareInactive
  BY <1>15 DEF DeclareInactive, Go, At, worldVars, diskVars, runVars, playVars, Transition
<1>16. CASE Settle
  BY <1>16 DEF Settle, Go, Remember, Uncommanded, At, diskVars, worldVars, sessVars, runVars,
       playVars, Transition
<1>17. CASE BootAnswered
  BY <1>17 DEF BootAnswered, Go, NoCmd, At, worldVars, diskVars, sessVars, playVars, Transition
<1>18. CASE ErrorAnswered
  BY <1>18 DEF ErrorAnswered, Go, SessionErrorFatal, NoCmd, At, worldVars, diskVars, sessVars,
       playVars, Transition
<1>19. CASE RequestAnswered
  BY <1>19 DEF RequestAnswered, Go, NoCmd, At, worldVars, diskVars, sessVars, runVars, playVars,
       Transition
<1>20. CASE StartSource
  BY <1>20 DEF StartSource, Go, At, worldVars, diskVars, sessVars, runVars, playVars, Transition
<1>21. CASE SessionError
  BY <1>21 DEF SessionError, Go, Command, At, worldVars, diskVars, sessVars, runVars, playVars,
       Transition
<1>22. CASE PlaybackEndHolds
  <2>1. Command("deactivate", "finish") \in Transition
    BY CommandTyped
  <2> QED BY <1>22, <2>1 DEF PlaybackEndHolds, Go, At
<1>23. CASE QuitLoop
  BY <1>23 DEF QuitLoop, Go, At, worldVars, diskVars, sessVars, runVars, playVars, Transition
<1>24. CASE Shutdown
  BY <1>24 DEF Shutdown, Go, At, CloseForStop, diskVars, playVars, Transition
<1>25. CASE StopSignal
  BY <1>25 DEF StopSignal, Forget, Alive, diskVars, worldVars, sessVars, runVars, playVars,
       Transition
<1>26. CASE StopSignalReturns
  BY <1>26 DEF StopSignalReturns, RequestStop, CloseForStop, sessVars, worldVars, diskVars,
       playVars, Transition
<1>27. CASE Crash
  BY <1>27 DEF Crash, Fresh, Alive, NoCmd, diskVars, Transition
<1>28. [Next]_vars =>
         \/ UNCHANGED <<main, handler, cmd>>
         \/ StartProcess \/ EnterBootState \/ Request \/ ActivateRefused \/ BeginActivate
         \/ OpenFails \/ OpenSession \/ PublishSession \/ DeclareActive
         \/ DeactivateRefused \/ BeginDeactivate \/ UnpublishSession \/ CloseSession
         \/ DeclareInactive \/ Settle \/ BootAnswered \/ ErrorAnswered \/ RequestAnswered
         \/ StartSource \/ SessionError \/ PlaybackEndHolds \/ QuitLoop \/ Shutdown
         \/ StopSignal \/ StopSignalReturns \/ Crash
  BY DEF Next, Callback, LoopEvent, Environment, Finished, vars, procVars, worldVars, diskVars,
       sessVars, runVars, playVars, PlaybackEndStops, PlaybackRuns, RunStopDue, PipelineError,
       RecorderFails, PlaybackEnds, PlaybackRestarted, SourceChanged
<1> QED BY <1>1, <1>2, <1>3, <1>4, <1>5, <1>6, <1>7, <1>8, <1>9, <1>10, <1>11, <1>12, <1>13,
     <1>14, <1>15, <1>16, <1>17, <1>18, <1>19, <1>20, <1>21, <1>22, <1>23, <1>24, <1>25, <1>26,
     <1>27, <1>28

(* Every step keeps the types of session and recorders.                    *)
LEMMA SessTyped ==
  ASSUME TypeOK, OwnInv, [Next]_vars
  PROVE  SessTypeOK'
<1> USE LifecycleAssumption DEF TypeOK
<1>1. CASE UNCHANGED <<state, session, seq, recorders, broken>>
  BY <1>1 DEF SessTypeOK, Sessions, OwnInv, ThreadTypeOK, Transition
<1>2. CASE StartProcess
  BY <1>2 DEF StartProcess, Fresh, NoCmd, diskVars, SessTypeOK, Sessions, OwnInv, ThreadTypeOK,
       Transition
<1>3. CASE BeginActivate
  BY <1>3 DEF BeginActivate, Go, At, worldVars, diskVars, runVars, playVars, SessTypeOK,
       Sessions, OwnInv, ThreadTypeOK, Transition
<1>4. CASE OpenFails
  BY <1>4 DEF OpenFails, Go, At, worldVars, diskVars, runVars, playVars, SessTypeOK, Sessions,
       OwnInv, ThreadTypeOK, Transition
<1>5. CASE OpenSession
  BY <1>5 DEF OpenSession, Go, At, worldVars, diskVars, runVars, playVars, SessTypeOK, Sessions,
       OwnInv, ThreadTypeOK, Transition
<1>6. CASE PublishSession
  BY <1>6 DEF PublishSession, Go, At, worldVars, diskVars, runVars, playVars, SessTypeOK,
       Sessions, OwnInv, ThreadTypeOK, Transition
<1>7. CASE DeclareActive
  BY <1>7 DEF DeclareActive, Go, At, worldVars, diskVars, runVars, playVars, SessTypeOK,
       Sessions, OwnInv, ThreadTypeOK, Transition
<1>8. CASE BeginDeactivate
  BY <1>8 DEF BeginDeactivate, Go, At, worldVars, diskVars, runVars, playVars, SessTypeOK,
       Sessions, OwnInv, ThreadTypeOK, Transition
<1>9. CASE UnpublishSession
  BY <1>9 DEF UnpublishSession, Go, At, worldVars, diskVars, runVars, playVars, SessTypeOK,
       Sessions, OwnInv, ThreadTypeOK, Transition
<1>10. CASE CloseSession
  BY <1>10 DEF CloseSession, Go, At, worldVars, diskVars, runVars, playVars, SessTypeOK,
       Sessions, OwnInv, ThreadTypeOK, Transition
<1>11. CASE DeclareInactive
  BY <1>11 DEF DeclareInactive, Go, At, worldVars, diskVars, runVars, playVars, SessTypeOK,
       Sessions, OwnInv, ThreadTypeOK, Transition
<1>12. CASE PlaybackEndStops
  BY <1>12, CloseTyped DEF PlaybackEndStops, RequestStop, SessTypeOK, sessVars
<1>13. CASE RunStopDue
  BY <1>13, CloseTyped DEF RunStopDue, RequestStop, SessTypeOK, sessVars
<1>14. CASE Shutdown
  BY <1>14, CloseTyped DEF Shutdown
<1>15. CASE RecorderFails
  BY <1>15 DEF RecorderFails, Alive, worldVars, diskVars, sessVars, runVars, playVars,
       SessTypeOK, Sessions, OwnInv, ThreadTypeOK, Transition
<1>16. CASE StopSignalReturns
  BY <1>16, CloseTyped DEF StopSignalReturns, RequestStop, SessTypeOK, sessVars
<1>17. CASE Crash
  BY <1>17 DEF Crash, Fresh, Alive, NoCmd, diskVars, SessTypeOK, Sessions, OwnInv, ThreadTypeOK,
       Transition
<1>18. [Next]_vars =>
         \/ UNCHANGED <<state, session, seq, recorders, broken>>
         \/ StartProcess \/ BeginActivate \/ OpenFails \/ OpenSession \/ PublishSession
         \/ DeclareActive \/ BeginDeactivate \/ UnpublishSession \/ CloseSession
         \/ DeclareInactive \/ PlaybackEndStops \/ RunStopDue \/ Shutdown \/ RecorderFails
         \/ StopSignalReturns \/ Crash
  BY DEF Next, Callback, LoopEvent, Environment, Finished, vars, procVars, worldVars, diskVars,
       sessVars, runVars, playVars, EnterBootState, Request, ActivateRefused, DeactivateRefused,
       Settle, BootAnswered, ErrorAnswered, RequestAnswered, StartSource, SessionError,
       PlaybackEndHolds, PlaybackRuns, PipelineError, QuitLoop, PlaybackEnds, PlaybackRestarted,
       SourceChanged, StopSignal
<1> QED BY <1>1, <1>2, <1>3, <1>4, <1>5, <1>6, <1>7, <1>8, <1>9, <1>10, <1>11, <1>12, <1>13,
     <1>14, <1>15, <1>16, <1>17, <1>18

(* Every step keeps the types of the flags of a run.                       *)
LEMMA RunTyped ==
  ASSUME TypeOK, [Next]_vars
  PROVE  RunTypeOK'
<1> USE LifecycleAssumption DEF TypeOK, RunTypeOK
<1>1. CASE UNCHANGED <<stopping, fatal, quitting, stopDue, held, ended, bootActive, signalled>>
  BY <1>1
<1>2. CASE StartProcess
  BY <1>2 DEF StartProcess, Fresh, NoCmd, diskVars
<1>3. CASE BootAnswered
  BY <1>3 DEF BootAnswered, Go, NoCmd, At, worldVars, diskVars, sessVars, playVars
<1>4. CASE ErrorAnswered
  BY <1>4 DEF ErrorAnswered, Go, SessionErrorFatal, NoCmd, At, worldVars, diskVars, sessVars,
       playVars
<1>5. CASE PlaybackEndStops
  BY <1>5 DEF PlaybackEndStops, At, RequestStop, CloseForStop, sessVars, worldVars, diskVars,
       playVars
<1>6. CASE PlaybackEndHolds
  BY <1>6 DEF PlaybackEndHolds, Go, At, Command, worldVars, diskVars, sessVars, runVars
<1>7. CASE PlaybackRuns
  BY <1>7 DEF PlaybackRuns, At, worldVars, diskVars, sessVars, runVars
<1>8. CASE RunStopDue
  BY <1>8 DEF RunStopDue, At, RequestStop, CloseForStop, sessVars, worldVars, diskVars, playVars
<1>9. CASE PipelineError
  BY <1>9 DEF PipelineError, At, worldVars, diskVars, sessVars, playVars
<1>10. CASE Shutdown
  BY <1>10 DEF Shutdown, Go, At, CloseForStop, diskVars, playVars
<1>11. CASE PlaybackEnds
  BY <1>11 DEF PlaybackEnds, Capturing, worldVars, diskVars, sessVars, runVars
<1>12. CASE PlaybackRestarted
  BY <1>12 DEF PlaybackRestarted, worldVars, diskVars, sessVars, runVars
<1>13. CASE SourceChanged
  BY <1>13 DEF SourceChanged, Capturing, worldVars, diskVars, sessVars, playVars
<1>14. CASE StopSignal
  BY <1>14 DEF StopSignal, Forget, Alive, diskVars, worldVars, sessVars, runVars, playVars
<1>15. CASE StopSignalReturns
  BY <1>15 DEF StopSignalReturns, RequestStop, CloseForStop, sessVars, worldVars, diskVars,
       playVars
<1>16. CASE Crash
  BY <1>16 DEF Crash, Fresh, Alive, NoCmd, diskVars
<1>17. [Next]_vars =>
         \/ UNCHANGED <<stopping, fatal, quitting, stopDue, held, ended, bootActive, signalled>>
         \/ StartProcess \/ BootAnswered \/ ErrorAnswered \/ PlaybackEndStops
         \/ PlaybackEndHolds \/ PlaybackRuns \/ RunStopDue \/ PipelineError \/ Shutdown
         \/ PlaybackEnds \/ PlaybackRestarted \/ SourceChanged \/ StopSignal
         \/ StopSignalReturns \/ Crash
  BY DEF Next, Callback, LoopEvent, Environment, Finished, vars, procVars, worldVars, diskVars,
       sessVars, runVars, playVars, EnterBootState, Request, ActivateRefused, BeginActivate,
       OpenFails, OpenSession, PublishSession, DeclareActive, DeactivateRefused,
       BeginDeactivate, UnpublishSession, CloseSession, DeclareInactive, Settle,
       RequestAnswered, StartSource, SessionError, QuitLoop, RecorderFails
<1> QED BY <1>1, <1>2, <1>3, <1>4, <1>5, <1>6, <1>7, <1>8, <1>9, <1>10, <1>11, <1>12, <1>13,
     <1>14, <1>15, <1>16, <1>17

(* Every step keeps the program points of a command.                       *)
LEMMA PathStep ==
  ASSUME TypeOK, PathInv, OwnInv, StateInv, [Next]_vars
  PROVE  PathInv'
<1> USE LifecycleAssumption DEF TypeOK, SessTypeOK, Sessions, StateInv, OwnInv, PathInv,
     Uncommanded, Command, NoCmd
<1>1. CASE UNCHANGED <<deploy, main, cmd, session>>
  BY <1>1
<1>2. CASE StartProcess
  BY <1>2 DEF StartProcess, Fresh, diskVars
<1>3. CASE EnterBootState
  BY <1>3 DEF EnterBootState, Go, At, BootState, worldVars, diskVars, sessVars, runVars,
       playVars
<1>4. CASE Request
  BY <1>4 DEF Request, Go, At, worldVars, diskVars, sessVars, runVars, playVars
<1>5. CASE ActivateRefused
  BY <1>5 DEF ActivateRefused, Go, At, worldVars, diskVars, sessVars, runVars, playVars
<1>6. CASE BeginActivate
  BY <1>6 DEF BeginActivate, Go, At, worldVars, diskVars, runVars, playVars
<1>7. CASE OpenFails
  BY <1>7 DEF OpenFails, Go, At, worldVars, diskVars, runVars, playVars
<1>8. CASE OpenSession
  BY <1>8 DEF OpenSession, Go, At, worldVars, diskVars, runVars, playVars
<1>9. CASE PublishSession
  BY <1>9 DEF PublishSession, Go, At, worldVars, diskVars, runVars, playVars
<1>10. CASE DeclareActive
  BY <1>10 DEF DeclareActive, Go, At, worldVars, diskVars, runVars, playVars
<1>11. CASE DeactivateRefused
  BY <1>11 DEF DeactivateRefused, Go, At, worldVars, diskVars, sessVars, runVars, playVars
<1>12. CASE BeginDeactivate
  BY <1>12 DEF BeginDeactivate, Go, At, worldVars, diskVars, runVars, playVars
<1>13. CASE UnpublishSession
  BY <1>13 DEF UnpublishSession, Go, At, worldVars, diskVars, runVars, playVars
<1>14. CASE CloseSession
  BY <1>14 DEF CloseSession, Go, At, worldVars, diskVars, runVars, playVars
<1>15. CASE DeclareInactive
  BY <1>15 DEF DeclareInactive, Go, At, worldVars, diskVars, runVars, playVars
<1>16. CASE Settle
  BY <1>16 DEF Settle, Go, Remember, At, diskVars, worldVars, sessVars, runVars, playVars
<1>17. CASE BootAnswered
  BY <1>17 DEF BootAnswered, Go, At, worldVars, diskVars, sessVars, playVars
<1>18. CASE ErrorAnswered
  BY <1>18 DEF ErrorAnswered, Go, SessionErrorFatal, At, worldVars, diskVars, sessVars, playVars
<1>19. CASE RequestAnswered
  BY <1>19 DEF RequestAnswered, Go, At, worldVars, diskVars, sessVars, runVars, playVars
<1>20. CASE StartSource
  BY <1>20 DEF StartSource, Go, At, worldVars, diskVars, sessVars, runVars, playVars
<1>21. CASE SessionError
  BY <1>21 DEF SessionError, Go, At, worldVars, diskVars, sessVars, runVars, playVars
<1>22. CASE PlaybackEndStops
  BY <1>22 DEF PlaybackEndStops, At, RequestStop, CloseForStop, sessVars, worldVars, diskVars,
       playVars
<1>23. CASE PlaybackEndHolds
  BY <1>23 DEF PlaybackEndHolds, Go, At, worldVars, diskVars, sessVars, runVars
<1>24. CASE RunStopDue
  BY <1>24 DEF RunStopDue, At, RequestStop, CloseForStop, sessVars, worldVars, diskVars,
       playVars
<1>25. CASE QuitLoop
  BY <1>25 DEF QuitLoop, Go, At, worldVars, diskVars, sessVars, runVars, playVars
<1>26. CASE Shutdown
  BY <1>26 DEF Shutdown, Go, At, CloseForStop, diskVars, playVars
<1>27. CASE StopSignalReturns
  BY <1>27 DEF StopSignalReturns, RequestStop, CloseForStop, sessVars, worldVars, diskVars,
       playVars
<1>28. CASE Crash
  BY <1>28 DEF Crash, Fresh, Alive, diskVars
<1>29. [Next]_vars =>
         \/ UNCHANGED <<deploy, main, cmd, session>>
         \/ StartProcess \/ EnterBootState \/ Request \/ ActivateRefused \/ BeginActivate
         \/ OpenFails \/ OpenSession \/ PublishSession \/ DeclareActive
         \/ DeactivateRefused \/ BeginDeactivate \/ UnpublishSession \/ CloseSession
         \/ DeclareInactive \/ Settle \/ BootAnswered \/ ErrorAnswered \/ RequestAnswered
         \/ StartSource \/ SessionError \/ PlaybackEndStops \/ PlaybackEndHolds
         \/ RunStopDue \/ QuitLoop \/ Shutdown \/ StopSignalReturns \/ Crash
  BY DEF Next, Callback, LoopEvent, Environment, Finished, vars, procVars, worldVars, diskVars,
       sessVars, runVars, playVars, PlaybackRuns, PipelineError, RecorderFails, PlaybackEnds,
       PlaybackRestarted, SourceChanged, StopSignal
<1> QED BY <1>1, <1>2, <1>3, <1>4, <1>5, <1>6, <1>7, <1>8, <1>9, <1>10, <1>11, <1>12, <1>13,
     <1>14, <1>15, <1>16, <1>17, <1>18, <1>19, <1>20, <1>21, <1>22, <1>23, <1>24, <1>25, <1>26,
     <1>27, <1>28, <1>29

(* Every step keeps the ownership of recorders.                            *)
LEMMA OwnStep ==
  ASSUME TypeOK, OwnInv, [Next]_vars
  PROVE  OwnInv'
<1> USE LifecycleAssumption DEF TypeOK
<1>1. CASE UNCHANGED <<main, cmd, session, recorders, seq>>
  BY <1>1 DEF OwnInv, SessTypeOK, Sessions
<1>2. CASE StartProcess
  BY <1>2 DEF StartProcess, Fresh, NoCmd, diskVars, OwnInv, SessTypeOK, Sessions
<1>3. CASE EnterBootState
  BY <1>3 DEF EnterBootState, Go, Command, At, BootState, worldVars, diskVars, sessVars,
       runVars, playVars, OwnInv, SessTypeOK, Sessions
<1>4. CASE Request
  BY <1>4 DEF Request, Go, Command, At, worldVars, diskVars, sessVars, runVars, playVars,
       OwnInv, SessTypeOK, Sessions
<1>5. CASE ActivateRefused
  BY <1>5 DEF ActivateRefused, Go, At, worldVars, diskVars, sessVars, runVars, playVars, OwnInv,
       SessTypeOK, Sessions
<1>6. CASE BeginActivate
  BY <1>6 DEF BeginActivate, Go, At, worldVars, diskVars, runVars, playVars, OwnInv, SessTypeOK,
       Sessions
<1>7. CASE OpenFails
  BY <1>7 DEF OpenFails, Go, At, worldVars, diskVars, runVars, playVars, OwnInv, SessTypeOK,
       Sessions
<1>8. CASE OpenSession
  BY <1>8 DEF OpenSession, Go, At, worldVars, diskVars, runVars, playVars, OwnInv, SessTypeOK,
       Sessions
<1>9. CASE PublishSession
  BY <1>9 DEF PublishSession, Go, At, worldVars, diskVars, runVars, playVars, OwnInv,
       SessTypeOK, Sessions
<1>10. CASE DeclareActive
  BY <1>10 DEF DeclareActive, Go, At, worldVars, diskVars, runVars, playVars, OwnInv,
       SessTypeOK, Sessions
<1>11. CASE DeactivateRefused
  BY <1>11 DEF DeactivateRefused, Go, Uncommanded, At, worldVars, diskVars, sessVars, runVars,
       playVars, OwnInv, SessTypeOK, Sessions
<1>12. CASE BeginDeactivate
  BY <1>12 DEF BeginDeactivate, Go, At, worldVars, diskVars, runVars, playVars, OwnInv,
       SessTypeOK, Sessions
<1>13. CASE UnpublishSession
  BY <1>13 DEF UnpublishSession, Go, At, worldVars, diskVars, runVars, playVars, OwnInv,
       SessTypeOK, Sessions
<1>14. CASE CloseSession
  BY <1>14 DEF CloseSession, Go, At, worldVars, diskVars, runVars, playVars, OwnInv, SessTypeOK,
       Sessions
<1>15. CASE DeclareInactive
  BY <1>15 DEF DeclareInactive, Go, At, worldVars, diskVars, runVars, playVars, OwnInv,
       SessTypeOK, Sessions
<1>16. CASE Settle
  BY <1>16 DEF Settle, Go, Remember, Uncommanded, At, diskVars, worldVars, sessVars, runVars,
       playVars, OwnInv, SessTypeOK, Sessions
<1>17. CASE BootAnswered
  BY <1>17 DEF BootAnswered, Go, NoCmd, At, worldVars, diskVars, sessVars, playVars, OwnInv,
       SessTypeOK, Sessions
<1>18. CASE ErrorAnswered
  BY <1>18 DEF ErrorAnswered, Go, SessionErrorFatal, NoCmd, At, worldVars, diskVars, sessVars,
       playVars, OwnInv, SessTypeOK, Sessions
<1>19. CASE RequestAnswered
  BY <1>19 DEF RequestAnswered, Go, NoCmd, At, worldVars, diskVars, sessVars, runVars, playVars,
       OwnInv, SessTypeOK, Sessions
<1>20. CASE StartSource
  BY <1>20 DEF StartSource, Go, At, worldVars, diskVars, sessVars, runVars, playVars, OwnInv,
       SessTypeOK, Sessions
<1>21. CASE SessionError
  BY <1>21 DEF SessionError, Go, Command, At, worldVars, diskVars, sessVars, runVars, playVars,
       OwnInv, SessTypeOK, Sessions
<1>22. CASE PlaybackEndStops
  BY <1>22 DEF PlaybackEndStops, At, RequestStop, CloseForStop, sessVars, worldVars, diskVars,
       playVars, OwnInv, SessTypeOK, Sessions
<1>23. CASE PlaybackEndHolds
  BY <1>23 DEF PlaybackEndHolds, Go, At, Command, worldVars, diskVars, sessVars, runVars,
       OwnInv, SessTypeOK, Sessions
<1>24. CASE RunStopDue
  BY <1>24 DEF RunStopDue, At, RequestStop, CloseForStop, sessVars, worldVars, diskVars,
       playVars, OwnInv, SessTypeOK, Sessions
<1>25. CASE QuitLoop
  BY <1>25 DEF QuitLoop, Go, At, worldVars, diskVars, sessVars, runVars, playVars, OwnInv,
       SessTypeOK, Sessions
<1>26. CASE Shutdown
  BY <1>26 DEF Shutdown, Go, At, CloseForStop, diskVars, playVars, OwnInv, SessTypeOK, Sessions
<1>27. CASE StopSignalReturns
  BY <1>27, CloseOwns DEF StopSignalReturns, RequestStop, OwnInv, sessVars
<1>28. CASE Crash
  BY <1>28 DEF Crash, Fresh, Alive, NoCmd, diskVars, OwnInv, SessTypeOK, Sessions
<1>29. [Next]_vars =>
         \/ UNCHANGED <<main, cmd, session, recorders, seq>>
         \/ StartProcess \/ EnterBootState \/ Request \/ ActivateRefused \/ BeginActivate
         \/ OpenFails \/ OpenSession \/ PublishSession \/ DeclareActive
         \/ DeactivateRefused \/ BeginDeactivate \/ UnpublishSession \/ CloseSession
         \/ DeclareInactive \/ Settle \/ BootAnswered \/ ErrorAnswered \/ RequestAnswered
         \/ StartSource \/ SessionError \/ PlaybackEndStops \/ PlaybackEndHolds
         \/ RunStopDue \/ QuitLoop \/ Shutdown \/ StopSignalReturns \/ Crash
  BY DEF Next, Callback, LoopEvent, Environment, Finished, vars, procVars, worldVars, diskVars,
       sessVars, runVars, playVars, PlaybackRuns, PipelineError, RecorderFails, PlaybackEnds,
       PlaybackRestarted, SourceChanged, StopSignal
<1> QED BY <1>1, <1>2, <1>3, <1>4, <1>5, <1>6, <1>7, <1>8, <1>9, <1>10, <1>11, <1>12, <1>13,
     <1>14, <1>15, <1>16, <1>17, <1>18, <1>19, <1>20, <1>21, <1>22, <1>23, <1>24, <1>25, <1>26,
     <1>27, <1>28, <1>29

(* Every step keeps the state in step with the session.                    *)
LEMMA StateStep ==
  ASSUME TypeOK, OwnInv, PathInv, StateInv, [Next]_vars
  PROVE  StateInv'
<1> USE LifecycleAssumption DEF TypeOK, SessTypeOK, Sessions, StateInv, OwnInv
<1>1. CASE UNCHANGED <<main, state, session, stopping>>
  BY <1>1
<1>2. CASE StartProcess
  BY <1>2 DEF StartProcess, Fresh, NoCmd, diskVars
<1>3. CASE EnterBootState
  BY <1>3 DEF EnterBootState, Go, Command, At, BootState, worldVars, diskVars, sessVars,
       runVars, playVars
<1>4. CASE Request
  BY <1>4 DEF Request, Go, Command, At, worldVars, diskVars, sessVars, runVars, playVars
<1>5. CASE ActivateRefused
  BY <1>5 DEF ActivateRefused, Go, At, worldVars, diskVars, sessVars, runVars, playVars
<1>6. CASE BeginActivate
  BY <1>6 DEF BeginActivate, Go, At, worldVars, diskVars, runVars, playVars
<1>7. CASE OpenFails
  BY <1>7 DEF OpenFails, Go, At, worldVars, diskVars, runVars, playVars
<1>8. CASE OpenSession
  BY <1>8 DEF OpenSession, Go, At, worldVars, diskVars, runVars, playVars
<1>9. CASE PublishSession
  BY <1>9 DEF PublishSession, Go, At, worldVars, diskVars, runVars, playVars
<1>10. CASE DeclareActive
  BY <1>10 DEF DeclareActive, Go, At, worldVars, diskVars, runVars, playVars
<1>11. CASE DeactivateRefused
  BY <1>11 DEF DeactivateRefused, Go, Uncommanded, At, worldVars, diskVars, sessVars, runVars,
       playVars
<1>12. CASE BeginDeactivate
  BY <1>12 DEF BeginDeactivate, Go, At, worldVars, diskVars, runVars, playVars
<1>13. CASE UnpublishSession
  BY <1>13 DEF UnpublishSession, Go, At, worldVars, diskVars, runVars, playVars
<1>14. CASE CloseSession
  BY <1>14 DEF CloseSession, Go, At, worldVars, diskVars, runVars, playVars
<1>15. CASE DeclareInactive
  BY <1>15 DEF DeclareInactive, Go, At, worldVars, diskVars, runVars, playVars
<1>16. CASE Settle
  BY <1>16 DEF Settle, Go, Remember, Uncommanded, At, diskVars, worldVars, sessVars, runVars,
       playVars
<1>17. CASE BootAnswered
  BY <1>17 DEF BootAnswered, Go, NoCmd, At, worldVars, diskVars, sessVars, playVars
<1>18. CASE ErrorAnswered
  BY <1>18 DEF ErrorAnswered, Go, SessionErrorFatal, NoCmd, At, worldVars, diskVars, sessVars,
       playVars
<1>19. CASE RequestAnswered
  BY <1>19 DEF RequestAnswered, Go, NoCmd, At, worldVars, diskVars, sessVars, runVars, playVars
<1>20. CASE StartSource
  BY <1>20 DEF StartSource, Go, At, worldVars, diskVars, sessVars, runVars, playVars
<1>21. CASE SessionError
  BY <1>21 DEF SessionError, Go, Command, At, worldVars, diskVars, sessVars, runVars, playVars
<1>22. CASE PlaybackEndStops
  BY <1>22 DEF PlaybackEndStops, At, RequestStop, CloseForStop, sessVars, worldVars, diskVars,
       playVars
<1>23. CASE PlaybackEndHolds
  BY <1>23 DEF PlaybackEndHolds, Go, At, Command, worldVars, diskVars, sessVars, runVars
<1>24. CASE RunStopDue
  BY <1>24 DEF RunStopDue, At, RequestStop, CloseForStop, sessVars, worldVars, diskVars,
       playVars
<1>25. CASE QuitLoop
  BY <1>25 DEF QuitLoop, Go, At, worldVars, diskVars, sessVars, runVars, playVars
<1>26. CASE Shutdown
  BY <1>26 DEF Shutdown, Go, At, CloseForStop, diskVars, playVars
<1>27. CASE StopSignalReturns
  BY <1>27 DEF StopSignalReturns, RequestStop, CloseForStop, sessVars, worldVars, diskVars,
       playVars
<1>28. CASE Crash
  BY <1>28 DEF Crash, Fresh, Alive, NoCmd, diskVars
<1>29. [Next]_vars =>
         \/ UNCHANGED <<main, state, session, stopping>>
         \/ StartProcess \/ EnterBootState \/ Request \/ ActivateRefused \/ BeginActivate
         \/ OpenFails \/ OpenSession \/ PublishSession \/ DeclareActive
         \/ DeactivateRefused \/ BeginDeactivate \/ UnpublishSession \/ CloseSession
         \/ DeclareInactive \/ Settle \/ BootAnswered \/ ErrorAnswered \/ RequestAnswered
         \/ StartSource \/ SessionError \/ PlaybackEndStops \/ PlaybackEndHolds
         \/ RunStopDue \/ QuitLoop \/ Shutdown \/ StopSignalReturns \/ Crash
  BY DEF Next, Callback, LoopEvent, Environment, Finished, vars, procVars, worldVars, diskVars,
       sessVars, runVars, playVars, PlaybackRuns, PipelineError, RecorderFails, PlaybackEnds,
       PlaybackRestarted, SourceChanged, StopSignal
<1> QED BY <1>1, <1>2, <1>3, <1>4, <1>5, <1>6, <1>7, <1>8, <1>9, <1>10, <1>11, <1>12, <1>13,
     <1>14, <1>15, <1>16, <1>17, <1>18, <1>19, <1>20, <1>21, <1>22, <1>23, <1>24, <1>25, <1>26,
     <1>27, <1>28, <1>29

(* Every step keeps what the file says of the state.                       *)
LEMMA FileStep ==
  ASSUME TypeOK, PathInv, OwnInv, StateInv, FileInv, [Next]_vars
  PROVE  FileInv'
<1> USE LifecycleAssumption DEF TypeOK, Deploy, DiskTypeOK, SessTypeOK, Sessions, FileInv,
     StateInv, OwnInv, PathInv, BootState, Command, NoCmd, Uncommanded
<1>1. CASE UNCHANGED <<deploy, file, stale, main, handler, cmd, state, stopping>>
  BY <1>1
<1>2. CASE StartProcess
  BY <1>2 DEF StartProcess, Fresh, diskVars
<1>3. CASE EnterBootState
  BY <1>3 DEF EnterBootState, Go, At, worldVars, diskVars, sessVars, runVars, playVars
<1>4. CASE Request
  BY <1>4 DEF Request, Go, At, worldVars, diskVars, sessVars, runVars, playVars
<1>5. CASE ActivateRefused
  BY <1>5 DEF ActivateRefused, Go, At, worldVars, diskVars, sessVars, runVars, playVars
<1>6. CASE BeginActivate
  BY <1>6 DEF BeginActivate, Go, At, worldVars, diskVars, runVars, playVars
<1>7. CASE OpenFails
  BY <1>7 DEF OpenFails, Go, At, worldVars, diskVars, runVars, playVars
<1>8. CASE OpenSession
  BY <1>8 DEF OpenSession, Go, At, worldVars, diskVars, runVars, playVars
<1>9. CASE PublishSession
  BY <1>9 DEF PublishSession, Go, At, worldVars, diskVars, runVars, playVars
<1>10. CASE DeclareActive
  BY <1>10 DEF DeclareActive, Go, At, worldVars, diskVars, runVars, playVars
<1>11. CASE DeactivateRefused
  BY <1>11 DEF DeactivateRefused, Go, At, worldVars, diskVars, sessVars, runVars, playVars
<1>12. CASE BeginDeactivate
  BY <1>12 DEF BeginDeactivate, Go, At, worldVars, diskVars, runVars, playVars
<1>13. CASE UnpublishSession
  BY <1>13 DEF UnpublishSession, Go, At, worldVars, diskVars, runVars, playVars
<1>14. CASE CloseSession
  BY <1>14 DEF CloseSession, Go, At, worldVars, diskVars, runVars, playVars
<1>15. CASE DeclareInactive
  BY <1>15 DEF DeclareInactive, Go, At, worldVars, diskVars, runVars, playVars
<1>16. CASE Settle
  BY <1>16 DEF Settle, Go, Remember, At, diskVars, worldVars, sessVars, runVars, playVars
<1>17. CASE BootAnswered
  BY <1>17 DEF BootAnswered, Go, At, worldVars, diskVars, sessVars, playVars
<1>18. CASE ErrorAnswered
  BY <1>18 DEF ErrorAnswered, Go, SessionErrorFatal, At, worldVars, diskVars, sessVars, playVars
<1>19. CASE RequestAnswered
  BY <1>19 DEF RequestAnswered, Go, At, worldVars, diskVars, sessVars, runVars, playVars
<1>20. CASE StartSource
  BY <1>20 DEF StartSource, Go, At, worldVars, diskVars, sessVars, runVars, playVars
<1>21. CASE SessionError
  BY <1>21 DEF SessionError, Go, At, worldVars, diskVars, sessVars, runVars, playVars
<1>22. CASE PlaybackEndStops
  BY <1>22 DEF PlaybackEndStops, At, RequestStop, CloseForStop, sessVars, worldVars, diskVars,
       playVars
<1>23. CASE PlaybackEndHolds
  BY <1>23 DEF PlaybackEndHolds, Go, At, worldVars, diskVars, sessVars, runVars
<1>24. CASE RunStopDue
  BY <1>24 DEF RunStopDue, At, RequestStop, CloseForStop, sessVars, worldVars, diskVars,
       playVars
<1>25. CASE QuitLoop
  BY <1>25 DEF QuitLoop, Go, At, worldVars, diskVars, sessVars, runVars, playVars
<1>26. CASE Shutdown
  BY <1>26 DEF Shutdown, Go, At, CloseForStop, diskVars, playVars
<1>27. CASE StopSignal
  BY <1>27 DEF StopSignal, Forget, Alive, diskVars, worldVars, sessVars, runVars, playVars
<1>28. CASE StopSignalReturns
  BY <1>28 DEF StopSignalReturns, RequestStop, CloseForStop, sessVars, worldVars, diskVars,
       playVars
<1>29. CASE Crash
  BY <1>29 DEF Crash, Fresh, Alive, diskVars
<1>30. [Next]_vars =>
         \/ UNCHANGED <<deploy, file, stale, main, handler, cmd, state, stopping>>
         \/ StartProcess \/ EnterBootState \/ Request \/ ActivateRefused \/ BeginActivate
         \/ OpenFails \/ OpenSession \/ PublishSession \/ DeclareActive
         \/ DeactivateRefused \/ BeginDeactivate \/ UnpublishSession \/ CloseSession
         \/ DeclareInactive \/ Settle \/ BootAnswered \/ ErrorAnswered \/ RequestAnswered
         \/ StartSource \/ SessionError \/ PlaybackEndStops \/ PlaybackEndHolds
         \/ RunStopDue \/ QuitLoop \/ Shutdown \/ StopSignal \/ StopSignalReturns \/ Crash
  BY DEF Next, Callback, LoopEvent, Environment, Finished, vars, procVars, worldVars, diskVars,
       sessVars, runVars, playVars, PlaybackRuns, PipelineError, RecorderFails, PlaybackEnds,
       PlaybackRestarted, SourceChanged
<1> QED BY <1>1, <1>2, <1>3, <1>4, <1>5, <1>6, <1>7, <1>8, <1>9, <1>10, <1>11, <1>12, <1>13,
     <1>14, <1>15, <1>16, <1>17, <1>18, <1>19, <1>20, <1>21, <1>22, <1>23, <1>24, <1>25, <1>26,
     <1>27, <1>28, <1>29, <1>30

(* Every step keeps an idle stop final.                                    *)
LEMMA StopStep ==
  ASSUME TypeOK, PathInv, StateInv, StopInv, ForgetInv, [Next]_vars
  PROVE  StopInv'
<1> USE LifecycleAssumption DEF TypeOK, RunTypeOK, StopInv, StateInv, Command, NoCmd
<1>1. CASE UNCHANGED <<handler, signalled, main, cmd, state, session, stopping>>
  BY <1>1
<1>2. CASE StartProcess
  BY <1>2 DEF StartProcess, Fresh, diskVars
<1>3. CASE EnterBootState
  BY <1>3 DEF EnterBootState, Go, At, BootState, worldVars, diskVars, sessVars, runVars,
       playVars
<1>4. CASE Request
  BY <1>4 DEF Request, Go, At, worldVars, diskVars, sessVars, runVars, playVars
<1>5. CASE ActivateRefused
  BY <1>5 DEF ActivateRefused, Go, At, worldVars, diskVars, sessVars, runVars, playVars
<1>6. CASE BeginActivate
  BY <1>6 DEF BeginActivate, Go, At, worldVars, diskVars, runVars, playVars
<1>7. CASE OpenFails
  BY <1>7 DEF OpenFails, Go, At, worldVars, diskVars, runVars, playVars
<1>8. CASE OpenSession
  BY <1>8 DEF OpenSession, Go, At, worldVars, diskVars, runVars, playVars
<1>9. CASE PublishSession
  BY <1>9 DEF PublishSession, Go, At, worldVars, diskVars, runVars, playVars
<1>10. CASE DeclareActive
  BY <1>10 DEF DeclareActive, Go, At, worldVars, diskVars, runVars, playVars
<1>11. CASE DeactivateRefused
  BY <1>11 DEF DeactivateRefused, Go, Uncommanded, At, worldVars, diskVars, sessVars, runVars,
       playVars
<1>12. CASE BeginDeactivate
  BY <1>12 DEF BeginDeactivate, Go, At, worldVars, diskVars, runVars, playVars
<1>13. CASE UnpublishSession
  BY <1>13 DEF UnpublishSession, Go, At, worldVars, diskVars, runVars, playVars
<1>14. CASE CloseSession
  BY <1>14 DEF CloseSession, Go, At, worldVars, diskVars, runVars, playVars
<1>15. CASE DeclareInactive
  BY <1>15 DEF DeclareInactive, Go, At, worldVars, diskVars, runVars, playVars
<1>16. CASE Settle
  BY <1>16 DEF Settle, Go, Remember, Uncommanded, At, diskVars, worldVars, sessVars, runVars,
       playVars
<1>17. CASE BootAnswered
  BY <1>17 DEF BootAnswered, Go, At, worldVars, diskVars, sessVars, playVars
<1>18. CASE ErrorAnswered
  BY <1>18 DEF ErrorAnswered, Go, SessionErrorFatal, At, worldVars, diskVars, sessVars, playVars
<1>19. CASE RequestAnswered
  BY <1>19 DEF RequestAnswered, Go, At, worldVars, diskVars, sessVars, runVars, playVars
<1>20. CASE StartSource
  BY <1>20 DEF StartSource, Go, At, worldVars, diskVars, sessVars, runVars, playVars
<1>21. CASE SessionError
  BY <1>21 DEF SessionError, Go, At, worldVars, diskVars, sessVars, runVars, playVars
<1>22. CASE PlaybackEndStops
  BY <1>22 DEF PlaybackEndStops, At, RequestStop, CloseForStop, sessVars, worldVars, diskVars,
       playVars
<1>23. CASE PlaybackEndHolds
  BY <1>23 DEF PlaybackEndHolds, Go, At, worldVars, diskVars, sessVars, runVars
<1>24. CASE RunStopDue
  BY <1>24 DEF RunStopDue, At, RequestStop, CloseForStop, sessVars, worldVars, diskVars,
       playVars
<1>25. CASE QuitLoop
  BY <1>25 DEF QuitLoop, Go, At, worldVars, diskVars, sessVars, runVars, playVars
<1>26. CASE Shutdown
  BY <1>26 DEF Shutdown, Go, At, CloseForStop, diskVars, playVars
<1>27. CASE StopSignal
  BY <1>27 DEF StopSignal, Forget, Alive, diskVars, worldVars, sessVars, runVars, playVars
<1>28. CASE StopSignalReturns
  BY <1>28 DEF StopSignalReturns, RequestStop, CloseForStop, sessVars, worldVars, diskVars,
       playVars
<1>29. CASE Crash
  BY <1>29 DEF Crash, Fresh, Alive, diskVars
<1>30. [Next]_vars =>
         \/ UNCHANGED <<handler, signalled, main, cmd, state, session, stopping>>
         \/ StartProcess \/ EnterBootState \/ Request \/ ActivateRefused \/ BeginActivate
         \/ OpenFails \/ OpenSession \/ PublishSession \/ DeclareActive
         \/ DeactivateRefused \/ BeginDeactivate \/ UnpublishSession \/ CloseSession
         \/ DeclareInactive \/ Settle \/ BootAnswered \/ ErrorAnswered \/ RequestAnswered
         \/ StartSource \/ SessionError \/ PlaybackEndStops \/ PlaybackEndHolds
         \/ RunStopDue \/ QuitLoop \/ Shutdown \/ StopSignal \/ StopSignalReturns \/ Crash
  BY DEF Next, Callback, LoopEvent, Environment, Finished, vars, procVars, worldVars, diskVars,
       sessVars, runVars, playVars, PlaybackRuns, PipelineError, RecorderFails, PlaybackEnds,
       PlaybackRestarted, SourceChanged
<1> QED BY <1>1, <1>2, <1>3, <1>4, <1>5, <1>6, <1>7, <1>8, <1>9, <1>10, <1>11, <1>12, <1>13,
     <1>14, <1>15, <1>16, <1>17, <1>18, <1>19, <1>20, <1>21, <1>22, <1>23, <1>24, <1>25, <1>26,
     <1>27, <1>28, <1>29, <1>30

(* Every step keeps the file forgotten.                                    *)
LEMMA ForgetStep ==
  ASSUME TypeOK, StopInv, ForgetInv, [Next]_vars
  PROVE  ForgetInv'
<1> USE LifecycleAssumption DEF StopInv, ForgetInv
<1>1. CASE UNCHANGED <<deploy, file, stale, main, handler, signalled, stopping>>
  BY <1>1
<1>2. CASE StartProcess
  BY <1>2 DEF StartProcess, Fresh, NoCmd, diskVars
<1>3. CASE EnterBootState
  BY <1>3 DEF EnterBootState, Go, Command, At, BootState, worldVars, diskVars, sessVars,
       runVars, playVars
<1>4. CASE Request
  BY <1>4 DEF Request, Go, Command, At, worldVars, diskVars, sessVars, runVars, playVars
<1>5. CASE ActivateRefused
  BY <1>5 DEF ActivateRefused, Go, At, worldVars, diskVars, sessVars, runVars, playVars
<1>6. CASE BeginActivate
  BY <1>6 DEF BeginActivate, Go, At, worldVars, diskVars, runVars, playVars
<1>7. CASE OpenFails
  BY <1>7 DEF OpenFails, Go, At, worldVars, diskVars, runVars, playVars
<1>8. CASE OpenSession
  BY <1>8 DEF OpenSession, Go, At, worldVars, diskVars, runVars, playVars
<1>9. CASE PublishSession
  BY <1>9 DEF PublishSession, Go, At, worldVars, diskVars, runVars, playVars
<1>10. CASE DeclareActive
  BY <1>10 DEF DeclareActive, Go, At, worldVars, diskVars, runVars, playVars
<1>11. CASE DeactivateRefused
  BY <1>11 DEF DeactivateRefused, Go, Uncommanded, At, worldVars, diskVars, sessVars, runVars,
       playVars
<1>12. CASE BeginDeactivate
  BY <1>12 DEF BeginDeactivate, Go, At, worldVars, diskVars, runVars, playVars
<1>13. CASE UnpublishSession
  BY <1>13 DEF UnpublishSession, Go, At, worldVars, diskVars, runVars, playVars
<1>14. CASE CloseSession
  BY <1>14 DEF CloseSession, Go, At, worldVars, diskVars, runVars, playVars
<1>15. CASE DeclareInactive
  BY <1>15 DEF DeclareInactive, Go, At, worldVars, diskVars, runVars, playVars
<1>16. CASE Settle
  BY <1>16 DEF Settle, Go, Remember, Uncommanded, At, diskVars, worldVars, sessVars, runVars,
       playVars
<1>17. CASE BootAnswered
  BY <1>17 DEF BootAnswered, Go, NoCmd, At, worldVars, diskVars, sessVars, playVars
<1>18. CASE ErrorAnswered
  BY <1>18 DEF ErrorAnswered, Go, SessionErrorFatal, NoCmd, At, worldVars, diskVars, sessVars,
       playVars
<1>19. CASE RequestAnswered
  BY <1>19 DEF RequestAnswered, Go, NoCmd, At, worldVars, diskVars, sessVars, runVars, playVars
<1>20. CASE StartSource
  BY <1>20 DEF StartSource, Go, At, worldVars, diskVars, sessVars, runVars, playVars
<1>21. CASE SessionError
  BY <1>21 DEF SessionError, Go, Command, At, worldVars, diskVars, sessVars, runVars, playVars
<1>22. CASE PlaybackEndStops
  BY <1>22 DEF PlaybackEndStops, At, RequestStop, CloseForStop, sessVars, worldVars, diskVars,
       playVars
<1>23. CASE PlaybackEndHolds
  BY <1>23 DEF PlaybackEndHolds, Go, At, Command, worldVars, diskVars, sessVars, runVars
<1>24. CASE RunStopDue
  BY <1>24 DEF RunStopDue, At, RequestStop, CloseForStop, sessVars, worldVars, diskVars,
       playVars
<1>25. CASE QuitLoop
  BY <1>25 DEF QuitLoop, Go, At, worldVars, diskVars, sessVars, runVars, playVars
<1>26. CASE Shutdown
  BY <1>26 DEF Shutdown, Go, At, CloseForStop, diskVars, playVars
<1>27. CASE StopSignal
  BY <1>27 DEF StopSignal, Forget, Alive, diskVars, worldVars, sessVars, runVars, playVars
<1>28. CASE StopSignalReturns
  BY <1>28 DEF StopSignalReturns, RequestStop, CloseForStop, sessVars, worldVars, diskVars,
       playVars
<1>29. CASE Crash
  BY <1>29 DEF Crash, Fresh, Alive, NoCmd, diskVars
<1>30. [Next]_vars =>
         \/ UNCHANGED <<deploy, file, stale, main, handler, signalled, stopping>>
         \/ StartProcess \/ EnterBootState \/ Request \/ ActivateRefused \/ BeginActivate
         \/ OpenFails \/ OpenSession \/ PublishSession \/ DeclareActive
         \/ DeactivateRefused \/ BeginDeactivate \/ UnpublishSession \/ CloseSession
         \/ DeclareInactive \/ Settle \/ BootAnswered \/ ErrorAnswered \/ RequestAnswered
         \/ StartSource \/ SessionError \/ PlaybackEndStops \/ PlaybackEndHolds
         \/ RunStopDue \/ QuitLoop \/ Shutdown \/ StopSignal \/ StopSignalReturns \/ Crash
  BY DEF Next, Callback, LoopEvent, Environment, Finished, vars, procVars, worldVars, diskVars,
       sessVars, runVars, playVars, PlaybackRuns, PipelineError, RecorderFails, PlaybackEnds,
       PlaybackRestarted, SourceChanged
<1> QED BY <1>1, <1>2, <1>3, <1>4, <1>5, <1>6, <1>7, <1>8, <1>9, <1>10, <1>11, <1>12, <1>13,
     <1>14, <1>15, <1>16, <1>17, <1>18, <1>19, <1>20, <1>21, <1>22, <1>23, <1>24, <1>25, <1>26,
     <1>27, <1>28, <1>29, <1>30

-----------------------------------------------------------------------------
(* The theorems.                                                           *)

(* A service that never ran satisfies the invariant.                       *)
LEMMA InitIInv == Init => IInv
<1> SUFFICES ASSUME Init PROVE IInv
  OBVIOUS
<1> USE LifecycleAssumption DEF Init
<1>1. TypeOK
  <2>1. DiskTypeOK
    <3>1. 0 \in 0..MaxBoots
      OBVIOUS
    <3>2. file = "none" /\ stale = FALSE /\ exit = "none" /\ boots = 0
      OBVIOUS
    <3> HIDE DEF Init
    <3> QED BY <3>1, <3>2 DEF DiskTypeOK, ExitCode
  <2>4. SessTypeOK
    BY DEF SessTypeOK
  <2>2. ThreadTypeOK
    BY DEF ThreadTypeOK, MainPoint, NoCmd, Transition
  <2>3. RunTypeOK
    BY DEF RunTypeOK
  <2> QED BY <2>4, <2>1, <2>2, <2>3 DEF TypeOK
<1>2. PathInv /\ OwnInv /\ StateInv
  BY DEF PathInv, OwnInv, StateInv
<1>3. FileInv /\ StopInv /\ ForgetInv
  BY DEF FileInv, StopInv, ForgetInv
<1> QED BY <1>1, <1>2, <1>3 DEF IInv

(* The invariant is inductive.                                             *)
LEMMA NextIInv == IInv /\ [Next]_vars => IInv'
BY DeployStays, DiskTyped, ThreadTyped, SessTyped, RunTyped,
   PathStep, OwnStep, StateStep, FileStep, StopStep, ForgetStep
   DEF IInv, TypeOK

(* Every reachable state satisfies the invariant.                          *)
LEMMA Invariance == Spec => []IInv
BY InitIInv, NextIInv, PTL DEF Spec

(* Every variable keeps its type; in particular the remembered-state file  *)
(* is absent or holds a state a service can rest in (lifecycle.py:244-254).*)
THEOREM TypeCorrect == Spec => []TypeOK
<1>1. IInv => TypeOK
  BY DEF IInv
<1> QED BY <1>1, Invariance, PTL

(* No recorder is left without an owner, at rest or after an exit, by a    *)
(* signal in the middle of opening or closing one (pipeline.py:1077-1090). *)
THEOREM RecordersAreOwned == Spec => []NoOrphanRecorder
<1>1. IInv => NoOrphanRecorder
  BY DEF IInv, OwnInv, NoOrphanRecorder, At
<1> QED BY <1>1, Invariance, PTL

(* Between transitions the state tells whether a session is open           *)
(* (pipeline.py:909-976).                                                  *)
THEOREM StateIsHonest == Spec => []StateMatchesSession
<1>1. IInv => StateMatchesSession
  BY DEF IInv, StateInv, StateMatchesSession, At
<1> QED BY <1>1, Invariance, PTL

(* A crash of a service at rest restarts into the state it was in          *)
(* (lifecycle.py:114-121, 203-216, 244-254).                               *)
THEOREM CrashResumes == Spec => []CrashKeepsState
<1>1. IInv => CrashKeepsState
  BY DEF IInv, FileInv, CrashKeepsState, At
<1> QED BY <1>1, Invariance, PTL

(* A stop that found the loop at rest leaves no remembered state behind    *)
(* (main.py:148-154, lifecycle.py:256-266).                                *)
THEOREM IdleStopIsForgotten == Spec => []IdleStopForgets
<1>1. IInv => IdleStopForgets
  BY DEF IInv, ForgetInv, IdleStopForgets
<1> QED BY <1>1, Invariance, PTL

(* The next process boots from the right state, after a crash of a process *)
(* at rest and after a stop of one (lifecycle.py:203-266).                 *)
THEOREM NextBootIsRight == Spec => []FileTellsTheTruth
<1>1. CrashKeepsState /\ IdleStopForgets => FileTellsTheTruth
  BY DEF FileTellsTheTruth
<1> QED BY <1>1, CrashResumes, IdleStopIsForgotten, PTL

(* What the state says and what runs agree, and whatever runs is closed by *)
(* somebody (pipeline.py:909-1096).                                        *)
THEOREM SessionsAreOwned == Spec => []SessionIsOwned
<1>1. StateMatchesSession /\ NoOrphanRecorder => SessionIsOwned
  BY DEF SessionIsOwned
<1> QED BY <1>1, StateIsHonest, RecordersAreOwned, PTL

-------------------------------------------------------------------------------
(* The health monitor.                                                     *)

(* Who is where: the thread that a stop leaves behind owns the port until  *)
(* it has cleaned up, and only a file just replaced can outlive the run.   *)
WorkInv ==
  /\ mainAt \in {"boot", "clearing", "starting"} => worker = "none" /\ ~cleaned
  /\ mainAt \in {"join", "clean", "remove", "gone", "done"} => stopSet
  /\ interrupted = "run" => stopSet /\ mainAt \notin {"boot", "clearing"}
  /\ mainAt = "clean" => worker \in {"none", "dead"}
  /\ worker \notin {"none", "dead"} => ~cleaned
  /\ worker \in {"none", "dead"} => port = "closed"
  /\ mainAt \in {"gone", "done"} /\ snapshotFile => worker = "replaced"

(* The port is used inside a reading only.  An answer that is late was to  *)
(* one of the last commands, and to an earlier one than the one that is    *)
(* waited for.                                                             *)
PortInv ==
  /\ step # 0 => worker = "reading" /\ deviceKind = "boson"
  /\ asked => step # 0
  /\ step \in {1, 2} => port = "identifying"
  /\ step \in {3, 4} => port = "open"
  /\ step = 0 => port # "identifying"
  /\ step \in 1..3 => errs = 0
  /\ step = 4 => errs <= 1
  /\ ~confused
  /\ \A r \in late : ~r.old => /\ sequence = r.sequence + r.lag \/ sequence = r.sequence + r.lag - SeqMod
                               /\ asked => r.lag > 0

(* As long as no id is given out twice, what a poll has gathered, and the  *)
(* states that are kept between polls, are of the device that is known.    *)
DeviceInv ==
  /\ at # "none" => worker = "reading" /\ deviceKind = "genicam"
  /\ link # "up" => device < MaxReconnects
  /\ at \in {"hw", "temp"} => failed = 0
  /\ at = "state" => failed <= 1
  /\ at = "hw" => of = {}
  /\ ~recycled => id = device /\ status.of \in {-1, knownId} /\ of \subseteq {knownId}

(* What a row of a poll tells, be it stale or not.                         *)
Told(row) == IF row.level = STALE THEN row.last ELSE Severity(row)

(* What is about to be published, and what was.                            *)
RowsInv ==
  /\ worker \in {"device", "reading", "publish"} => Told(draft.stream) >= draft.truth
  /\ worker \in {"device", "reading"} => deviceKind # "plain"
  /\ worker = "publish" /\ deviceKind # "plain" =>
       Told(draft.camera) >= CameraTruth /\ draft.camera.age = silent
  /\ latest.some => \A c \in Reported :
       Shown(latest[c]) >= latest.truth[c] /\ born[c] <= latest[c].age + elapsed

HealthIInv == HealthTypeOK /\ WorkInv /\ PortInv /\ DeviceInv /\ RowsInv

-------------------------------------------------------------------------------
(* Levels, and the worst of some.                                          *)
Levels == 0..3

LEMMA MaxIs ==
  ASSUME NEW S \in SUBSET Levels, S # {}
  PROVE  Max(S) \in S /\ \A x \in S : Max(S) >= x
<1>1. \E x \in S : \A y \in S : x >= y
  <2>1. CASE 3 \in S
    BY <2>1 DEF Levels
  <2>2. CASE 3 \notin S /\ 2 \in S
    BY <2>2 DEF Levels
  <2>3. CASE 3 \notin S /\ 2 \notin S /\ 1 \in S
    BY <2>3 DEF Levels
  <2>4. CASE 3 \notin S /\ 2 \notin S /\ 1 \notin S
    <3>1. \A y \in S : y = 0
      BY <2>4 DEF Levels
    <3> QED BY <3>1
  <2> QED BY <2>1, <2>2, <2>3, <2>4
<1> DEFINE m == CHOOSE x \in S : \A y \in S : x >= y
<1>2. m \in S /\ \A y \in S : m >= y
  BY <1>1, Zenon
<1> QED BY <1>2, Zenon DEF Max

LEMMA MaxOfTwo ==
  ASSUME NEW a \in Levels, NEW b \in Levels
  PROVE  Max({a, b}) \in {a, b} /\ Max({a, b}) >= a /\ Max({a, b}) >= b
<1>1. {a, b} \in SUBSET Levels /\ {a, b} # {} /\ a \in {a, b} /\ b \in {a, b}
  OBVIOUS
<1> QED BY <1>1, MaxIs

LEMMA SeverityIs ==
  ASSUME NEW o, o.level \in Levels, o.lim \in Levels
  PROVE  Severity(o) \in {o.level, o.lim} /\ Severity(o) >= o.level /\ Severity(o) >= o.lim
BY MaxOfTwo DEF Severity

-------------------------------------------------------------------------------
(* Rows: what they show is never less than what they are made of.          *)

(* A row of a poll is good for a fault that it tells.                      *)
LEMMA ToldTyped ==
  ASSUME NEW r \in PollRows
  PROVE  Told(r) \in Faults /\ r.level \in Levels /\ r.lim \in Levels /\ r.last \in Faults
<1>1. r.level \in Faults \cup {STALE} /\ r.lim \in Faults /\ r.last \in Faults
  BY DEF PollRows
<1>2. r.level \in Levels /\ r.lim \in Levels
  BY <1>1 DEF Faults, STALE, OK, WARN, ERROR, Levels
<1>3. CASE r.level = STALE
  BY <1>1, <1>2, <1>3 DEF Told
<1>4. CASE r.level # STALE
  <2>1. Severity(r) \in {r.level, r.lim}
    BY <1>2, SeverityIs
  <2>2. Told(r) = Severity(r)
    BY <1>4 DEF Told
  <2>3. Told(r) \in Faults
    BY <1>1, <1>4, <2>1, <2>2
  <2> QED BY <1>1, <1>2, <2>3
<1> QED BY <1>2, <1>1, <1>3, <1>4

LEMMA CurrentIs ==
  ASSUME NEW o \in Observations, StaleAfter \in Nat
  PROVE  Current(o) \in PollRows /\ Told(Current(o)) = Severity(o) /\ Current(o).age = 0
<1>1. o.level \in Faults /\ o.lim \in Faults
  BY DEF Observations
<1>2. Current(o) \in PollRows
  BY <1>1 DEF Current, PollRows, Faults, OK, WARN, ERROR
<1>3. Current(o).level = o.level /\ Current(o).lim = o.lim /\ Current(o).level # STALE /\ Current(o).age = 0
  BY <1>1 DEF Current, Faults, OK, WARN, ERROR, STALE
<1> QED BY <1>2, <1>3 DEF Told, Severity

LEMMA HeldIs ==
  ASSUME NEW o \in Observations, NEW away \in BOOLEAN, NEW t \in 0..StaleAfter
  PROVE  Held(o, away, t) \in PollRows /\ Told(Held(o, away, t)) = Severity(o) /\ Held(o, away, t).age = t
<1> DEFINE r == Held(o, away, t)
<1>1. o.level \in Faults /\ o.lim \in Faults /\ Severity(o) \in Faults
  <2>1. o.level \in Faults /\ o.lim \in Faults
    BY DEF Observations
  <2>2. o.level \in Levels /\ o.lim \in Levels
    BY <2>1 DEF Faults, OK, WARN, ERROR, Levels
  <2> QED BY <2>1, <2>2, SeverityIs
<1>2. r.level = (IF away \/ t >= StaleAfter THEN STALE ELSE o.level) /\ r.lim = o.lim
      /\ r.last = Severity(o) /\ r.age = t
  BY DEF Held
<1>3. r \in PollRows
  BY <1>1 DEF Held, PollRows
<1>4. Told(r) = Severity(o)
  <2>1. CASE away \/ t >= StaleAfter
    BY <1>2, <2>1 DEF Told
  <2>2. CASE ~(away \/ t >= StaleAfter)
    <3>1. r.level = o.level /\ o.level # STALE
      BY <1>1, <1>2, <2>2 DEF Faults, OK, WARN, ERROR, STALE
    <3> QED BY <1>2, <3>1 DEF Told, Severity
  <2> QED BY <2>1, <2>2
<1> QED BY <1>2, <1>3, <1>4

LEMMA UnseenIs ==
  ASSUME NEW t \in 0..StaleAfter
  PROVE  Unseen(t) \in PollRows /\ Told(Unseen(t)) = OK /\ Unseen(t).age = t
<1>1. Unseen(t) \in PollRows
  BY DEF Unseen, PollRows, Faults, OK
<1> QED BY <1>1 DEF Unseen, Told

LEMMA ExpireIs ==
  ASSUME NEW r \in PollRows
  PROVE  Expire(r) \in PollRows /\ Told(Expire(r)) = Told(r) /\ Expire(r).age = r.age
<1>1. Told(r) \in Faults /\ r.level \in Levels /\ r.lim \in Levels /\ r.last \in Faults
  BY ToldTyped
<1>2. CASE r.age < StaleAfter
  BY <1>2 DEF Expire
<1>3. CASE ~(r.age < StaleAfter)
  <2> DEFINE l == IF r.level = STALE THEN r.last ELSE Severity(r)
  <2>1. l = Told(r)
    BY DEF Told
  <2> HIDE DEF l
  <2>2. Expire(r) = [r EXCEPT !.level = STALE, !.last = l]
    BY <1>3 DEF Expire, l
  <2>3. Expire(r) \in PollRows
    BY <1>1, <2>1, <2>2 DEF PollRows
  <2>4. Expire(r).level = STALE /\ Expire(r).last = l /\ Expire(r).age = r.age
    BY <2>2 DEF PollRows
  <2> QED BY <2>1, <2>3, <2>4 DEF Told
<1> QED BY <1>2, <1>3

(* Whatever one of its rows tells, the merged row shows.                   *)
LEMMA MergeIs ==
  ASSUME NEW owner \in PollRows, NEW rs \in SUBSET PollRows, rs # {}
  PROVE  /\ Merge(owner, rs) \in Rows
         /\ \A r \in rs : Shown(Merge(owner, rs)) >= Told(r)
         /\ Merge(owner, rs).age = owner.age
<1> DEFINE lim == Max({r.lim : r \in rs})
           level == Max({lim} \cup {r.level : r \in rs})
           known == {lim} \cup {IF r.level = STALE THEN r.last ELSE r.level : r \in rs}
           m == [level |-> level, last |-> IF level = STALE THEN Max(known) ELSE OK, age |-> owner.age]
<1>1. Merge(owner, rs) = m
  BY DEF Merge
<1>2. \A r \in rs : r.level \in Faults \cup {STALE} /\ r.lim \in Faults /\ r.last \in Faults
  BY DEF PollRows
<1>3. Faults \subseteq Levels /\ STALE \in Levels /\ OK \in Faults
  BY DEF Faults, OK, WARN, ERROR, STALE, Levels
<1>4. lim \in Faults /\ \A r \in rs : lim >= r.lim
  <2> DEFINE S == {r.lim : r \in rs}
  <2>1. S \in SUBSET Levels /\ S # {} /\ S \subseteq Faults
    BY <1>2, <1>3
  <2>2. Max(S) \in S /\ \A x \in S : Max(S) >= x
    BY <2>1, MaxIs
  <2> QED BY <2>1, <2>2
<1> HIDE DEF lim
<1>5. level \in Faults \cup {STALE} /\ level >= lim /\ \A r \in rs : level >= r.level
  <2> DEFINE S == {lim} \cup {r.level : r \in rs}
  <2>1. S \in SUBSET Levels /\ S # {} /\ S \subseteq Faults \cup {STALE}
    BY <1>2, <1>3, <1>4
  <2>2. Max(S) \in S /\ \A x \in S : Max(S) >= x
    BY <2>1, MaxIs
  <2> QED BY <2>1, <2>2
<1>6. Max(known) \in Faults /\ Max(known) >= lim
      /\ \A r \in rs : Max(known) >= (IF r.level = STALE THEN r.last ELSE r.level)
  <2>1. known \in SUBSET Levels /\ known # {} /\ known \subseteq Faults
    BY <1>2, <1>3, <1>4
  <2>2. Max(known) \in known /\ \A x \in known : Max(known) >= x
    BY <2>1, MaxIs
  <2> QED BY <2>1, <2>2
<1> HIDE DEF level, known
<1>7. m \in Rows
  BY <1>3, <1>5, <1>6 DEF Rows, PollRows
<1>8. ASSUME NEW r \in rs PROVE Shown(m) >= Told(r)
  <2>0. /\ r.level \in Levels /\ r.lim \in Levels /\ r.last \in Levels /\ lim \in Levels
        /\ level \in Levels /\ Max(known) \in Levels
        /\ lim >= r.lim /\ level >= r.level /\ level >= lim
        /\ Max(known) >= (IF r.level = STALE THEN r.last ELSE r.level) /\ Max(known) >= lim
    BY <1>2, <1>3, <1>4, <1>5, <1>6
  <2>1. Shown(m) = IF level = STALE THEN Max(known) ELSE level
    BY DEF Shown
  <2>2. CASE r.level = STALE
    <3>1. level = STALE
      BY <2>0, <2>2 DEF STALE, Levels
    <3> QED BY <2>0, <2>1, <2>2, <3>1 DEF Told
  <2>3. CASE r.level # STALE
    <3>1. Told(r) \in {r.level, r.lim}
      BY <2>0, <2>3, SeverityIs DEF Told
    <3>2. Told(r) \in Int /\ Shown(m) >= r.level /\ Shown(m) >= r.lim
      <4>1. CASE level = STALE
        <5>1. Shown(m) = Max(known) /\ Max(known) >= r.level /\ Max(known) >= lim /\ lim >= r.lim
          BY <2>0, <2>1, <2>3, <4>1
        <5> QED BY <5>1, <2>0, <3>1 DEF Levels
      <4>2. CASE level # STALE
        <5>1. Shown(m) = level
          BY <2>1, <4>2
        <5> QED BY <5>1, <2>0, <3>1 DEF Levels
      <4> QED BY <4>1, <4>2
    <3> QED BY <3>1, <3>2
  <2> QED BY <2>2, <2>3
<1>9. m.age = owner.age
  OBVIOUS
<1> QED BY <1>1, <1>7, <1>8, <1>9

(* Age changes nothing of what a row shows; a current one is young.        *)
LEMMA AgedIs ==
  ASSUME NEW row \in Rows, NEW t \in Nat, StaleAfter \in Nat
  PROVE  /\ Shown(Aged(row, t)) = Shown(row)
         /\ Aged(row, t).level # STALE => row.age + t < StaleAfter
<1>1. CASE row.age + t < StaleAfter
  <2>1. Aged(row, t) = [row EXCEPT !.age = row.age + t]
    BY <1>1 DEF Aged
  <2>2. Aged(row, t).level = row.level /\ Aged(row, t).last = row.last
    BY <2>1 DEF Rows
  <2> QED BY <1>1, <2>2 DEF Shown
<1>2. CASE ~(row.age + t < StaleAfter)
  <2>1. Aged(row, t).level = STALE
        /\ Aged(row, t).last = IF row.level = STALE THEN row.last ELSE row.level
    BY <1>2 DEF Aged
  <2> QED BY <2>1 DEF Shown
<1> QED BY <1>1, <1>2

-------------------------------------------------------------------------------
(* The steps, one action each.                                             *)
LEMMA StepCases ==
  ASSUME [HealthNext]_healthVars
  PROVE  \/ UNCHANGED healthVars
         \/ Wake \/ GiveUpPoll \/ PollPipeline
         \/ StartBoson \/ BosonStep \/ BosonGone \/ BosonEnds
         \/ StartGenicam \/ GenicamStep \/ GenicamRaises \/ GenicamEnds
         \/ Publish \/ CheckWrite \/ ReplaceFile \/ CheckReplaced \/ Observe \/ WorkerCleans
         \/ Start \/ ClearStop \/ StartThread \/ Join \/ MainCleans \/ RemoveFile \/ Exit
         \/ StopMonitor \/ Signal \/ Camera \/ Tick
BY DEF HealthNext, Worker, Main, Ended

(* The parts of the type.                                                  *)
PlaceTypeOK ==
  /\ deviceKind \in AllKinds
  /\ mainAt \in {"boot", "clearing", "starting", "run", "stopping", "join", "clean", "remove",
               "gone", "done"}
  /\ worker \in {"none", "wait", "pipeline", "device", "reading", "publish", "write", "writing",
                 "replaced", "observe", "cleanup", "dead"}
  /\ interrupted \in {"no", "boot", "run"}

FlagTypeOK == stopSet \in BOOLEAN /\ cleaned \in BOOLEAN /\ snapshotFile \in BOOLEAN /\ polled \in BOOLEAN

AgeTypeOK ==
  /\ frameAge \in 0..(StallAfter + 1) /\ lossAge \in 0..(HoldFor + 1)
  /\ silent \in 0..StaleAfter /\ elapsed \in 0..StaleAfter
  /\ born \in [Components -> 0..StaleAfter]

RowTypeOK ==
  /\ last \in [camera : Observations, some : BOOLEAN]
  /\ draft \in [stream : PollRows, camera : PollRows, stats : PollRows, withStats : BOOLEAN,
                truth : Faults]
  /\ latest \in [some : BOOLEAN, stream : Rows, camera : Rows, truth : [Components -> Faults]]

LEMMA TypeParts ==
  HealthTypeOK <=> PlaceTypeOK /\ FlagTypeOK /\ AgeTypeOK /\ RowTypeOK /\ BosonTypeOK /\ GenicamTypeOK
<1>1. {stopSet, cleaned, snapshotFile, polled} \subseteq BOOLEAN <=> FlagTypeOK
  BY Zenon DEF FlagTypeOK
<1> QED BY <1>1 DEF HealthTypeOK, PlaceTypeOK, AgeTypeOK, RowTypeOK

LEMMA TypePartsStep ==
  PlaceTypeOK' /\ FlagTypeOK' /\ AgeTypeOK' /\ RowTypeOK' /\ BosonTypeOK' /\ GenicamTypeOK' => HealthTypeOK'
<1>1. FlagTypeOK' => {stopSet', cleaned', snapshotFile', polled'} \subseteq BOOLEAN
  BY Zenon DEF FlagTypeOK
<1> QED BY <1>1 DEF HealthTypeOK, PlaceTypeOK, AgeTypeOK, RowTypeOK

LEMMA PlaceTyped ==
  ASSUME HealthTypeOK, [HealthNext]_healthVars
  PROVE  PlaceTypeOK'
<1> USE DEF PlaceTypeOK
<1>1. PlaceTypeOK
  BY TypeParts
<1>2. CASE UNCHANGED healthVars \/ Camera \/ Tick
  BY <1>1, <1>2 DEF healthVars, monitor, Camera, Tick
<1>3. CASE Wake \/ GiveUpPoll \/ PollPipeline \/ CheckWrite \/ ReplaceFile \/ CheckReplaced \/ Observe
           \/ WorkerCleans \/ Publish
  BY <1>1, <1>3 DEF Wake, GiveUpPoll, PollPipeline, CheckWrite, ReplaceFile, CheckReplaced,
       Observe, WorkerCleans, Publish, Goto, Keep
<1>4. CASE StartBoson \/ BosonStep \/ BosonGone \/ BosonEnds \/ StartGenicam \/ GenicamStep
           \/ GenicamRaises \/ GenicamEnds
  <2>1. UNCHANGED <<deviceKind, mainAt, interrupted>>
    BY <1>4 DEF StartBoson, BosonStep, BosonGone, BosonEnds, StartGenicam, GenicamStep,
         GenicamRaises, GenicamEnds, Keep
  <2>2. worker' \in {worker, "reading", "publish"}
    BY <1>4 DEF StartBoson, BosonStep, BosonGone, BosonEnds, StartGenicam, GenicamStep,
         GenicamRaises, GenicamEnds, Goto, Failure, Success
  <2> QED BY <1>1, <2>1, <2>2
<1>5. CASE Start \/ ClearStop \/ StartThread \/ Join \/ MainCleans \/ RemoveFile \/ Exit \/ StopMonitor \/ Signal
  BY <1>1, <1>5 DEF Start, ClearStop, StartThread, Join, MainCleans, RemoveFile, Exit,
       StopMonitor, Signal, MainGoto, KeepMain
<1> QED BY <1>2, <1>3, <1>4, <1>5, StepCases

LEMMA FlagsTyped ==
  ASSUME HealthTypeOK, [HealthNext]_healthVars
  PROVE  FlagTypeOK'
<1>1. FlagTypeOK
  BY TypeParts
<1>2. CASE UNCHANGED <<stopSet, cleaned, snapshotFile, polled>>
  BY <1>1, <1>2 DEF FlagTypeOK
<1>3. CASE PollPipeline
  <2>1. polled' = TRUE /\ UNCHANGED <<stopSet, cleaned, snapshotFile>>
    BY <1>3 DEF PollPipeline, Keep
  <2> QED BY <1>1, <2>1, Zenon DEF FlagTypeOK
<1>4. CASE ReplaceFile \/ CheckReplaced \/ WorkerCleans \/ Start \/ ClearStop \/ MainCleans \/ RemoveFile
           \/ StopMonitor \/ Signal
  <2>1. polled' = polled
    BY <1>4 DEF ReplaceFile, CheckReplaced, WorkerCleans, Start, ClearStop, MainCleans,
         RemoveFile, StopMonitor, Signal, KeepMain, stream
  <2>2. stopSet' \in {stopSet, TRUE, FALSE}
    BY <1>4 DEF ReplaceFile, CheckReplaced, WorkerCleans, Start, ClearStop, MainCleans,
         RemoveFile, StopMonitor, Signal
  <2>3. cleaned' \in {cleaned, TRUE, FALSE}
    BY <1>4 DEF ReplaceFile, CheckReplaced, WorkerCleans, Start, ClearStop, MainCleans,
         RemoveFile, StopMonitor, Signal, CleanUp
  <2>4. snapshotFile' \in {snapshotFile, TRUE, FALSE, snapshotFile /\ ~stopSet}
    BY <1>4 DEF ReplaceFile, CheckReplaced, WorkerCleans, Start, ClearStop, MainCleans,
         RemoveFile, StopMonitor, Signal, CleanUp
  <2>5. (snapshotFile /\ ~stopSet) \in BOOLEAN
    BY Zenon
  <2>6. stopSet' \in BOOLEAN
    BY <1>1, <2>2, Zenon DEF FlagTypeOK
  <2>7. cleaned' \in BOOLEAN
    BY <1>1, <2>3, Zenon DEF FlagTypeOK
  <2>8. snapshotFile' \in BOOLEAN
    BY <1>1, <2>4, <2>5, Zenon DEF FlagTypeOK
  <2> QED BY <1>1, <2>1, <2>6, <2>7, <2>8 DEF FlagTypeOK
<1> QED BY <1>2, <1>3, <1>4, StepCases DEF healthVars, monitor, stream, Wake, GiveUpPoll, Keep,
     StartBoson, BosonStep, BosonGone, BosonEnds, StartGenicam, GenicamStep, GenicamRaises,
     GenicamEnds, Publish, CheckWrite, Observe, StartThread, Join, Exit, Camera, Tick, KeepMain

LEMMA OlderIs ==
  ASSUME NEW a \in 0..StaleAfter
  PROVE  Older(a) \in 0..StaleAfter /\ (Older(a) = a + 1 \/ (Older(a) = a /\ a = StaleAfter))
BY TimesAssumption DEF Older

LEMMA AgesTyped ==
  ASSUME HealthTypeOK, [HealthNext]_healthVars
  PROVE  AgeTypeOK'
<1> USE TimesAssumption
<1>1. AgeTypeOK /\ RowTypeOK
  BY TypeParts
<1>2. CASE UNCHANGED <<frameAge, lossAge, silent, elapsed, born>>
  BY <1>1, <1>2 DEF AgeTypeOK
<1>3. CASE PollPipeline
  BY <1>1, <1>3 DEF PollPipeline, AgeTypeOK
<1>4. CASE BosonGone \/ GenicamRaises \/ StartBoson
  BY <1>2, <1>4 DEF BosonGone, GenicamRaises, StartBoson, Failure, stream, data
<1>5. CASE BosonEnds \/ GenicamEnds
  <2>1. UNCHANGED <<frameAge, lossAge, elapsed, born>> /\ silent' \in {silent, 0}
    BY <1>5 DEF BosonEnds, GenicamEnds, Success, Failure, stream
  <2> QED BY <1>1, <2>1 DEF AgeTypeOK
<1>6. CASE Publish
  <2>1. UNCHANGED <<frameAge, lossAge, silent>> /\ elapsed' \in {elapsed, 0}
    BY <1>6 DEF Publish, stream
  <2>2. draft.stream.age \in 0..StaleAfter /\ silent \in 0..StaleAfter
    BY <1>1 DEF RowTypeOK, PollRows, AgeTypeOK
  <2>3. born' \in [Components -> 0..StaleAfter]
    BY <1>1, <1>6, <2>2 DEF Publish, AgeTypeOK
  <2> QED BY <1>1, <2>1, <2>3 DEF AgeTypeOK
<1>7. CASE Tick
  <2>1. Older(silent) \in 0..StaleAfter /\ Older(elapsed) \in 0..StaleAfter
        /\ \A c \in Components : Older(born[c]) \in 0..StaleAfter
    BY <1>1, OlderIs DEF AgeTypeOK
  <2>2. frameAge' \in 0..(StallAfter + 1) /\ lossAge' \in 0..(HoldFor + 1)
    BY <1>1, <1>7 DEF Tick, AgeTypeOK
  <2>3. silent' \in 0..StaleAfter /\ elapsed' \in 0..StaleAfter /\ born' \in [Components -> 0..StaleAfter]
    BY <1>7, <2>1 DEF Tick
  <2> QED BY <2>2, <2>3 DEF AgeTypeOK
<1> QED BY <1>2, <1>3, <1>4, <1>5, <1>6, <1>7, StepCases DEF healthVars, stream, data, Wake,
     GiveUpPoll, BosonStep, StartGenicam, GenicamStep, CheckWrite, ReplaceFile, CheckReplaced,
     Observe, WorkerCleans, Start, ClearStop, StartThread, Join, MainCleans, RemoveFile, Exit,
     StopMonitor, Signal, Camera, KeepMain

-------------------------------------------------------------------------------
(* The port.                                                               *)
LEMMA BosonMoves ==
  ASSUME WorkInv, [HealthNext]_healthVars
  PROVE  \/ UNCHANGED boson /\ (worker' = "reading" <=> worker = "reading")
         \/ UNCHANGED boson /\ worker = "reading" /\ (step = 0 \/ deviceKind = "genicam")
         \/ UNCHANGED boson /\ worker' = "reading"
         \/ (OpenPort \/ ReusePort) /\ worker' = "reading" /\ deviceKind = "boson"
         \/ worker = "reading" /\ worker' = "reading"
            /\ (Ask \/ SkipReads \/ Answered \/ LateAnswer \/ \E l \in BOOLEAN : NoAnswer(l))
         \/ worker = "reading" /\ PortGone
         \/ worker = "reading" /\ step = 0 /\ ClosePort
         \/ worker # "reading" /\ worker' # "reading" /\ ClosePort
<1>1. CASE StartBoson
  BY <1>1 DEF StartBoson, Goto, Failure
<1>2. CASE BosonStep
  BY <1>2 DEF BosonStep
<1>3. CASE BosonGone \/ BosonEnds
  BY <1>3 DEF BosonGone, BosonEnds
<1>4. CASE StartGenicam \/ GenicamRaises \/ GenicamEnds
  BY <1>4 DEF StartGenicam, GenicamRaises, GenicamEnds, Goto
<1>5. CASE WorkerCleans \/ MainCleans
  <2>1. UNCHANGED boson \/ ClosePort
    BY <1>5 DEF WorkerCleans, MainCleans, CleanUp
  <2>2. CASE WorkerCleans
    BY <2>1, <2>2 DEF WorkerCleans, Goto
  <2>3. CASE MainCleans /\ UNCHANGED boson
    BY <2>3 DEF MainCleans, KeepMain
  <2>4. CASE MainCleans /\ ClosePort
    BY <2>4 DEF MainCleans, MainGoto, KeepMain, WorkInv
  <2> QED BY <1>5, <2>1, <2>2, <2>3, <2>4
<1> QED BY <1>1, <1>2, <1>3, <1>4, <1>5, StepCases DEF healthVars, monitor, Wake, GiveUpPoll,
     PollPipeline, GenicamStep, Publish, CheckWrite, ReplaceFile, CheckReplaced, Observe, Goto,
     Keep, Start, ClearStop, StartThread, Join, RemoveFile, Exit, StopMonitor, Signal, Camera,
     Tick, KeepMain, MainGoto, WorkInv

-------------------------------------------------------------------------------
(* The rows.                                                               *)
LEMMA StreamLevelIs ==
  ASSUME NEW idle \in BOOLEAN, NEW away \in BOOLEAN, NEW f \in Int, NEW l \in Int
  PROVE  StreamLevel(idle, away, f, l) \in Faults
BY TimesAssumption DEF StreamLevel, Faults, OK, WARN, ERROR

LEMMA CameraReportIs ==
  ASSUME GenicamTypeOK
  PROVE  CameraReport \in Observations
<1>1. status.level \in {0, 2} /\ (IF failed > 0 THEN 1 ELSE 0) \in {0, 1}
  BY DEF GenicamTypeOK
<1>2. CameraLevel \in {status.level, IF failed > 0 THEN 1 ELSE 0}
  BY <1>1, MaxOfTwo DEF CameraLevel, Levels
<1>3. CameraLevel \in Faults
  BY <1>1, <1>2 DEF Faults, OK, WARN, ERROR
<1>4. (IF measured = None THEN 0 ELSE measured) \in Faults
  BY DEF GenicamTypeOK, None, Faults, OK, WARN, ERROR
<1> QED BY <1>3, <1>4 DEF CameraReport, Observations

(* A poll that fails keeps what was known; one that succeeds replaces it.  *)
LEMMA FailureIs ==
  ASSUME HealthTypeOK, NEW away \in BOOLEAN, Failure(away)
  PROVE  /\ RowTypeOK'
         /\ Told(draft'.camera) >= CameraTruth' /\ draft'.camera.age = silent'
         /\ draft'.stream = draft.stream /\ draft'.truth = draft.truth
         /\ UNCHANGED <<latest, elapsed, born>> /\ worker' = "publish"
<1> DEFINE nothing == [level |-> OK, lim |-> OK]
           row == IF last.some THEN Held(last.camera, away, silent) ELSE Unseen(silent)
           stats == Held(nothing, away, silent)
<1>1. RowTypeOK /\ silent \in 0..StaleAfter
  BY TypeParts DEF AgeTypeOK
<1>2. last.camera \in Observations /\ nothing \in Observations
  BY <1>1 DEF RowTypeOK, Observations, Faults, OK
<1>3. row \in PollRows /\ row.age = silent /\ Told(row) = CameraTruth
  <2>1. CASE last.some
    BY <1>1, <1>2, <2>1, HeldIs DEF CameraTruth
  <2>2. CASE ~last.some
    BY <1>1, <2>2, UnseenIs DEF CameraTruth
  <2> QED BY <2>1, <2>2
<1>4. stats \in PollRows
  BY <1>1, <1>2, HeldIs
<1>5. (last.some /\ deviceKind = "genicam") \in BOOLEAN
  BY Zenon
<1> DEFINE w == last.some /\ deviceKind = "genicam"
<1>6. draft' = [draft EXCEPT !.camera = row, !.stats = stats, !.withStats = w]
  BY DEF Failure
<1>7. UNCHANGED <<last, silent, latest, elapsed, born>> /\ worker' = "publish"
  BY DEF Failure
<1>8. CameraTruth' = CameraTruth
  BY <1>7 DEF CameraTruth
<1>9. CameraTruth \in Int
  BY <1>3, ToldTyped DEF Faults, OK, WARN, ERROR
<1> HIDE DEF row, stats, w
<1>10. draft' \in [stream : PollRows, camera : PollRows, stats : PollRows, withStats : BOOLEAN, truth : Faults]
       /\ draft'.camera = row /\ draft'.stream = draft.stream /\ draft'.truth = draft.truth
  BY <1>1, <1>3, <1>4, <1>5, <1>6 DEF RowTypeOK, w
<1>11. RowTypeOK'
  BY <1>1, <1>7, <1>10 DEF RowTypeOK
<1> QED BY <1>3, <1>7, <1>8, <1>9, <1>10, <1>11

LEMMA SuccessIs ==
  ASSUME HealthTypeOK, NEW camera \in Observations, Success(camera)
  PROVE  /\ RowTypeOK'
         /\ Told(draft'.camera) >= CameraTruth' /\ draft'.camera.age = silent'
         /\ draft'.stream = draft.stream /\ draft'.truth = draft.truth
         /\ UNCHANGED <<latest, elapsed, born>> /\ worker' = "publish"
<1>1. RowTypeOK
  BY TypeParts
<1> DEFINE row == Current(camera)
           w == deviceKind = "genicam"
<1>2. row \in PollRows /\ Told(row) = Severity(camera) /\ row.age = 0
  BY CurrentIs, TimesAssumption
<1>3. draft' = [draft EXCEPT !.camera = row, !.withStats = w] /\ silent' = 0 /\ worker' = "publish"
      /\ last' = [camera |-> camera, some |-> TRUE] /\ UNCHANGED <<latest, elapsed, born>>
  BY DEF Success
<1>4. CameraTruth' = Severity(camera)
  <2>1. last'.some = TRUE /\ last'.camera = camera
    BY <1>3
  <2> QED BY <2>1 DEF CameraTruth
<1>5. Severity(camera) \in Int
  BY <1>2, ToldTyped DEF Faults, OK, WARN, ERROR
<1>6. w \in BOOLEAN
  BY Zenon
<1> HIDE DEF row, w
<1>7. draft' \in [stream : PollRows, camera : PollRows, stats : PollRows, withStats : BOOLEAN, truth : Faults]
      /\ draft'.camera = row /\ draft'.stream = draft.stream /\ draft'.truth = draft.truth
  BY <1>1, <1>2, <1>3, <1>6 DEF RowTypeOK
<1>8. last' \in [camera : Observations, some : BOOLEAN]
  BY <1>3
<1>9. RowTypeOK'
  BY <1>1, <1>3, <1>7, <1>8 DEF RowTypeOK
<1> QED BY <1>2, <1>3, <1>4, <1>5, <1>7, <1>9

(* What the device provider's poll ends with.                              *)
LEMMA DeviceEnds ==
  ASSUME HealthTypeOK, BosonGone \/ BosonEnds \/ GenicamRaises \/ GenicamEnds \/ (StartBoson /\ worker' = "publish")
  PROVE  \/ \E away \in BOOLEAN : Failure(away)
         \/ \E camera \in Observations : Success(camera)
<1>1. CASE BosonGone \/ GenicamRaises \/ (StartBoson /\ worker' = "publish")
  BY <1>1 DEF BosonGone, GenicamRaises, StartBoson, Goto
<1>2. CASE BosonEnds
  <2>1. Failure(FALSE) \/ \E lim \in (IF temp THEN Readings ELSE {OK}) :
            Success([level |-> IF temp THEN OK ELSE WARN, lim |-> lim])
    BY <1>2 DEF BosonEnds
  <2>2. ASSUME NEW lim \in (IF temp THEN Readings ELSE {OK})
        PROVE  [level |-> IF temp THEN OK ELSE WARN, lim |-> lim] \in Observations
    <3>1. lim \in Faults
      BY KindsAssumption DEF Faults, OK
    <3> QED BY <3>1 DEF Observations, Faults, OK, WARN
  <2> QED BY <2>1, <2>2
<1>3. CASE GenicamEnds
  <2>1. CameraReport \in Observations
    BY CameraReportIs, TypeParts
  <2>2. Success(CameraReport)
    BY <1>3 DEF GenicamEnds
  <2> QED BY <2>1, <2>2
<1> QED BY <1>1, <1>2, <1>3

(* What the pipeline's poll begins with.                                   *)
LEMMA PipelineIs ==
  ASSUME HealthTypeOK, PollPipeline
  PROVE  /\ draft' \in [stream : PollRows, camera : PollRows, stats : PollRows, withStats : BOOLEAN, truth : Faults]
         /\ Told(draft'.stream) >= draft'.truth
<1> USE TimesAssumption
<1>1. AgeTypeOK
  BY TypeParts
<1>2. PICK idle \in BOOLEAN :
        LET level == StreamLevel(idle, link = "away", frameAge', lossAge')
            row == Current([level |-> level, lim |-> OK])
        IN draft' = [NoDraft EXCEPT !.stream = row, !.truth = level]
  BY DEF PollPipeline
<1>3. frameAge' \in Int /\ lossAge' \in Int
  BY <1>1 DEF PollPipeline, AgeTypeOK
<1> DEFINE level == StreamLevel(idle, link = "away", frameAge', lossAge')
           o == [level |-> level, lim |-> OK]
           row == Current(o)
<1>4. level \in Faults
  BY <1>3, StreamLevelIs
<1> HIDE DEF level
<1>5. o \in Observations /\ Severity(o) >= level
  <2>1. o \in Observations
    BY <1>4 DEF Observations, Faults, OK
  <2>2. o.level \in Levels /\ o.lim \in Levels
    BY <1>4 DEF Faults, OK, WARN, ERROR, Levels
  <2> QED BY <2>1, <2>2, SeverityIs
<1>6. row \in PollRows /\ Told(row) = Severity(o)
  BY <1>5, CurrentIs
<1> HIDE DEF row, o
<1>7. draft' = [NoDraft EXCEPT !.stream = row, !.truth = level]
  BY <1>2 DEF row, o, level
<1>8. NoDraft \in [stream : PollRows, camera : PollRows, stats : PollRows, withStats : BOOLEAN, truth : Faults]
  <2>1. NoRow \in PollRows
    BY DEF NoRow, PollRows, Faults, OK
  <2> QED BY <2>1 DEF NoDraft, Faults, OK
<1> QED BY <1>4, <1>5, <1>6, <1>7, <1>8

(* What is published.                                                      *)
LEMMA SnapshotIs ==
  ASSUME HealthTypeOK
  PROVE  /\ Snapshot \in [some : BOOLEAN, stream : Rows, camera : Rows, truth : [Components -> Faults]]
         /\ Shown(Snapshot.stream) >= Told(draft.stream) /\ Snapshot.stream.age = draft.stream.age
         /\ Shown(Snapshot.camera) >= Told(draft.camera) /\ Snapshot.camera.age = draft.camera.age
         /\ Snapshot.truth = [stream |-> draft.truth, camera |-> CameraTruth]
<1> DEFINE owner == Expire(draft.stream)
           rs == {owner} \cup (IF draft.withStats THEN {Expire(draft.stats)} ELSE {})
           camera == Expire(draft.camera)
           truth == [stream |-> draft.truth, camera |-> CameraTruth]
           s == [some |-> TRUE, stream |-> Merge(owner, rs), camera |-> Merge(camera, {camera}), truth |-> truth]
<1>1. RowTypeOK
  BY TypeParts
<1>2. draft.stream \in PollRows /\ draft.stats \in PollRows /\ draft.camera \in PollRows /\ draft.truth \in Faults
  BY <1>1 DEF RowTypeOK
<1>3. owner \in PollRows /\ Expire(draft.stats) \in PollRows /\ camera \in PollRows
      /\ Told(owner) = Told(draft.stream) /\ owner.age = draft.stream.age
      /\ Told(camera) = Told(draft.camera) /\ camera.age = draft.camera.age
  BY <1>2, ExpireIs
<1>4. CameraTruth \in Faults
  <2>1. CASE last.some
    <3>1. last.camera \in Observations
      BY <1>1 DEF RowTypeOK
    <3>2. last.camera.level \in Faults /\ last.camera.lim \in Faults
      BY <3>1 DEF Observations
    <3>3. last.camera.level \in Levels /\ last.camera.lim \in Levels
      BY <3>2 DEF Faults, OK, WARN, ERROR, Levels
    <3>4. Severity(last.camera) \in Faults
      BY <3>2, <3>3, SeverityIs
    <3> QED BY <2>1, <3>4 DEF CameraTruth
  <2>2. CASE ~last.some
    BY <2>2 DEF CameraTruth, Faults
  <2> QED BY <2>1, <2>2
<1>5. truth \in [Components -> Faults]
  BY <1>2, <1>4 DEF Components
<1>6. rs \in SUBSET PollRows /\ rs # {} /\ owner \in rs
  BY <1>3
<1>7. {camera} \in SUBSET PollRows /\ {camera} # {} /\ camera \in {camera}
  BY <1>3
<1>8. Merge(owner, rs) \in Rows /\ Shown(Merge(owner, rs)) >= Told(owner)
      /\ Merge(owner, rs).age = owner.age
  <2> HIDE DEF owner, rs
  <2> QED BY <1>3, <1>6, MergeIs
<1>9. Merge(camera, {camera}) \in Rows /\ Shown(Merge(camera, {camera})) >= Told(camera)
      /\ Merge(camera, {camera}).age = camera.age
  <2> HIDE DEF camera
  <2> QED BY <1>3, <1>7, MergeIs
<1>10. Snapshot = s
  BY DEF Snapshot
<1> DEFINE ms == Merge(owner, rs)
           mc == Merge(camera, {camera})
<1>11. s = [some |-> TRUE, stream |-> ms, camera |-> mc, truth |-> truth]
  OBVIOUS
<1>12. ms \in Rows /\ mc \in Rows
  BY <1>8, <1>9
<1>13. Shown(ms) >= Told(draft.stream) /\ ms.age = draft.stream.age
       /\ Shown(mc) >= Told(draft.camera) /\ mc.age = draft.camera.age
  BY <1>3, <1>8, <1>9
<1> HIDE DEF ms, mc, truth, s
<1>14. s.stream = ms /\ s.camera = mc /\ s.truth = truth
       /\ s \in [some : BOOLEAN, stream : Rows, camera : Rows, truth : [Components -> Faults]]
  BY <1>5, <1>11, <1>12
<1> QED BY <1>10, <1>13, <1>14 DEF truth

LEMMA RowTyped ==
  ASSUME HealthTypeOK, [HealthNext]_healthVars
  PROVE  RowTypeOK'
<1>1. RowTypeOK /\ AgeTypeOK
  BY TypeParts
<1>2. CASE UNCHANGED <<last, draft, latest>>
  BY <1>1, <1>2 DEF RowTypeOK
<1>3. CASE PollPipeline
  <2>1. UNCHANGED <<last, latest>>
    BY <1>3 DEF PollPipeline
  <2> QED BY <1>1, <1>3, <2>1, PipelineIs DEF RowTypeOK
<1>4. CASE (StartBoson /\ worker' = "publish") \/ BosonGone \/ BosonEnds \/ GenicamRaises \/ GenicamEnds
  BY <1>4, DeviceEnds, FailureIs, SuccessIs
<1>5. CASE StartBoson /\ worker' # "publish"
  BY <1>2, <1>5 DEF StartBoson, Goto, Failure, data
<1>6. CASE Publish
  <2>1. last' = last /\ latest' \in {latest, Snapshot} /\ draft' = NoDraft
    BY <1>6 DEF Publish
  <2>2. NoRow \in PollRows
    BY <1>1, TimesAssumption DEF NoRow, PollRows, Faults, OK
  <2>3. NoDraft \in [stream : PollRows, camera : PollRows, stats : PollRows, withStats : BOOLEAN, truth : Faults]
    BY <2>2 DEF NoDraft, Faults, OK
  <2> QED BY <1>1, <2>1, <2>3, SnapshotIs DEF RowTypeOK
<1>7. CASE Tick
  <2>1. UNCHANGED <<last, latest>>
    BY <1>7 DEF Tick
  <2>2. draft' \in {draft, [draft EXCEPT !.stream.age = Older(@), !.camera.age = Older(@), !.stats.age = Older(@)]}
    BY <1>7 DEF Tick
  <2>3. \A r \in PollRows : Older(r.age) \in 0..StaleAfter
    BY OlderIs DEF PollRows
  <2>4. draft.stream \in PollRows /\ draft.camera \in PollRows /\ draft.stats \in PollRows
    BY <1>1 DEF RowTypeOK
  <2>5. [draft EXCEPT !.stream.age = Older(@), !.camera.age = Older(@), !.stats.age = Older(@)]
        \in [stream : PollRows, camera : PollRows, stats : PollRows, withStats : BOOLEAN, truth : Faults]
    <3> DEFINE a == Older(draft.stream.age)
               b == Older(draft.camera.age)
               c == Older(draft.stats.age)
    <3>1. a \in 0..StaleAfter /\ b \in 0..StaleAfter /\ c \in 0..StaleAfter
      BY <2>3, <2>4
    <3> HIDE DEF a, b, c
    <3>2. [draft EXCEPT !.stream.age = a, !.camera.age = b, !.stats.age = c]
          \in [stream : PollRows, camera : PollRows, stats : PollRows, withStats : BOOLEAN, truth : Faults]
      BY <1>1, <3>1 DEF RowTypeOK, PollRows
    <3> QED BY <3>2 DEF a, b, c
  <2> QED BY <1>1, <2>1, <2>2, <2>5 DEF RowTypeOK
<1> QED BY <1>2, <1>3, <1>4, <1>5, <1>6, <1>7, StepCases DEF healthVars, data, Wake, GiveUpPoll,
     BosonStep, StartGenicam, GenicamStep, CheckWrite, ReplaceFile, CheckReplaced, Observe,
     WorkerCleans, Start, ClearStop, StartThread, Join, MainCleans, RemoveFile, Exit, StopMonitor,
     Signal, Camera, KeepMain

(* What a poll gathers, and what is published, tells what is known.        *)
RowsA == worker \in {"device", "reading", "publish"} => Told(draft.stream) >= draft.truth
RowsB == worker \in {"device", "reading"} => deviceKind # "plain"
RowsC == worker = "publish" /\ deviceKind # "plain" =>
           Told(draft.camera) >= CameraTruth /\ draft.camera.age = silent
RowsD == latest.some => \A c \in Reported :
           Shown(latest[c]) >= latest.truth[c] /\ born[c] <= latest[c].age + elapsed

LEMMA RowsKept ==
  ASSUME HealthTypeOK, RowsInv, UNCHANGED <<deviceKind, data>>,
         worker' \in {"device", "reading", "publish"} => worker \in {"device", "reading", "publish"},
         worker' \in {"device", "reading"} => worker \in {"device", "reading"},
         worker' = "publish" => worker = "publish"
  PROVE  RowsInv'
<1>1. UNCHANGED <<last, draft, latest, silent, elapsed, born, Reported, CameraTruth>>
  BY DEF data, Reported, CameraTruth
<1>2. RowsA' /\ RowsB' /\ RowsC' /\ RowsD'
  BY <1>1 DEF RowsInv, RowsA, RowsB, RowsC, RowsD, Reported, CameraTruth
<1> QED BY <1>2 DEF RowsInv, RowsA, RowsB, RowsC, RowsD

LEMMA RowsAfterDevice ==
  ASSUME HealthTypeOK, RowsInv, worker \in {"device", "reading"}, deviceKind' = deviceKind,
         (\E away \in BOOLEAN : Failure(away)) \/ (\E camera \in Observations : Success(camera))
  PROVE  RowsInv'
<1>1. /\ Told(draft'.camera) >= CameraTruth' /\ draft'.camera.age = silent'
      /\ draft'.stream = draft.stream /\ draft'.truth = draft.truth
      /\ UNCHANGED <<latest, elapsed, born>> /\ worker' = "publish"
  BY FailureIs, SuccessIs
<1>2. RowsA' /\ RowsB' /\ RowsC'
  BY <1>1 DEF RowsInv, RowsA, RowsB, RowsC, Told, Severity
<1>3. RowsD'
  BY <1>1 DEF RowsInv, RowsD, Reported
<1> QED BY <1>2, <1>3 DEF RowsInv, RowsA, RowsB, RowsC, RowsD

LEMMA RowsPublished ==
  ASSUME HealthTypeOK, RowsInv, Publish
  PROVE  RowsInv'
<1>1. worker = "publish" /\ worker' \in {"wait", "write"} /\ deviceKind' = deviceKind
  BY DEF Publish, Goto, Keep
<1>2. RowsA' /\ RowsB' /\ RowsC'
  BY <1>1 DEF RowsA, RowsB, RowsC
<1>3. CASE stopSet
  <2>1. UNCHANGED <<latest, elapsed, born>>
    BY <1>3 DEF Publish
  <2>2. RowsD'
    BY <1>1, <2>1 DEF RowsInv, RowsD, Reported
  <2> QED BY <1>2, <2>2 DEF RowsInv, RowsA, RowsB, RowsC, RowsD
<1>4. CASE ~stopSet
  <2>1. latest' = Snapshot /\ elapsed' = 0
        /\ born' = [c \in Components |-> IF c = "stream" THEN draft.stream.age ELSE silent]
    BY <1>4 DEF Publish
  <2>2. /\ Shown(Snapshot.stream) >= Told(draft.stream) /\ Snapshot.stream.age = draft.stream.age
        /\ Shown(Snapshot.camera) >= Told(draft.camera) /\ Snapshot.camera.age = draft.camera.age
        /\ Snapshot.truth = [stream |-> draft.truth, camera |-> CameraTruth]
    BY SnapshotIs
  <2>3. Snapshot \in [some : BOOLEAN, stream : Rows, camera : Rows, truth : [Components -> Faults]]
    BY SnapshotIs
  <2>4. Snapshot.stream \in Rows /\ Snapshot.camera \in Rows
    BY <2>3
  <2>5. RowTypeOK /\ silent \in 0..StaleAfter
    BY TypeParts DEF AgeTypeOK
  <2>6. Told(draft.stream) \in Int /\ Told(draft.camera) \in Int /\ draft.truth \in Int
        /\ draft.stream.age \in Int /\ silent \in Int
    BY <2>5, ToldTyped DEF RowTypeOK, PollRows, Faults, OK, WARN, ERROR
  <2>7. Told(draft.stream) >= draft.truth
    BY <1>1 DEF RowsInv
  <2>8. Shown(Snapshot.stream) \in Int /\ Shown(Snapshot.camera) \in Int
    BY <2>4 DEF Shown, Rows, Faults, OK, WARN, ERROR, STALE
  <2>9. Shown(latest'["stream"]) >= latest'.truth["stream"] /\ born'["stream"] <= latest'["stream"].age + elapsed'
    <3>1. latest'["stream"] = Snapshot.stream /\ latest'.truth["stream"] = draft.truth
          /\ born'["stream"] = draft.stream.age
      BY <2>1, <2>2, <2>3 DEF Components
    <3> QED BY <2>1, <2>2, <2>6, <2>7, <2>8, <3>1
  <2>10. deviceKind # "plain" =>
           Shown(latest'["camera"]) >= latest'.truth["camera"] /\ born'["camera"] <= latest'["camera"].age + elapsed'
    <3> SUFFICES ASSUME deviceKind # "plain"
                 PROVE  Shown(latest'["camera"]) >= latest'.truth["camera"]
                        /\ born'["camera"] <= latest'["camera"].age + elapsed'
      OBVIOUS
    <3>1. Told(draft.camera) >= CameraTruth /\ draft.camera.age = silent
      BY <1>1 DEF RowsInv
    <3>2. latest'["camera"] = Snapshot.camera /\ latest'.truth["camera"] = CameraTruth
          /\ born'["camera"] = silent
      BY <2>1, <2>2, <2>3 DEF Components
    <3>3. CameraTruth \in Faults
      <4>1. Snapshot.truth["camera"] \in Faults
        BY <2>3 DEF Components
      <4> QED BY <4>1, <2>2
    <3>4. CameraTruth \in Int
      BY <3>3 DEF Faults, OK, WARN, ERROR
    <3> QED BY <2>1, <2>2, <2>6, <2>8, <3>1, <3>2, <3>4
  <2>11. RowsD'
    BY <1>1, <2>9, <2>10 DEF RowsD, Reported, Components
  <2> QED BY <1>2, <2>11 DEF RowsInv, RowsA, RowsB, RowsC, RowsD
<1> QED BY <1>3, <1>4

LEMMA RowsAge ==
  ASSUME HealthTypeOK, RowsInv, Tick
  PROVE  RowsInv'
<1>1. RowTypeOK /\ AgeTypeOK
  BY TypeParts
<1>2. UNCHANGED <<deviceKind, worker, last, latest>>
  BY DEF Tick, monitor
<1> DEFINE busy == worker \in {"device", "reading", "publish"}
<1>3. busy => /\ draft'.stream.level = draft.stream.level /\ draft'.stream.lim = draft.stream.lim
              /\ draft'.stream.last = draft.stream.last /\ draft'.truth = draft.truth
              /\ draft'.camera.level = draft.camera.level /\ draft'.camera.lim = draft.camera.lim
              /\ draft'.camera.last = draft.camera.last /\ draft'.camera.age = Older(draft.camera.age)
  <2> SUFFICES ASSUME busy
               PROVE  /\ draft'.stream.level = draft.stream.level /\ draft'.stream.lim = draft.stream.lim
                      /\ draft'.stream.last = draft.stream.last /\ draft'.truth = draft.truth
                      /\ draft'.camera.level = draft.camera.level /\ draft'.camera.lim = draft.camera.lim
                      /\ draft'.camera.last = draft.camera.last /\ draft'.camera.age = Older(draft.camera.age)
    OBVIOUS
  <2>1. draft' = [draft EXCEPT !.stream.age = Older(@), !.camera.age = Older(@), !.stats.age = Older(@)]
    BY DEF Tick
  <2> QED BY <1>1, <2>1 DEF RowTypeOK, PollRows
<1>4. silent' = Older(silent)
  BY DEF Tick
<1>5. RowsA'
  BY <1>2, <1>3 DEF RowsInv, RowsA, Told, Severity
<1>6. RowsB'
  BY <1>2 DEF RowsInv, RowsB
<1>7. RowsC'
  BY <1>2, <1>3, <1>4 DEF RowsInv, RowsC, CameraTruth, Told, Severity
<1>8. RowsD'
  <2> SUFFICES ASSUME latest.some, NEW c \in Reported
               PROVE  Shown(latest[c]) >= latest.truth[c] /\ born'[c] <= latest[c].age + elapsed'
    BY <1>2 DEF RowsD, Reported
  <2>1. c \in Components
    BY DEF Reported, Components
  <2>2. Shown(latest[c]) >= latest.truth[c] /\ born[c] <= latest[c].age + elapsed
    BY DEF RowsInv
  <2>3. born'[c] = Older(born[c]) /\ elapsed' = Older(elapsed)
    BY <2>1 DEF Tick
  <2>4. born[c] \in 0..StaleAfter /\ elapsed \in 0..StaleAfter
    BY <1>1, <2>1 DEF AgeTypeOK
  <2>5. latest[c] \in Rows
    BY <1>1, <2>1 DEF RowTypeOK, Components
  <2>6. latest[c].age \in Nat
    BY <2>5, TimesAssumption DEF Rows
  <2>7. Older(born[c]) \in {born[c], born[c] + 1} /\ Older(born[c]) <= StaleAfter
        /\ (Older(elapsed) = elapsed + 1 \/ (Older(elapsed) = elapsed /\ elapsed = StaleAfter))
    BY <2>4, OlderIs
  <2> QED BY <2>2, <2>3, <2>4, <2>6, <2>7, TimesAssumption
<1> QED BY <1>5, <1>6, <1>7, <1>8 DEF RowsInv, RowsA, RowsB, RowsC, RowsD

LEMMA RowsStep ==
  ASSUME HealthTypeOK, WorkInv, RowsInv, [HealthNext]_healthVars
  PROVE  RowsInv'
<1>1. CASE PollPipeline
  <2>1. UNCHANGED <<deviceKind, last, silent, latest, elapsed, born>>
        /\ worker' = IF deviceKind = "plain" THEN "publish" ELSE "device"
    BY <1>1 DEF PollPipeline, Goto, Keep
  <2>2. Told(draft'.stream) >= draft'.truth
    BY <1>1, PipelineIs
  <2>3. RowsA' /\ RowsB' /\ RowsC'
    BY <2>1, <2>2 DEF RowsA, RowsB, RowsC
  <2>4. RowsD'
    BY <2>1 DEF RowsInv, RowsD, Reported
  <2> QED BY <2>3, <2>4 DEF RowsInv, RowsA, RowsB, RowsC, RowsD
<1>2. CASE (StartBoson /\ worker' = "publish") \/ BosonGone \/ BosonEnds \/ GenicamRaises \/ GenicamEnds
  <2>1. worker \in {"device", "reading"} /\ deviceKind' = deviceKind
    BY <1>2 DEF StartBoson, BosonGone, BosonEnds, GenicamRaises, GenicamEnds, Goto, Keep
  <2> QED BY <1>2, <2>1, DeviceEnds, RowsAfterDevice
<1>3. CASE StartBoson /\ worker' # "publish"
  <2>1. UNCHANGED <<deviceKind, data>> /\ worker' = "reading" /\ worker = "device"
    BY <1>3 DEF StartBoson, Goto, Keep, Failure
  <2> QED BY <2>1, RowsKept
<1>4. CASE StartGenicam
  <2>1. UNCHANGED <<deviceKind, data>> /\ worker' = "reading" /\ worker = "device"
    BY <1>4 DEF StartGenicam, Goto, Keep
  <2> QED BY <2>1, RowsKept
<1>5. CASE Publish
  BY <1>5, RowsPublished
<1>6. CASE Tick
  BY <1>6, RowsAge
<1>7. CASE Wake \/ GiveUpPoll
  <2>1. UNCHANGED <<deviceKind, data>> /\ worker' \notin {"device", "reading", "publish"}
    BY <1>7 DEF Wake, GiveUpPoll, Goto, Keep
  <2> QED BY <2>1, RowsKept
<1>8. CASE CheckWrite \/ ReplaceFile \/ CheckReplaced \/ Observe \/ WorkerCleans \/ StartThread
  <2>1. UNCHANGED <<deviceKind, data>> /\ worker' \notin {"device", "reading", "publish"}
    BY <1>8 DEF CheckWrite, ReplaceFile, CheckReplaced, Observe, WorkerCleans, StartThread, Goto,
         Keep
  <2> QED BY <2>1, RowsKept
<1>9. CASE UNCHANGED healthVars \/ BosonStep \/ GenicamStep \/ Start \/ ClearStop \/ Join \/ MainCleans \/ RemoveFile
           \/ Exit \/ StopMonitor \/ Signal \/ Camera
  <2>1. UNCHANGED <<deviceKind, worker, data>>
    BY <1>9 DEF healthVars, monitor, BosonStep, GenicamStep, Start, ClearStop, Join, MainCleans,
         RemoveFile, Exit, StopMonitor, Signal, Camera, Keep, KeepMain
  <2> QED BY <2>1, RowsKept
<1> QED BY <1>1, <1>2, <1>3, <1>4, <1>5, <1>6, <1>7, <1>8, <1>9, StepCases

LEMMA KindKept ==
  ASSUME [HealthNext]_healthVars
  PROVE  deviceKind' = deviceKind
BY StepCases DEF healthVars, monitor, Wake, GiveUpPoll, PollPipeline, StartBoson, BosonStep,
     BosonGone, BosonEnds, StartGenicam, GenicamStep, GenicamRaises, GenicamEnds, Publish,
     CheckWrite, ReplaceFile, CheckReplaced, Observe, WorkerCleans, Start, ClearStop, StartThread,
     Join, MainCleans, RemoveFile, Exit, StopMonitor, Signal, Camera, Tick, Keep, KeepMain

(* The next sequence number.                                               *)
LEMMA NextNumber ==
  ASSUME NEW x \in 0..(SeqMod - 1)
  PROVE  (x + 1) % SeqMod = IF x + 1 = SeqMod THEN 0 ELSE x + 1
BY SeqAssumption

(* An answer is late by as many commands as were sent since.               *)
Since(r) == ~r.old => /\ sequence = r.sequence + r.lag \/ sequence = r.sequence + r.lag - SeqMod
                      /\ asked => r.lag > 0

LEMMA AskSteps ==
  ASSUME BosonTypeOK, PortInv, Ask
  PROVE  BosonTypeOK' /\ \A r \in late' : Since(r)'
<1> USE SeqAssumption
<1>1. PICK kept \in SUBSET late :
        late' = {[r EXCEPT !.lag = r.lag + 1] : r \in {q \in kept : q.lag < Lag}}
  BY DEF Ask
<1>2. sequence \in 0..(SeqMod - 1) /\ sequence' = IF sequence + 1 = SeqMod THEN 0 ELSE sequence + 1
  BY NextNumber DEF Ask, BosonTypeOK
<1>3. ASSUME NEW r \in late'
      PROVE  /\ r \in Late /\ r.lag > 0
             /\ ~r.old => sequence' = r.sequence + r.lag \/ sequence' = r.sequence + r.lag - SeqMod
  <2>1. PICK q \in late : q.lag < Lag /\ r = [q EXCEPT !.lag = q.lag + 1]
    BY <1>1
  <2>2. q \in Late
    BY DEF BosonTypeOK
  <2>3. q.sequence \in 0..(SeqMod - 1) /\ q.lag \in 0..Lag
    BY <2>2 DEF Late
  <2>4. r.sequence = q.sequence /\ r.lag = q.lag + 1 /\ r.old = q.old /\ r \in Late
    BY <2>1, <2>2, <2>3 DEF Late
  <2>5. ~q.old => sequence = q.sequence + q.lag \/ sequence = q.sequence + q.lag - SeqMod
    BY DEF PortInv
  <2> QED BY <1>2, <2>3, <2>4, <2>5
<1>4. late' \subseteq Late
  BY <1>3
<1>5. asked' = TRUE /\ UNCHANGED <<port, step, errs, temp, confused>>
  BY DEF Ask
<1>6. {asked', temp', confused'} \subseteq BOOLEAN
  BY <1>5, Zenon DEF BosonTypeOK
<1>7. BosonTypeOK'
  BY <1>2, <1>4, <1>5, <1>6 DEF BosonTypeOK, Late
<1> QED BY <1>3, <1>5, <1>7 DEF Since

(* A late answer of this port never looks like the one that is waited for. *)
LEMMA LateNeverMatches ==
  ASSUME BosonTypeOK, PortInv, asked, NEW r \in late, Matches(r)
  PROVE  r.old
<1>1. r \in Late /\ sequence \in Int
  BY DEF BosonTypeOK
<1>2. r.lag \in 0..Lag /\ r.sequence = sequence
  BY <1>1 DEF Late, Matches
<1>3. ~r.old => (sequence = r.sequence + r.lag \/ sequence = r.sequence + r.lag - SeqMod) /\ r.lag > 0
  BY DEF PortInv
<1> QED BY <1>1, <1>2, <1>3, SeqAssumption

LEMMA BosonTyped ==
  ASSUME BosonTypeOK, PortInv,
         OpenPort \/ ReusePort \/ SkipReads \/ Answered \/ LateAnswer
           \/ (\E l \in BOOLEAN : NoAnswer(l)) \/ PortGone \/ ClosePort
  PROVE  BosonTypeOK' /\ \A r \in late' : Since(r)'
<1> USE SeqAssumption
<1>0. \A r \in late : r \in Late /\ Since(r)
  BY DEF BosonTypeOK, PortInv, Since
<1>1. CASE OpenPort
  <2>1. late' = {[r EXCEPT !.old = TRUE] : r \in late}
    BY <1>1 DEF OpenPort
  <2>2. \A r \in late : [r EXCEPT !.old = TRUE] \in Late /\ [r EXCEPT !.old = TRUE].old = TRUE
    BY <1>0 DEF Late
  <2>3. late' \subseteq Late /\ \A r \in late' : r.old = TRUE
    BY <2>1, <2>2
  <2>4. {asked', temp', confused'} \subseteq BOOLEAN
    <3>1. UNCHANGED <<asked, confused>> /\ temp' = FALSE
      BY <1>1 DEF OpenPort
    <3> QED BY <3>1, Zenon DEF BosonTypeOK
  <2>5. BosonTypeOK'
    BY <1>1, <2>3, <2>4 DEF OpenPort, BosonTypeOK, Late
  <2> QED BY <2>3, <2>5 DEF Since
<1>2. CASE ReusePort \/ SkipReads
  <2>1. UNCHANGED <<port, sequence, asked, late, confused>> /\ temp' \in {temp, FALSE}
        /\ step' \in {0, 3} /\ errs' \in {errs, 0}
    BY <1>2 DEF ReusePort, SkipReads
  <2>2. {asked', temp', confused'} \subseteq BOOLEAN
    BY <2>1, Zenon DEF BosonTypeOK
  <2>3. BosonTypeOK'
    BY <2>1, <2>2 DEF BosonTypeOK, Late
  <2> QED BY <1>0, <2>1, <2>3 DEF Since
<1>3. CASE PortGone \/ ClosePort
  <2>1. UNCHANGED <<sequence, errs, temp, late, confused>> /\ port' = "closed"
        /\ step' \in {step, 0} /\ asked' \in {asked, FALSE}
    BY <1>3 DEF PortGone, ClosePort
  <2>2. {asked', temp', confused'} \subseteq BOOLEAN
    BY <2>1, Zenon DEF BosonTypeOK
  <2>3. BosonTypeOK'
    BY <2>1, <2>2 DEF BosonTypeOK, Late
  <2>4. asked' => asked
    BY <2>1, Zenon
  <2> QED BY <1>0, <2>1, <2>3, <2>4 DEF Since
<1>4. CASE Answered \/ LateAnswer \/ \E l \in BOOLEAN : NoAnswer(l)
  <2>1. NextStep \in 0..4 /\ asked
    BY <1>4 DEF NextStep, BosonTypeOK, Answered, LateAnswer, NoAnswer
  <2>2. sequence' = sequence
    BY <1>4 DEF Answered, LateAnswer, NoAnswer, Accept
  <2>3. \A r \in late' : r \in late \/ r = [sequence |-> sequence, step |-> step, old |-> FALSE, lag |-> 0]
    BY <1>4 DEF Answered, LateAnswer, NoAnswer
  <2>4. CASE UNCHANGED <<port, step, asked, errs, temp, confused>>
    <3>1. {asked', temp', confused'} \subseteq BOOLEAN
      BY <2>4, Zenon DEF BosonTypeOK
    <3>2. CASE LateAnswer
      <4>1. \A r \in late' : r \in late
        BY <3>2 DEF LateAnswer
      <4>2. BosonTypeOK'
        BY <1>0, <2>2, <2>4, <3>1, <4>1 DEF BosonTypeOK, Late
      <4> QED BY <1>0, <2>2, <2>4, <4>1, <4>2 DEF Since
    <3>3. CASE Answered \/ \E l \in BOOLEAN : NoAnswer(l)
      <4>1. asked' = FALSE
        BY <3>3 DEF Answered, NoAnswer, Accept, Advance
      <4>2. asked' = asked
        BY <2>4
      <4>3. asked = FALSE
        BY <4>1, <4>2
      <4>4. FALSE
        BY <2>1, <4>3, Zenon
      <4> QED BY <4>4
    <3> QED BY <1>4, <3>2, <3>3
  <2>5. CASE asked' = FALSE
    <3>1. Advance
      BY <1>4, <2>1, <2>5, Zenon DEF Answered, LateAnswer, NoAnswer, Accept
    <3>2. temp' \in {temp, temp \/ step = 3} /\ confused' \in {confused, confused \/ TRUE, confused \/ FALSE}
      <4>1. CASE Answered
        BY <4>1 DEF Answered, Accept
      <4>2. CASE \E l \in BOOLEAN : NoAnswer(l)
        BY <4>2 DEF NoAnswer
      <4>3. CASE LateAnswer
        <5>1. UNCHANGED <<port, sequence, step, asked, errs, temp, confused>>
              \/ \E r \in late : Matches(r) /\ Accept /\ confused' = (confused \/ ~r.old)
          BY <4>3 DEF LateAnswer
        <5>2. CASE UNCHANGED <<port, sequence, step, asked, errs, temp, confused>>
          BY <5>2
        <5>3. ASSUME NEW r \in late, Accept, Matches(r), confused' = (confused \/ ~r.old)
              PROVE  /\ temp' \in {temp, temp \/ step = 3}
                     /\ confused' \in {confused, confused \/ TRUE, confused \/ FALSE}
          <6>1. r.old
            BY <2>1, <5>3, LateNeverMatches
          <6>2. confused' = (confused \/ FALSE)
            BY <5>3, <6>1, Zenon
          <6>3. temp' = (temp \/ step = 3)
            BY <5>3 DEF Accept
          <6> QED BY <6>2, <6>3
        <5> QED BY <5>1, <5>2, <5>3
      <4> QED BY <1>4, <4>1, <4>2, <4>3
    <3>3. {asked', temp', confused'} \subseteq BOOLEAN
      <4>1. (temp \/ step = 3) \in BOOLEAN /\ (confused \/ TRUE) \in BOOLEAN /\ (confused \/ FALSE) \in BOOLEAN
        BY Zenon
      <4>2. temp \in BOOLEAN /\ confused \in BOOLEAN
        BY Zenon DEF BosonTypeOK
      <4>3. temp' \in BOOLEAN /\ confused' \in BOOLEAN
        BY <3>2, <4>1, <4>2, Zenon
      <4> QED BY <2>5, <4>3, Zenon
    <3>4. errs' \in 0..2
      <4>1. errs' = errs \/ (step > 2 /\ errs' = errs + 1)
        BY <1>4 DEF Answered, LateAnswer, NoAnswer, Accept
      <4>2. step > 2 => errs <= 1
        BY DEF PortInv, BosonTypeOK
      <4> QED BY <4>1, <4>2 DEF BosonTypeOK
    <3>5. step > 0
      BY <2>1 DEF PortInv, BosonTypeOK
    <3>6. late' \subseteq Late
      <4>1. sequence \in 0..(SeqMod - 1) /\ step \in 1..4
        BY <3>5 DEF BosonTypeOK
      <4>2. 0 \in 0..Lag /\ FALSE \in BOOLEAN
        OBVIOUS
      <4>3. [sequence |-> sequence, step |-> step, old |-> FALSE, lag |-> 0] \in Late
        BY <4>1, <4>2 DEF Late
      <4> QED BY <1>0, <2>3, <4>3
    <3>7. BosonTypeOK'
      BY <2>1, <2>2, <3>1, <3>3, <3>4, <3>6 DEF BosonTypeOK, Advance, Late
    <3>8. \A r \in late' : Since(r)'
      BY <1>0, <2>2, <2>3, <2>5 DEF Since, BosonTypeOK
    <3> QED BY <3>7, <3>8
  <2>6. asked' = FALSE \/ UNCHANGED <<port, step, asked, errs, temp, confused>>
    BY <1>4 DEF Answered, LateAnswer, NoAnswer, Accept, Advance
  <2> QED BY <2>4, <2>5, <2>6
<1> QED BY <1>1, <1>2, <1>3, <1>4

(* Where the port is tells how far the poll is.                            *)
PortShape ==
  /\ asked => step # 0
  /\ step \in {1, 2} => port = "identifying"
  /\ step \in {3, 4} => port = "open"
  /\ step = 0 => port # "identifying"
  /\ step \in 1..3 => errs = 0
  /\ step = 4 => errs <= 1

LEMMA ShapeKept ==
  ASSUME BosonTypeOK, PortInv,
         OpenPort \/ ReusePort \/ Ask \/ SkipReads \/ Answered \/ LateAnswer
           \/ (\E l \in BOOLEAN : NoAnswer(l)) \/ PortGone \/ (step = 0 /\ ClosePort)
  PROVE  PortShape'
<1> USE DEF PortShape
<1>1. PortShape /\ step \in 0..4 /\ errs \in 0..2
  BY DEF PortInv, BosonTypeOK
<1>2. CASE OpenPort \/ ReusePort
  <2>1. asked' = asked /\ step' # 0 /\ errs' = 0
    BY <1>2 DEF OpenPort, ReusePort
  <2>2. (step' = 1 /\ port' = "identifying") \/ (step' = 3 /\ port' = "open")
    BY <1>2 DEF OpenPort, ReusePort
  <2> QED BY <2>1, <2>2
<1>3. CASE Ask
  <2>1. UNCHANGED <<port, step, errs>> /\ step > 0
    BY <1>3 DEF Ask
  <2> QED BY <1>1, <2>1
<1>4. CASE SkipReads
  <2>1. UNCHANGED <<port, errs, asked>> /\ step' = 0 /\ step > 2 /\ ~asked
    BY <1>4 DEF SkipReads
  <2>2. ~asked'
    <3>1. asked' = asked
      BY <2>1
    <3>2. asked \in BOOLEAN
      BY Zenon DEF BosonTypeOK
    <3>3. asked = FALSE
      BY <2>1, <3>2, Zenon
    <3> QED BY <3>1, <3>3
  <2>3. port' = "open"
    BY <1>1, <2>1
  <2> QED BY <2>1, <2>2, <2>3
<1>5. CASE PortGone
  <2>1. port' = "closed" /\ step' = 0 /\ asked' = FALSE
    BY <1>5 DEF PortGone
  <2> QED BY <2>1
<1>6. CASE step = 0 /\ ClosePort
  <2>1. port' = "closed" /\ step' = 0 /\ asked' = asked /\ ~asked
    BY <1>1, <1>6 DEF ClosePort
  <2>2. ~asked'
    <3>1. asked' = asked
      BY <2>1
    <3>2. asked \in BOOLEAN
      BY Zenon DEF BosonTypeOK
    <3>3. asked = FALSE
      BY <2>1, <3>2, Zenon
    <3> QED BY <3>1, <3>3
  <2> QED BY <2>1, <2>2
<1>7. CASE Answered \/ LateAnswer \/ \E l \in BOOLEAN : NoAnswer(l)
  <2>0. step \in 1..4
    BY <1>1, <1>7 DEF Answered, LateAnswer, NoAnswer
  <2>1. CASE UNCHANGED <<port, step, asked, errs>>
    BY <1>1, <2>0, <2>1
  <2>2. CASE Advance /\ (errs' = errs \/ (step > 2 /\ errs' = errs + 1))
    <3>1. asked' = FALSE /\ step' = (IF step = 4 THEN 0 ELSE step + 1) /\ port' = (IF step = 2 THEN "open" ELSE port)
      BY <2>2 DEF Advance, NextStep
    <3>2. ~asked'
      BY <3>1
    <3>3. errs' = errs \/ (step > 2 /\ errs' = errs + 1)
      BY <2>2
    <3> QED BY <1>1, <2>0, <3>1, <3>2, <3>3
  <2>3. CASE Answered
    BY <2>2, <2>3 DEF Answered, Accept
  <2>4. CASE LateAnswer
    BY <2>1, <2>2, <2>4 DEF LateAnswer, Accept
  <2>5. CASE \E l \in BOOLEAN : NoAnswer(l)
    BY <2>2, <2>5 DEF NoAnswer
  <2> QED BY <1>7, <2>3, <2>4, <2>5
<1> QED BY <1>2, <1>3, <1>4, <1>5, <1>6, <1>7

LEMMA NeverConfused ==
  ASSUME BosonTypeOK, PortInv,
         OpenPort \/ ReusePort \/ Ask \/ SkipReads \/ Answered \/ LateAnswer
           \/ (\E l \in BOOLEAN : NoAnswer(l)) \/ PortGone \/ ClosePort
  PROVE  ~confused'
<1>1. ~confused
  BY DEF PortInv
<1>2. CASE confused' = confused
  BY <1>1, <1>2, Zenon
<1>3. CASE LateAnswer
  <2>1. asked
    BY <1>3 DEF LateAnswer
  <2>2. PICK r \in late : confused' = confused \/ (Matches(r) /\ confused' = (confused \/ ~r.old))
    BY <1>3 DEF LateAnswer
  <2>3. CASE Matches(r) /\ confused' = (confused \/ ~r.old)
    <3>1. r.old
      BY <2>1, <2>3, LateNeverMatches
    <3> QED BY <1>1, <2>3, <3>1, Zenon
  <2> QED BY <1>2, <2>2, <2>3
<1>4. CASE OpenPort \/ ReusePort \/ Ask \/ SkipReads \/ Answered \/ (\E l \in BOOLEAN : NoAnswer(l)) \/ PortGone
           \/ ClosePort
  BY <1>2, <1>4 DEF OpenPort, ReusePort, Ask, SkipReads, Answered, NoAnswer, PortGone, ClosePort
<1> QED BY <1>3, <1>4

LEMMA PortMoves ==
  ASSUME BosonTypeOK, PortInv,
         OpenPort \/ ReusePort \/ Ask \/ SkipReads \/ Answered \/ LateAnswer
           \/ (\E l \in BOOLEAN : NoAnswer(l)) \/ PortGone \/ (step = 0 /\ ClosePort),
         step' # 0 => worker' = "reading" /\ deviceKind' = "boson"
  PROVE  BosonTypeOK' /\ PortInv'
<1>1. BosonTypeOK' /\ \A r \in late' : Since(r)'
  BY AskSteps, BosonTyped
<1>2. PortShape'
  BY ShapeKept
<1>3. ~confused'
  BY NeverConfused
<1> QED BY <1>1, <1>2, <1>3 DEF PortInv, PortShape, Since

LEMMA PortKept ==
  ASSUME BosonTypeOK, PortInv, UNCHANGED boson,
         step # 0 => worker' = "reading" /\ deviceKind' = "boson"
  PROVE  BosonTypeOK' /\ PortInv'
<1>1. UNCHANGED <<port, sequence, step, asked, errs, temp, late, confused>>
  BY DEF boson
<1>2. BosonTypeOK'
  BY <1>1 DEF BosonTypeOK, Late
<1>3. PortInv'
  BY <1>1 DEF PortInv
<1> QED BY <1>2, <1>3

LEMMA PortStep ==
  ASSUME HealthTypeOK, WorkInv, PortInv, [HealthNext]_healthVars
  PROVE  BosonTypeOK' /\ PortInv'
<1>1. BosonTypeOK /\ deviceKind' = deviceKind
  BY TypeParts, KindKept
<1>2. step # 0 => worker = "reading" /\ deviceKind = "boson"
  BY DEF PortInv
<1>3. CASE UNCHANGED boson /\ (worker' = "reading" <=> worker = "reading")
  BY <1>1, <1>2, <1>3, PortKept
<1>4. CASE UNCHANGED boson /\ worker = "reading" /\ (step = 0 \/ deviceKind = "genicam")
  BY <1>1, <1>2, <1>4, PortKept
<1>5. CASE UNCHANGED boson /\ worker' = "reading"
  BY <1>1, <1>2, <1>5, PortKept
<1>6. CASE (OpenPort \/ ReusePort) /\ worker' = "reading" /\ deviceKind = "boson"
  BY <1>1, <1>6, PortMoves
<1>7. CASE worker = "reading" /\ worker' = "reading"
           /\ (Ask \/ SkipReads \/ Answered \/ LateAnswer \/ \E l \in BOOLEAN : NoAnswer(l))
  <2>1. step # 0
    BY <1>7 DEF Ask, SkipReads, Answered, LateAnswer, NoAnswer, PortInv
  <2> QED BY <1>1, <1>2, <1>7, <2>1, PortMoves
<1>8. CASE worker = "reading" /\ PortGone
  <2>1. step' = 0
    BY <1>8 DEF PortGone
  <2> QED BY <1>1, <1>8, <2>1, PortMoves
<1>9. CASE worker = "reading" /\ step = 0 /\ ClosePort
  <2>1. step' = 0
    BY <1>9 DEF ClosePort
  <2> QED BY <1>1, <1>9, <2>1, PortMoves
<1>10. CASE worker # "reading" /\ worker' # "reading" /\ ClosePort
  <2>1. step = 0 /\ step' = 0
    BY <1>2, <1>10 DEF ClosePort
  <2> QED BY <1>1, <1>10, <2>1, PortMoves
<1> QED BY <1>3, <1>4, <1>5, <1>6, <1>7, <1>8, <1>9, <1>10, BosonMoves

-------------------------------------------------------------------------------
(* The GenICam camera and its poll.                                        *)

CameraMoves == LoseCamera \/ StartReconnect \/ Reconnected
PollSteps == Look \/ ReadMeasurement \/ ReadState \/ ReadFails

LEMMA GenicamMoves ==
  ASSUME WorkInv, [HealthNext]_healthVars
  PROVE  \/ UNCHANGED genicam /\ (worker = "reading" /\ deviceKind = "genicam" => worker' = "reading")
         \/ StartPoll /\ worker' = "reading" /\ deviceKind = "genicam"
         \/ PollSteps /\ worker = "reading" /\ worker' = "reading" /\ deviceKind = "genicam"
         \/ LeavePoll
         \/ CameraMoves /\ worker' = worker
<1>1. CASE StartBoson \/ BosonStep \/ BosonGone \/ BosonEnds
  <2>1. UNCHANGED genicam /\ deviceKind # "genicam"
    BY <1>1 DEF StartBoson, BosonStep, BosonGone, BosonEnds
  <2> QED BY <2>1
<1>2. CASE StartGenicam
  BY <1>2 DEF StartGenicam, Goto
<1>3. CASE GenicamStep
  BY <1>3 DEF GenicamStep, PollSteps
<1>4. CASE GenicamRaises \/ GenicamEnds
  BY <1>4 DEF GenicamRaises, GenicamEnds
<1>5. CASE Camera
  BY <1>5 DEF Camera, CameraMoves, monitor
<1>6. CASE Wake \/ GiveUpPoll \/ PollPipeline \/ Publish \/ CheckWrite \/ ReplaceFile \/ CheckReplaced \/ Observe
           \/ WorkerCleans \/ StartThread
  <2>1. UNCHANGED genicam /\ worker # "reading"
    BY <1>6 DEF Wake, GiveUpPoll, PollPipeline, Publish, CheckWrite, ReplaceFile, CheckReplaced,
         Observe, WorkerCleans, StartThread, Goto, Keep, MainGoto, WorkInv
  <2> QED BY <2>1
<1>7. CASE UNCHANGED healthVars \/ Start \/ ClearStop \/ Join \/ MainCleans \/ RemoveFile \/ Exit
           \/ StopMonitor \/ Signal \/ Tick
  <2>1. UNCHANGED genicam /\ worker' = worker
    BY <1>7 DEF healthVars, monitor, Start, ClearStop, Join, MainCleans, RemoveFile, Exit,
         StopMonitor, Signal, Tick, KeepMain
  <2> QED BY <2>1
<1> QED BY <1>1, <1>2, <1>3, <1>4, <1>5, <1>6, <1>7, StepCases

(* How far the poll is, and where the camera is.                           *)
PollShape ==
  /\ link # "up" => device < MaxReconnects
  /\ at \in {"hw", "temp"} => failed = 0
  /\ at = "state" => failed <= 1
  /\ at = "hw" => of = {}

(* No value of an earlier device.                                          *)
SameOf == ~recycled => id = device /\ status.of \in {-1, knownId} /\ of \subseteq {knownId}

LEMMA TransactionKeeps ==
  ASSUME GenicamTypeOK, PollShape, SameOf, PollSteps
  PROVE  GenicamTypeOK' /\ PollShape' /\ SameOf'
<1> USE ReconnectsAssumption
<1>1. at \in Transactions /\ NextAt \in {"temp", "state", "last", "none"}
      /\ at' = NextAt
      /\ (at = "hw" => NextAt = "temp") /\ (at = "temp" => NextAt = "state") /\ (at = "state" => NextAt = "last")
      /\ (at = "last" => NextAt = "none")
  BY DEF PollSteps, Look, ReadMeasurement, ReadState, ReadFails, Transactions, NextAt
<1>2. UNCHANGED <<device, id, link, recycled>>
  BY DEF PollSteps, Look, ReadMeasurement, ReadState, ReadFails, Transact
<1>3. failed' \in 0..2 /\ (at' = "temp" => failed' = 0) /\ (at' = "state" => failed' <= 1)
  BY <1>1 DEF PollSteps, Look, ReadMeasurement, ReadState, ReadFails, PollShape, GenicamTypeOK,
       Transactions
<1>4. measured' \in {0, 1, None}
  BY DEF PollSteps, Look, ReadMeasurement, ReadState, ReadFails, GenicamTypeOK
<1>5. status' = status \/ status' = NoStatus \/ \E level \in {0, 2} : status' = [level |-> level, of |-> device]
  BY DEF PollSteps, Look, ReadMeasurement, ReadState, ReadFails
<1>6. status' \in [level : {0, 2}, of : -1..MaxReconnects]
  BY <1>5 DEF NoStatus, GenicamTypeOK
<1>7. knownId' \in -1..MaxReconnects /\ of' \subseteq 0..MaxReconnects
  <2>1. knownId' \in {knownId, id} /\ (of' = of \/ of' = of \cup {device})
    BY DEF PollSteps, Look, ReadMeasurement, ReadState, ReadFails, Transact
  <2>2. knownId \in -1..MaxReconnects /\ id \in 0..MaxReconnects /\ device \in 0..MaxReconnects
        /\ of \subseteq 0..MaxReconnects
    BY DEF GenicamTypeOK
  <2>3. knownId' \in -1..MaxReconnects
    BY <2>1, <2>2
  <2> QED BY <2>1, <2>2, <2>3
<1>8. recycled' \in BOOLEAN
  BY <1>2 DEF GenicamTypeOK
<1>9. GenicamTypeOK'
  BY <1>1, <1>2, <1>3, <1>4, <1>6, <1>7, <1>8 DEF GenicamTypeOK, Transactions
<1>10. PollShape'
  BY <1>1, <1>2, <1>3 DEF PollShape
<1>11. SameOf'
  <2> SUFFICES ASSUME ~recycled
               PROVE  id' = device' /\ status'.of \in {-1, knownId'} /\ of' \subseteq {knownId'}
    <3>1. recycled' = recycled
      BY <1>2
    <3>2. ~recycled' => ~recycled
      BY <3>1
    <3> QED BY <3>2 DEF SameOf
  <2>1. id = device /\ status.of \in {-1, knownId} /\ of \subseteq {knownId}
    BY DEF SameOf
  <2>2. CASE ReadFails
    <3>1. UNCHANGED <<knownId, status, of>>
      BY <2>2 DEF ReadFails
    <3> QED BY <1>2, <2>1, <3>1
  <2>3. CASE ~ReadFails
    <3>1. Transact /\ (Look \/ ReadMeasurement \/ ReadState)
      BY <2>3 DEF PollSteps, Look, ReadMeasurement, ReadState
    <3>2. knownId' = device /\ of' = of \cup {device} /\ (at # "hw" => knownId = device)
      BY <2>1, <3>1 DEF Transact, Unavailable, SameDevice
    <3>3. of' \subseteq {knownId'}
      BY <2>1, <3>2 DEF PollShape
    <3>4. status'.of \in {-1, knownId'}
      <4>1. CASE Look
        <5>1. status' = IF at = "hw" /\ knownId # id THEN NoStatus ELSE status
          BY <4>1 DEF Look
        <5>2. CASE at = "hw" /\ knownId # id
          BY <5>1, <5>2 DEF NoStatus
        <5>3. CASE ~(at = "hw" /\ knownId # id)
          BY <2>1, <3>2, <5>1, <5>3
        <5> QED BY <5>2, <5>3
      <4>2. CASE ReadMeasurement
        BY <2>1, <3>2, <4>2 DEF ReadMeasurement
      <4>3. CASE ReadState
        <5>1. PICK level \in {0, 2} : status' = [level |-> level, of |-> device]
          BY <4>3 DEF ReadState
        <5> QED BY <3>2, <5>1
      <4> QED BY <3>1, <4>1, <4>2, <4>3
    <3> QED BY <1>2, <2>1, <3>3, <3>4
  <2> QED BY <2>2, <2>3
<1> QED BY <1>9, <1>10, <1>11

LEMMA CameraKeeps ==
  ASSUME GenicamTypeOK, PollShape, SameOf, CameraMoves
  PROVE  GenicamTypeOK' /\ PollShape' /\ SameOf' /\ at' = at
<1> USE ReconnectsAssumption
<1>1. UNCHANGED <<knownId, status, at, failed, measured, of>>
  BY DEF CameraMoves, LoseCamera, StartReconnect, Reconnected
<1>2. CASE LoseCamera \/ StartReconnect
  <2>1. UNCHANGED <<device, id, recycled>> /\ link' \in {"lost", "away"} /\ device < MaxReconnects
    BY <1>2 DEF LoseCamera, StartReconnect, PollShape
  <2>2. recycled' \in BOOLEAN /\ (~recycled' => ~recycled)
    BY <2>1 DEF GenicamTypeOK
  <2>3. GenicamTypeOK'
    BY <1>1, <2>1, <2>2 DEF GenicamTypeOK
  <2>4. PollShape'
    BY <1>1, <2>1 DEF PollShape
  <2>5. SameOf'
    BY <1>1, <2>1, <2>2 DEF SameOf
  <2> QED BY <1>1, <2>3, <2>4, <2>5
<1>3. CASE Reconnected
  <2>1. device < MaxReconnects /\ device' = device + 1 /\ link' = "up"
        /\ ((id' = device + 1 /\ recycled' = recycled) \/ (id' = id /\ recycled' = TRUE))
    BY <1>3 DEF Reconnected, PollShape
  <2>2. recycled' \in BOOLEAN
    BY <2>1 DEF GenicamTypeOK
  <2>3. device' \in 0..MaxReconnects /\ id' \in 0..MaxReconnects
    BY <2>1 DEF GenicamTypeOK
  <2>4. GenicamTypeOK'
    BY <1>1, <2>1, <2>2, <2>3 DEF GenicamTypeOK
  <2>5. PollShape'
    BY <1>1, <2>1 DEF PollShape
  <2>6. ~recycled' => ~recycled /\ id' = device'
    BY <2>1
  <2>7. SameOf'
    BY <1>1, <2>6 DEF SameOf
  <2> QED BY <1>1, <2>4, <2>5, <2>7
<1> QED BY <1>2, <1>3 DEF CameraMoves

LEMMA DeviceStep ==
  ASSUME HealthTypeOK, WorkInv, DeviceInv, [HealthNext]_healthVars
  PROVE  GenicamTypeOK' /\ DeviceInv'
<1>1. GenicamTypeOK /\ deviceKind' = deviceKind
  BY TypeParts, KindKept
<1>2. PollShape /\ SameOf /\ (at # "none" => worker = "reading" /\ deviceKind = "genicam")
  BY DEF DeviceInv, PollShape, SameOf
<1>3. (at' # "none" => worker' = "reading" /\ deviceKind' = "genicam") /\ PollShape' /\ SameOf' => DeviceInv'
  BY DEF DeviceInv, PollShape, SameOf
<1>4. CASE UNCHANGED genicam /\ (worker = "reading" /\ deviceKind = "genicam" => worker' = "reading")
  <2>1. UNCHANGED <<device, id, link, knownId, status, at, failed, measured, of, recycled>>
    BY <1>4 DEF genicam
  <2>2. GenicamTypeOK' /\ PollShape' /\ SameOf'
    BY <1>1, <1>2, <2>1 DEF GenicamTypeOK, PollShape, SameOf
  <2> QED BY <1>1, <1>2, <1>3, <1>4, <2>1, <2>2
<1>5. CASE StartPoll /\ worker' = "reading" /\ deviceKind = "genicam"
  <2>1. at' = "hw" /\ failed' = 0 /\ measured' = None /\ of' = {}
        /\ UNCHANGED <<device, id, link, knownId, status, recycled>>
    BY <1>5 DEF StartPoll
  <2>2. GenicamTypeOK' /\ PollShape' /\ SameOf'
    BY <1>1, <1>2, <2>1 DEF GenicamTypeOK, PollShape, SameOf, Transactions
  <2> QED BY <1>1, <1>3, <1>5, <2>2
<1>6. CASE LeavePoll
  <2>1. at' = "none" /\ failed' = 0 /\ measured' = None /\ of' = {}
        /\ UNCHANGED <<device, id, link, knownId, status, recycled>>
    BY <1>6 DEF LeavePoll
  <2>2. GenicamTypeOK' /\ PollShape' /\ SameOf'
    BY <1>1, <1>2, <2>1 DEF GenicamTypeOK, PollShape, SameOf
  <2> QED BY <1>3, <2>1, <2>2
<1>7. CASE PollSteps /\ worker = "reading" /\ worker' = "reading" /\ deviceKind = "genicam"
  BY <1>1, <1>2, <1>3, <1>7, TransactionKeeps
<1>8. CASE CameraMoves /\ worker' = worker
  BY <1>1, <1>2, <1>3, <1>8, CameraKeeps
<1> QED BY <1>4, <1>5, <1>6, <1>7, <1>8, GenicamMoves

-------------------------------------------------------------------------------
(* Who is where.                                                           *)
LEMMA WorkStep ==
  ASSUME HealthTypeOK, WorkInv, PortInv, [HealthNext]_healthVars
  PROVE  WorkInv'
<1> USE DEF WorkInv
<1>1. PlaceTypeOK /\ FlagTypeOK /\ BosonTypeOK
  BY TypeParts
<1>2. CASE UNCHANGED healthVars \/ Camera \/ Tick
  <2>1. UNCHANGED <<mainAt, worker, stopSet, interrupted, cleaned, snapshotFile, port>>
    BY <1>2 DEF healthVars, monitor, Camera, Tick, boson
  <2> QED BY <2>1
<1>3. CASE Wake \/ GiveUpPoll \/ PollPipeline \/ StartGenicam \/ GenicamStep \/ GenicamRaises
           \/ GenicamEnds \/ Publish \/ CheckWrite \/ Observe
  <2>1. UNCHANGED <<mainAt, stopSet, interrupted, cleaned, snapshotFile, port>> /\ mainAt # "done"
        /\ worker \notin {"none", "dead", "replaced"} /\ worker' \notin {"none", "dead", "replaced"}
    BY <1>3 DEF Wake, GiveUpPoll, PollPipeline, StartGenicam, GenicamStep, GenicamRaises,
         GenicamEnds, Publish, CheckWrite, Observe, Goto, Keep, Failure, Success, boson
  <2> QED BY <2>1
<1>4. CASE StartBoson \/ BosonStep \/ BosonGone \/ BosonEnds
  <2>1. UNCHANGED <<mainAt, stopSet, interrupted, cleaned, snapshotFile>> /\ mainAt # "done"
        /\ worker \notin {"none", "dead", "replaced"} /\ worker' \notin {"none", "dead", "replaced"}
    BY <1>4 DEF StartBoson, BosonStep, BosonGone, BosonEnds, Goto, Keep, Failure, Success
  <2> QED BY <2>1
<1>5. CASE ReplaceFile \/ CheckReplaced
  <2>1. UNCHANGED <<mainAt, stopSet, interrupted, cleaned, port>> /\ mainAt # "done"
        /\ worker \notin {"none", "dead"} /\ worker' \in {"replaced", "observe"}
    BY <1>5 DEF ReplaceFile, CheckReplaced, Goto, boson
  <2>2. worker' = "observe" => (snapshotFile' => ~stopSet)
    BY <1>5 DEF ReplaceFile, CheckReplaced, Goto
  <2> QED BY <2>1, <2>2
<1>6. CASE WorkerCleans
  <2>1. UNCHANGED <<mainAt, stopSet, interrupted>> /\ worker = "cleanup" /\ worker' = "dead" /\ CleanUp
    BY <1>6 DEF WorkerCleans, Goto
  <2>2. ~cleaned /\ port # "identifying"
    BY <2>1 DEF PortInv
  <2>3. cleaned' = TRUE /\ snapshotFile' = FALSE /\ port' = "closed"
    BY <1>1, <2>1, <2>2 DEF CleanUp, ClosePort, boson, BosonTypeOK
  <2> QED BY <2>1, <2>3
<1>7. CASE MainCleans
  <2>1. UNCHANGED <<worker, stopSet, interrupted>> /\ mainAt = "clean" /\ mainAt' = "remove" /\ CleanUp
    BY <1>7 DEF MainCleans, MainGoto, KeepMain
  <2>2. port' = "closed" /\ cleaned' = TRUE
    BY <2>1 DEF CleanUp, ClosePort, boson
  <2> QED BY <2>1, <2>2
<1>8. CASE Start \/ ClearStop \/ Join \/ RemoveFile \/ Exit \/ StopMonitor \/ Signal
  <2>1. UNCHANGED <<worker, port>>
    BY <1>8 DEF Start, ClearStop, Join, RemoveFile, Exit, StopMonitor, Signal, KeepMain, boson
  <2>2. CASE Start
    BY <2>1, <2>2 DEF Start, MainGoto, KeepMain
  <2>3. CASE ClearStop
    BY <2>1, <2>3 DEF ClearStop, MainGoto, KeepMain
  <2>4. CASE Join
    BY <2>1, <2>4 DEF Join, KeepMain
  <2>5. CASE RemoveFile \/ Exit
    BY <2>1, <2>5 DEF RemoveFile, Exit, MainGoto, KeepMain
  <2>6. CASE StopMonitor
    BY <2>1, <2>6 DEF StopMonitor, KeepMain
  <2>7. CASE Signal
    BY <2>1, <2>7, <1>1 DEF Signal, PlaceTypeOK
  <2> QED BY <1>8, <2>2, <2>3, <2>4, <2>5, <2>6, <2>7
<1>9. CASE StartThread
  BY <1>9 DEF StartThread, MainGoto, boson
<1> QED BY <1>2, <1>3, <1>4, <1>5, <1>6, <1>7, <1>8, <1>9, StepCases

-------------------------------------------------------------------------------
(* The invariant.                                                          *)
LEMMA HealthInitially == HealthInit => HealthIInv
<1> SUFFICES ASSUME HealthInit PROVE HealthIInv
  OBVIOUS
<1> USE TimesAssumption, SeqAssumption, ReconnectsAssumption, KindsAssumption
<1>1. PlaceTypeOK
  BY DEF HealthInit, PlaceTypeOK
<1>2. FlagTypeOK
  BY Zenon DEF HealthInit, FlagTypeOK
<1>3. AgeTypeOK
  BY DEF HealthInit, AgeTypeOK
<1>4. RowTypeOK
  <2>1. NoRow \in PollRows /\ [level |-> OK, last |-> OK, age |-> 0] \in Rows
        /\ [level |-> OK, lim |-> OK] \in Observations /\ OK \in Faults
    BY DEF NoRow, PollRows, Rows, Observations, Faults, OK
  <2>2. [stream |-> OK, camera |-> OK] \in [Components -> Faults]
    BY <2>1 DEF Components
  <2> QED BY <2>1, <2>2 DEF HealthInit, RowTypeOK, NoReports, NoDraft, NoSnapshot
<1>5. BosonTypeOK
  <2>1. {asked, temp, confused} \subseteq BOOLEAN
    BY Zenon DEF HealthInit, BosonInit
  <2> QED BY <2>1 DEF HealthInit, BosonInit, BosonTypeOK
<1>6. GenicamTypeOK
  <2>1. NoStatus \in [level : {0, 2}, of : -1..MaxReconnects]
    BY DEF NoStatus
  <2>2. device = 0 /\ id = 0 /\ link = "up" /\ knownId = -1 /\ status = NoStatus
        /\ at = "none" /\ failed = 0 /\ measured = None /\ of = {} /\ recycled = FALSE
    BY DEF HealthInit, GenicamInit
  <2>3. -1 \in -1..MaxReconnects /\ 0 \in 0..MaxReconnects
    OBVIOUS
  <2>4. status \in [level : {0, 2}, of : -1..MaxReconnects] /\ knownId \in -1..MaxReconnects
    BY <2>1, <2>2, <2>3
  <2>5. device \in 0..MaxReconnects /\ id \in 0..MaxReconnects /\ failed \in 0..2
    BY <2>2, <2>3
  <2>6. link \in {"up", "lost", "away"} /\ at \in {"none"} \cup Transactions
    BY <2>2
  <2>7. measured \in {0, 1, None} /\ of \subseteq 0..MaxReconnects
    BY <2>2
  <2>8. recycled \in BOOLEAN
    BY <2>2
  <2> QED BY <2>4, <2>5, <2>6, <2>7, <2>8 DEF GenicamTypeOK
<1>7. WorkInv
  BY DEF HealthInit, WorkInv, BosonInit
<1>8. PortInv
  BY DEF HealthInit, PortInv, BosonInit
<1>9. DeviceInv
  BY DEF HealthInit, DeviceInv, GenicamInit, NoStatus
<1>10. RowsInv
  BY DEF HealthInit, RowsInv, NoSnapshot
<1>11. HealthTypeOK
  BY <1>1, <1>2, <1>3, <1>4, <1>5, <1>6, TypeParts
<1> QED BY <1>7, <1>8, <1>9, <1>10, <1>11 DEF HealthIInv

LEMMA HealthStep == HealthIInv /\ [HealthNext]_healthVars => HealthIInv'
<1> SUFFICES ASSUME HealthIInv, [HealthNext]_healthVars PROVE HealthIInv'
  OBVIOUS
<1>1. HealthTypeOK /\ WorkInv /\ PortInv /\ DeviceInv /\ RowsInv
  BY DEF HealthIInv
<1>2. HealthTypeOK'
  BY <1>1, PlaceTyped, FlagsTyped, AgesTyped, RowTyped, PortStep, DeviceStep, TypePartsStep
<1> QED BY <1>1, <1>2, WorkStep, PortStep, DeviceStep, RowsStep DEF HealthIInv

LEMMA HealthInvariance == HealthSpec => []HealthIInv
BY HealthInitially, HealthStep, PTL DEF HealthSpec

-------------------------------------------------------------------------------
(* health.py:125-493: whenever and however late it asks, a reader is given  *)
(* at least the severity that the providers reported last, and nothing as   *)
(* current that is StaleAfter old (_held, merge, _aged_latest).             *)
THEOREM ReadersAreTold == HealthSpec => []ReadersSeeTheTruth
<1>1. HealthIInv => ReadersSeeTheTruth
  <2> SUFFICES ASSUME HealthIInv PROVE ReadersSeeTheTruth
    OBVIOUS
  <2>1. RowTypeOK /\ AgeTypeOK /\ HealthTypeOK
    BY TypeParts DEF HealthIInv
  <2>2. ASSUME latest.some, NEW c \in Reported
        PROVE  Shown(Reply(c)) >= latest.truth[c] /\ (Reply(c).level # STALE => born[c] < StaleAfter)
    <3>1. c \in Components
      BY DEF Reported, Components
    <3>2. latest[c] \in Rows /\ born[c] \in 0..StaleAfter /\ elapsed \in Nat
      BY <2>1, <3>1 DEF RowTypeOK, AgeTypeOK, Components
    <3>3. Shown(latest[c]) >= latest.truth[c] /\ born[c] <= latest[c].age + elapsed
      BY <2>2 DEF HealthIInv, RowsInv
    <3>4. Shown(Reply(c)) = Shown(latest[c]) /\ (Reply(c).level # STALE => latest[c].age + elapsed < StaleAfter)
      BY <3>2, AgedIs, TimesAssumption DEF Reply
    <3>5. latest[c].age \in Int
      BY <3>2, TimesAssumption DEF Rows
    <3> QED BY <3>2, <3>3, <3>4, <3>5, TimesAssumption
  <2> QED BY <2>1, <2>2 DEF ReadersSeeTheTruth, FaultsStayVisible, NothingOldIsCurrent
<1> QED BY <1>1, HealthInvariance, PTL

(* health_boson.py:180-330, health_genicam.py:150-420: what a report says    *)
(* comes from the device it is about: no answer to an earlier command is     *)
(* taken for a later one's, and no value outlives a reconnect.               *)
THEOREM ReportsAreOfOneDevice == HealthSpec => []ReportsArePure
<1>1. HealthIInv => ReportsArePure
  <2> SUFFICES ASSUME HealthIInv PROVE ReportsArePure
    OBVIOUS
  <2>1. ~confused
    BY DEF HealthIInv, PortInv
  <2>2. ASSUME ~recycled PROVE OneDevice
    <3>1. status.of \in {-1, knownId} /\ of \subseteq {knownId}
      BY <2>2 DEF HealthIInv, DeviceInv
    <3> DEFINE S == of \cup ({status.of} \ {-1})
    <3>2. S \subseteq {knownId}
      BY <3>1
    <3>3. IsFiniteSet({knownId}) /\ Cardinality({knownId}) = 1
      BY FS_Singleton
    <3>4. Cardinality(S) <= Cardinality({knownId})
      BY <3>2, <3>3, FS_Subset
    <3> QED BY <3>3, <3>4 DEF OneDevice
  <2> QED BY <2>1, <2>2 DEF ReportsArePure
<1> QED BY <1>1, HealthInvariance, PTL

(* health.py:494-652: when the monitor has been stopped, nothing more is    *)
(* published, and its end leaves no port and no file.                       *)
THEOREM StopIsTheEnd == HealthSpec => StopLeavesNothing
<1>1. HealthIInv => CleanEnd
  BY DEF HealthIInv, WorkInv, CleanEnd
<1>2. HealthIInv /\ [HealthNext]_healthVars => [interrupted = "run" => latest' = latest]_healthVars
  <2> SUFFICES ASSUME HealthIInv, [HealthNext]_healthVars, interrupted = "run"
               PROVE  latest' = latest
    OBVIOUS
  <2>1. stopSet
    BY DEF HealthIInv, WorkInv
  <2>2. CASE StartBoson \/ BosonGone \/ BosonEnds \/ GenicamRaises \/ GenicamEnds
    BY <2>2 DEF StartBoson, BosonGone, BosonEnds, GenicamRaises, GenicamEnds, Failure, Success,
         data
  <2>3. CASE Publish
    BY <2>1, <2>3 DEF Publish
  <2> QED BY <2>2, <2>3, StepCases DEF healthVars, data, Wake, GiveUpPoll, PollPipeline,
       BosonStep, StartGenicam, GenicamStep, CheckWrite, ReplaceFile, CheckReplaced, Observe,
       WorkerCleans, Start, ClearStop, StartThread, Join, MainCleans, RemoveFile, Exit,
       StopMonitor, Signal, Camera, Tick, KeepMain
<1> QED BY <1>1, <1>2, HealthInvariance, PTL DEF StopLeavesNothing, NothingAfterStop, HealthSpec
===============================================================================
