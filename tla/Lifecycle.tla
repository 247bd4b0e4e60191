------------------------------- MODULE Lifecycle -------------------------------
(***************************************************************************)
(* The service's life: cam_driver/lifecycle.py over the session mechanism  *)
(* of cam_driver/pipeline.py, inside main.py, across restarts.             *)
(*                                                                         *)
(* Everything here runs on one thread, the main thread, which is in a      *)
(* callback of the GLib loop or in run() before and after it.  It is still *)
(* concurrent: a Python signal handler runs between any two bytecodes of   *)
(* that thread, to its end, and changes the state the interrupted code is  *)
(* in the middle of changing.  The main thread's program points are        *)
(* therefore the places where a handler can tell the difference.  Other    *)
(* threads fail a recorder, end a playback, or ask the loop for a stop.    *)
(*                                                                         *)
(* The drain of a session is RecordingSession's business: here a recorder  *)
(* is the GStreamer pipeline a session holds until it is closed.           *)
(***************************************************************************)
EXTENDS Naturals

CONSTANTS
  MaxBoots,     \* bound: processes started, one after the other
  MaxSessions   \* bound: recording sessions of one process

ASSUME LifecycleAssumption == MaxBoots \in Nat /\ MaxSessions \in Nat

VARIABLES
  deploy,       \* the configuration the container is deployed with
  \* -- outlives the process
  file,         \* the remembered-state file: absent ("none") or its content
  stale,        \* the last write or unlink of it failed with an OSError
  boots,
  exit,         \* how the last process ended
  \* -- the process
  main,         \* where the main thread is
  handler,      \* the SIGTERM/SIGINT handler: "none", or its second half
  cmd,          \* the transition in progress on the main thread
  state,        \* pipeline._lifecycle
  session,      \* pipeline._session (0: None)
  seq,          \* pipeline._session_seq
  recorders,    \* sessions whose recorder pipeline is not NULL
  broken,       \* sessions whose recorder failed
  stopping,     \* pipeline._stopping
  fatal,        \* pipeline._fatal
  quitting,     \* the loop was told to quit, or EOS / the 5 s timer will
  stopDue,      \* an idle request_stop is scheduled
  held,         \* pipeline._held
  ended,        \* the playback reached its end ("ok") or failed ("error")
  bootActive,   \* main.boot_state == ACTIVE
  signalled     \* history: was a handler run, and did it find the loop idle

diskVars == <<file, stale>>
worldVars == <<deploy, boots, exit>>
sessVars == <<state, session, seq, recorders>>
runVars == <<stopping, fatal, quitting, stopDue>>
playVars == <<held, ended>>
procVars == <<main, handler, cmd, sessVars, broken, runVars, playVars, bootActive, signalled>>
vars == <<worldVars, diskVars, procVars>>

Sessions == 1..MaxSessions

Deploy == [enabled : BOOLEAN,                    \* recording.enabled
           initial : {"active", "inactive"},     \* control.initial_state
           resume  : BOOLEAN,                    \* control.resume_state
           control : BOOLEAN,                    \* control.enabled
           finite  : BOOLEAN,                    \* a playback source
           hold    : BOOLEAN]                    \* config.hold_on_finish()

ExitCode == {"none", "clean", "failed", "killed"}

MainPoint == {"down", "start", "enter", "open", "publish", "declare", "leave", "take",
              "close", "closed", "settle", "notify", "source", "loop", "shutdown"}

Transition == [op   : {"none", "activate", "deactivate"},
               from : {"none", "boot", "request", "error", "finish"},
               mine : 0..MaxSessions,       \* the session it opens or closes
               ok   : BOOLEAN]

NoCmd == [op |-> "none", from |-> "none", mine |-> 0, ok |-> FALSE]
Command(op, from) == [op |-> op, from |-> from, mine |-> 0, ok |-> FALSE]

DiskTypeOK ==
  /\ file \in {"none", "active", "inactive"} /\ stale \in BOOLEAN
  /\ boots \in 0..MaxBoots /\ exit \in ExitCode

ThreadTypeOK ==
  /\ main \in MainPoint /\ handler \in {"none", "stop"}
  /\ cmd \in Transition

SessTypeOK ==
  /\ state \in {"inactive", "activating", "active", "deactivating"}
  /\ session \in 0..MaxSessions /\ seq \in 0..MaxSessions
  /\ recorders \in SUBSET Sessions /\ broken \in SUBSET Sessions

RunTypeOK ==
  /\ stopping \in BOOLEAN /\ fatal \in BOOLEAN /\ quitting \in BOOLEAN
  /\ stopDue \in BOOLEAN /\ held \in BOOLEAN /\ bootActive \in BOOLEAN
  /\ ended \in {"no", "ok", "error"} /\ signalled \in {"no", "idle", "busy"}

TypeOK == deploy \in Deploy /\ DiskTypeOK /\ ThreadTypeOK /\ SessTypeOK /\ RunTypeOK

(* A process that has built its pipeline and installed its handlers.       *)
Fresh(point) ==
  /\ main' = point /\ handler' = "none" /\ cmd' = NoCmd
  /\ state' = "inactive" /\ session' = 0 /\ seq' = 0
  /\ recorders' = {} /\ broken' = {}
  /\ stopping' = FALSE /\ fatal' = FALSE /\ quitting' = FALSE /\ stopDue' = FALSE
  /\ held' = FALSE /\ ended' = "no"

Init ==
  /\ deploy \in Deploy
  /\ file = "none" /\ stale = FALSE /\ boots = 0 /\ exit = "none"
  /\ main = "down" /\ handler = "none" /\ cmd = NoCmd
  /\ state = "inactive" /\ session = 0 /\ seq = 0
  /\ recorders = {} /\ broken = {}
  /\ stopping = FALSE /\ fatal = FALSE /\ quitting = FALSE /\ stopDue = FALSE
  /\ held = FALSE /\ ended = "no" /\ bootActive = FALSE /\ signalled = "no"

-----------------------------------------------------------------------------
(* The remembered state.                                                   *)

(* remember(): written beside and renamed, so whole or not at all; an      *)
(* OSError is logged and the old content stays.                            *)
Remember(s) ==
  \/ deploy.resume /\ file' = s /\ stale' = FALSE
  \/ deploy.resume /\ stale' = TRUE /\ UNCHANGED file
  \/ ~deploy.resume /\ UNCHANGED diskVars

Forget ==
  \/ deploy.resume /\ file' = "none" /\ stale' = FALSE
  \/ deploy.resume /\ file # "none" /\ stale' = TRUE /\ UNCHANGED file
  \/ ~deploy.resume /\ UNCHANGED diskVars

(* resolve_boot_state(): derived, resumed or from the config.              *)
BootState ==
  IF ~deploy.enabled THEN "inactive"
  ELSE IF deploy.resume /\ file # "none" THEN file
  ELSE deploy.initial

-----------------------------------------------------------------------------
(* The steps of the main thread.  None is taken while a handler runs.      *)

At(point) == main = point /\ handler = "none"
Go(from, to) == At(from) /\ main' = to

(* main() up to pipe.run().                                                *)
StartProcess ==
  /\ main = "down"
  /\ boots < MaxBoots
  /\ boots' = boots + 1
  /\ exit' = "none"
  /\ Fresh("start")
  /\ bootActive' = (BootState = "active")
  /\ signalled' = "no"
  /\ UNCHANGED <<deploy, diskVars>>

(* boot(): a boot-active service goes through the same request.            *)
EnterBootState ==
  /\ IF BootState = "active"
       THEN Go("start", "enter") /\ cmd' = Command("activate", "boot")
       ELSE Go("start", "source") /\ UNCHANGED cmd
  /\ UNCHANGED <<worldVars, diskVars, handler, sessVars, broken, runVars, playVars, bootActive,
                 signalled>>

(* request(): a request that is illegal or already fulfilled changes       *)
(* nothing.                                                                *)
Request ==
  /\ deploy.enabled
  /\ \/ /\ state = "inactive" /\ seq < MaxSessions
        /\ Go("loop", "enter") /\ cmd' = Command("activate", "request")
     \/ /\ state = "active"
        /\ Go("loop", "leave") /\ cmd' = Command("deactivate", "request")
  /\ UNCHANGED <<worldVars, diskVars, handler, sessVars, broken, runVars, playVars, bootActive,
                 signalled>>

(* activate(), its refusals.                                               *)
ActivateRefused ==
  /\ Go("enter", "notify")
  /\ stopping \/ session # 0
  /\ UNCHANGED <<worldVars, diskVars, handler, cmd, sessVars, broken, runVars, playVars,
                 bootActive, signalled>>

BeginActivate ==
  /\ Go("enter", "open")
  /\ ~stopping /\ session = 0
  /\ seq < MaxSessions
  /\ state' = "activating"
  /\ seq' = seq + 1
  /\ UNCHANGED <<worldVars, diskVars, handler, cmd, session, recorders, broken, runVars,
                 playVars, bootActive, signalled>>

(* A session that cannot open is a refusal and leaves nothing behind.      *)
OpenFails ==
  /\ Go("open", "notify")
  /\ state' = "inactive"
  /\ UNCHANGED <<worldVars, diskVars, handler, cmd, session, seq, recorders, broken, runVars,
                 playVars, bootActive, signalled>>

OpenSession ==
  /\ Go("open", "publish")
  /\ recorders' = recorders \cup {seq}
  /\ cmd' = [cmd EXCEPT !.mine = seq]
  /\ UNCHANGED <<worldVars, diskVars, handler, state, session, seq, broken, runVars, playVars,
                 bootActive, signalled>>

(* self._session, and one bytecode later self._lifecycle.                  *)
PublishSession ==
  /\ Go("publish", "declare")
  /\ session' = cmd.mine
  /\ UNCHANGED <<worldVars, diskVars, handler, cmd, state, seq, recorders, broken, runVars,
                 playVars, bootActive, signalled>>

DeclareActive ==
  /\ Go("declare", "settle")
  /\ state' = "active"
  /\ cmd' = [cmd EXCEPT !.ok = TRUE]
  /\ UNCHANGED <<worldVars, diskVars, handler, session, seq, recorders, broken, runVars,
                 playVars, bootActive, signalled>>

(* A session that ended by itself is remembered whatever deactivate said.  *)
Uncommanded == cmd.from \in {"error", "finish"}

(* deactivate() finds no session: the handler closed it.                   *)
DeactivateRefused ==
  /\ Go("leave", IF Uncommanded THEN "settle" ELSE "notify")
  /\ session = 0
  /\ UNCHANGED <<worldVars, diskVars, handler, cmd, sessVars, broken, runVars, playVars,
                 bootActive, signalled>>

BeginDeactivate ==
  /\ Go("leave", "take")
  /\ session # 0
  /\ state' = "deactivating"
  /\ cmd' = [cmd EXCEPT !.mine = session]
  /\ UNCHANGED <<worldVars, diskVars, handler, session, seq, recorders, broken, runVars,
                 playVars, bootActive, signalled>>

UnpublishSession ==
  /\ Go("take", "close")
  /\ session' = 0
  /\ UNCHANGED <<worldVars, diskVars, handler, cmd, state, seq, recorders, broken, runVars,
                 playVars, bootActive, signalled>>

(* _close_session_sync: closing a closed session again does nothing.       *)
CloseSession ==
  /\ Go("close", "closed")
  /\ recorders' = recorders \ {cmd.mine}
  /\ UNCHANGED <<worldVars, diskVars, handler, cmd, state, session, seq, broken, runVars,
                 playVars, bootActive, signalled>>

DeclareInactive ==
  /\ Go("closed", "settle")
  /\ state' = "inactive"
  /\ cmd' = [cmd EXCEPT !.ok = TRUE]
  /\ UNCHANGED <<worldVars, diskVars, handler, session, seq, recorders, broken, runVars,
                 playVars, bootActive, signalled>>

(* Fault: an error ends the session and nobody remembers it.               *)
SettleCommandedOnly ==
  /\ Go("settle", "notify")
  /\ IF Uncommanded THEN UNCHANGED diskVars ELSE Remember(state)
  /\ UNCHANGED <<worldVars, handler, cmd, sessVars, broken, runVars, playVars, bootActive,
                 signalled>>

(* request() remembers the state it reads; the two hooks, INACTIVE.        *)
Settle ==
  /\ Go("settle", "notify")
  /\ Remember(IF Uncommanded THEN "inactive" ELSE state)
  /\ UNCHANGED <<worldVars, handler, cmd, sessVars, broken, runVars, playVars, bootActive,
                 signalled>>

(* run(): a refused boot activation aborts it.                             *)
BootAnswered ==
  /\ cmd.from = "boot"
  /\ \/ cmd.ok /\ Go("notify", "source") /\ UNCHANGED fatal
     \/ ~cmd.ok /\ Go("notify", "shutdown") /\ fatal' = TRUE
  /\ cmd' = NoCmd
  /\ UNCHANGED <<worldVars, diskVars, handler, sessVars, broken, stopping, quitting, stopDue,
                 playVars, bootActive, signalled>>

(* Fatal where no control plane could ever re-activate the recorder.       *)
SessionErrorFatal == bootActive /\ ~deploy.control

ErrorAnswered ==
  /\ cmd.from = "error"
  /\ Go("notify", "loop")
  /\ fatal' = (fatal \/ SessionErrorFatal)
  /\ quitting' = (quitting \/ SessionErrorFatal)
  /\ cmd' = NoCmd
  /\ UNCHANGED <<worldVars, diskVars, handler, sessVars, broken, stopping, stopDue, playVars,
                 bootActive, signalled>>

RequestAnswered ==
  /\ cmd.from \in {"request", "finish"}
  /\ Go("notify", "loop")
  /\ cmd' = NoCmd
  /\ UNCHANGED <<worldVars, diskVars, handler, sessVars, broken, runVars, playVars, bootActive,
                 signalled>>

(* _start_source() and the timers; then the loop.                          *)
StartSource ==
  /\ Go("source", "loop")
  /\ UNCHANGED <<worldVars, diskVars, handler, cmd, sessVars, broken, runVars, playVars,
                 bootActive, signalled>>

(* _on_session_error, one idle callback after the bus dispatch.            *)
SessionError ==
  /\ Go("loop", "leave")
  /\ session \in broken
  /\ ~stopping
  /\ cmd' = Command("deactivate", "error")
  /\ UNCHANGED <<worldVars, diskVars, handler, sessVars, broken, runVars, playVars,
                 bootActive, signalled>>

(* Fault: the session of a stopped process is forgotten, not closed.       *)
CloseForStopLeaking ==
  /\ session' = 0
  /\ state' = IF session # 0 THEN "inactive" ELSE state
  /\ UNCHANGED <<seq, recorders>>

(* The open session, if any, is taken and closed where a run ends.         *)
CloseForStop ==
  /\ recorders' = recorders \ {session}
  /\ session' = 0
  /\ state' = IF session # 0 THEN "inactive" ELSE state
  /\ UNCHANGED seq

(* Fault: no timer stands behind an EOS the pipeline is not ready for.     *)
RequestStopUnarmed ==
  \/ ~stopping /\ stopping' = TRUE /\ quitting' = (quitting \/ main = "loop") /\ CloseForStop
  \/ stopping /\ UNCHANGED <<stopping, quitting, sessVars>>

(* request_stop(): once; EOS or the 5 s timer will quit the loop.          *)
RequestStop ==
  \/ ~stopping /\ stopping' = TRUE /\ quitting' = TRUE /\ CloseForStop
  \/ stopping /\ UNCHANGED <<stopping, quitting, sessVars>>

(* _watchdog(): the end of a playback.                                     *)
PlaybackEndStops ==
  /\ At("loop")
  /\ ~stopping
  /\ ended = "error" \/ (ended = "ok" /\ ~deploy.hold)
  /\ fatal' = (fatal \/ ended = "error")
  /\ RequestStop
  /\ UNCHANGED <<worldVars, diskVars, main, handler, cmd, broken, stopDue, playVars,
                 bootActive, signalled>>

PlaybackEndHolds ==
  /\ ~stopping
  /\ ended = "ok" /\ deploy.hold /\ ~held
  /\ held' = TRUE
  /\ IF session # 0
       THEN Go("loop", "leave") /\ cmd' = Command("deactivate", "finish")
       ELSE At("loop") /\ UNCHANGED <<main, cmd>>
  /\ UNCHANGED <<worldVars, diskVars, handler, sessVars, broken, runVars, ended, bootActive,
                 signalled>>

PlaybackRuns ==
  /\ At("loop")
  /\ ~stopping
  /\ ended = "no" /\ held
  /\ held' = FALSE
  /\ UNCHANGED <<worldVars, diskVars, main, handler, cmd, sessVars, broken, runVars, ended,
                 bootActive, signalled>>

(* _request_stop_idle, for a source that came back different.              *)
RunStopDue ==
  /\ At("loop")
  /\ stopDue
  /\ stopDue' = FALSE
  /\ RequestStop
  /\ UNCHANGED <<worldVars, diskVars, main, handler, cmd, broken, fatal, playVars, bootActive,
                 signalled>>

(* _on_bus: an ERROR of the main pipeline.                                 *)
PipelineError ==
  /\ At("loop")
  /\ fatal' = TRUE
  /\ quitting' = TRUE
  /\ UNCHANGED <<worldVars, diskVars, main, handler, cmd, sessVars, broken, stopping, stopDue,
                 playVars, bootActive, signalled>>

QuitLoop ==
  /\ Go("loop", "shutdown")
  /\ quitting
  /\ UNCHANGED <<worldVars, diskVars, handler, cmd, sessVars, broken, runVars, playVars,
                 bootActive, signalled>>

(* shutdown(), and the exit code of main().                                *)
Shutdown ==
  /\ Go("shutdown", "down")
  /\ stopping' = TRUE
  /\ CloseForStop
  /\ exit' = IF fatal THEN "failed" ELSE "clean"
  /\ UNCHANGED <<deploy, boots, diskVars, handler, cmd, broken, fatal, quitting, stopDue,
                 playVars, bootActive, signalled>>

-----------------------------------------------------------------------------
(* What comes from outside the main thread.                                *)

Alive == main # "down"

(* The source delivers, or is being reconnected.                           *)
Capturing == cmd.from # "boot" /\ main \notin {"down", "start", "source"}

RecorderFails ==
  /\ Alive
  /\ \E s \in recorders \ broken : broken' = broken \cup {s}
  /\ UNCHANGED <<worldVars, diskVars, main, handler, cmd, sessVars, runVars, playVars,
                 bootActive, signalled>>

PlaybackEnds ==
  /\ Capturing /\ deploy.finite /\ ended = "no"
  /\ ended' \in {"ok", "error"}
  /\ UNCHANGED <<worldVars, diskVars, main, handler, cmd, sessVars, broken, runVars, held,
                 bootActive, signalled>>

PlaybackRestarted ==
  /\ main = "loop" /\ deploy.control /\ ended = "ok"
  /\ ended' = "no"
  /\ UNCHANGED <<worldVars, diskVars, main, handler, cmd, sessVars, broken, runVars, held,
                 bootActive, signalled>>

(* The reconnect thread: SourceConfigChanged, also while stopping.         *)
SourceChanged ==
  /\ Capturing /\ ~deploy.finite /\ ~stopDue
  /\ fatal' = TRUE
  /\ stopDue' = TRUE
  /\ UNCHANGED <<worldVars, diskVars, main, handler, cmd, sessVars, broken, stopping, quitting,
                 playVars, bootActive, signalled>>

(* main._stop: forget() first, then request_stop().                        *)
StopSignal ==
  /\ Alive /\ handler = "none" /\ signalled = "no"
  /\ Forget
  /\ handler' = "stop"
  /\ signalled' = IF main = "loop" THEN "idle" ELSE "busy"
  /\ UNCHANGED <<worldVars, main, cmd, sessVars, broken, runVars, playVars, bootActive>>

StopSignalReturns ==
  /\ handler = "stop"
  /\ handler' = "none"
  /\ RequestStop
  /\ UNCHANGED <<worldVars, diskVars, main, cmd, broken, fatal, stopDue, playVars, bootActive,
                 signalled>>

(* SIGKILL, a segmentation fault, a power cut.                             *)
Crash ==
  /\ Alive
  /\ exit' = "killed"
  /\ Fresh("down")
  /\ UNCHANGED <<deploy, boots, diskVars, bootActive, signalled>>

-----------------------------------------------------------------------------
(* A callback, once entered, runs to its end; so do run() and shutdown().  *)
Callback ==
  \/ EnterBootState \/ ActivateRefused \/ BeginActivate \/ OpenFails \/ OpenSession
  \/ PublishSession \/ DeclareActive \/ DeactivateRefused \/ BeginDeactivate
  \/ UnpublishSession \/ CloseSession \/ DeclareInactive \/ Settle
  \/ BootAnswered \/ ErrorAnswered \/ RequestAnswered \/ StartSource \/ Shutdown

LoopEvent ==
  \/ Request \/ SessionError \/ PlaybackEndStops \/ PlaybackEndHolds \/ PlaybackRuns
  \/ RunStopDue \/ PipelineError

Environment ==
  \/ RecorderFails \/ PlaybackEnds \/ PlaybackRestarted \/ SourceChanged \/ StopSignal \/ Crash

(* Nobody starts the service again.                                        *)
Finished == main = "down" /\ UNCHANGED vars

Next ==
  \/ StartProcess \/ Callback \/ LoopEvent \/ QuitLoop \/ StopSignalReturns
  \/ Environment \/ Finished

Spec == Init /\ [][Next]_vars

(* The main thread and a signal handler run on; a loop told to quit leaves *)
(* after the dispatch it is in, whatever else is pending.  Requests,       *)
(* failures, signals and restarts need never come.                         *)
Fairness == WF_vars(Callback) /\ WF_vars(StopSignalReturns) /\ SF_vars(QuitLoop)

FairSpec == Spec /\ Fairness

-----------------------------------------------------------------------------
(* What must hold.                                                         *)

(* docs/LIFECYCLE.md:268, lifecycle.py:203-210: whenever the loop is at    *)
(* rest, a crash now would bring the service back into the state it is in, *)
(* also after sessions ended by an error or by the end of a playback.      *)
CrashKeepsState ==
  At("loop") /\ ~stopping /\ deploy.resume /\ ~stale => BootState = state

(* pipeline.py:909-976: between transitions, whatever was refused, failed  *)
(* or interrupted on the way, the state tells whether a session is open.   *)
StateMatchesSession ==
  At("loop") /\ ~stopping => state = IF session = 0 THEN "inactive" ELSE "active"

(* pipeline.py:1077-1090, 1336-1346: no recorder (a budgeted encoder) is   *)
(* without an owner that will close it, and none is left at an exit, when  *)
(* a signal came in the middle of opening or closing a session included.   *)
NoOrphanRecorder ==
  At("loop") \/ main = "down" => recorders = IF session = 0 THEN {} ELSE {session}

(* lifecycle.py:256-266: a stop that finds the loop at rest forgets the    *)
(* state, and no request, error or end of playback dispatched while the    *)
(* process drains brings it back.                                          *)
IdleStopForgets ==
  main = "down" /\ signalled = "idle" /\ deploy.resume /\ ~stale => file = "none"

(* lifecycle.py:203-266: the file a process leaves behind is the one the   *)
(* next one should boot from, after a crash and after a stop at rest.  A   *)
(* stop that hits a transition is forgotten first and remembered again.    *)
FileTellsTheTruth == CrashKeepsState /\ IdleStopForgets

(* pipeline.py:909-1096: the state, the session and the encoders agree.    *)
SessionIsOwned == StateMatchesSession /\ NoOrphanRecorder

(* pipeline.py:1066-1096: a stop signal ends the process, wherever it hits *)
(* the main thread: booting, in a transition or before the loop runs.      *)
SignalEndsRun == signalled # "no" ~> main = "down"
=============================================================================
