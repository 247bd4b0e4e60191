------------------------------ MODULE Reconnect ------------------------------
(***************************************************************************)
(* The device of a live camera, and the three parties that open, stop and   *)
(* close it: the main thread (run, watchdog, shutdown), the stop request,   *)
(* which runs on the main thread as a signal handler or an idle callback,   *)
(* and the reconnect worker of pipeline.py.  A source is a GigE camera,     *)
(* whose device object is the control privilege, or a GStreamer reader      *)
(* (rtsp, usb, shm), which has nothing to surrender but has to be stopped.  *)
(***************************************************************************)
EXTENDS Naturals

CONSTANTS Kinds,        \* kinds of source looked at, out of AllKinds
          MaxDrops,     \* how often the camera goes away
          MaxFails,     \* how many attempts fail although the camera is there
          BackoffTop    \* camera.reconnect_backoff_max_s, in doublings

AllKinds == {"gige", "rtsp", "usb", "shm"}

ASSUME KindsAssumption == Kinds \subseteq AllKinds
ASSUME BoundsAssumption == MaxDrops \in Nat /\ MaxFails \in Nat /\ BackoffTop \in Nat

VARIABLES
  kind,          \* camera.type
  link,          \* is the camera (the stream, the node, the writer) there
  held,          \* gige: the Aravis camera object, hence the control privilege
  acquiring,     \* gige: acquisition started; reader: PLAYING
  started,       \* gstbase._started
  stopping,      \* pipeline._stopping and the stop event, set together
  fatal,         \* pipeline._fatal
  reconnecting,  \* pipeline._reconnecting
  main,          \* where the main thread is
  request,       \* where request_stop is, which suspends the main thread
  worker,        \* where the reconnect thread is
  backoff,       \* the worker's next wait, in doublings
  idleStop,      \* _request_stop_idle is posted
  reading,       \* the health thread is inside a device transaction (gige)
  mismatch,      \* shm: a frame did not match the pinned config
  lateStart,     \* history: a start() that began before the stop ended after it
  drops, fails   \* bounds

vars == <<kind, link, held, acquiring, started, stopping, fatal, reconnecting, main,
          request, worker, backoff, idleStop, reading, mismatch, lateStart, drops, fails>>

source    == <<held, acquiring, started, mismatch>>
pipeline  == <<stopping, fatal, reconnecting, idleStop, reading>>
bounds    == <<kind, drops, fails>>

Gige == kind = "gige"

MainSteps    == {"boot", "arm", "loop", "halt", "null", "join", "close", "done",
                 "crashed"}
RequestSteps == {"none", "halt", "drain"}
WorkerSteps  == {"none", "halt", "check", "reopen", "open", "ptp", "stream", "probe",
                 "rebuild", "recheck", "rearm", "retry", "giveStop", "giveClose", "end"}

FlagsTypeOK ==
  /\ link \in BOOLEAN /\ held \in BOOLEAN /\ acquiring \in BOOLEAN /\ started \in BOOLEAN
  /\ stopping \in BOOLEAN /\ fatal \in BOOLEAN /\ reconnecting \in BOOLEAN
  /\ idleStop \in BOOLEAN /\ reading \in BOOLEAN /\ mismatch \in BOOLEAN
  /\ lateStart \in BOOLEAN

PointsTypeOK ==
  /\ kind \in AllKinds
  /\ main \in MainSteps /\ request \in RequestSteps /\ worker \in WorkerSteps
  /\ backoff \in 0..BackoffTop /\ drops \in 0..MaxDrops /\ fails \in 0..MaxFails

TypeOK == FlagsTypeOK /\ PointsTypeOK

Init ==
  /\ kind \in Kinds
  /\ link = TRUE /\ held = (kind = "gige")
  /\ acquiring = FALSE /\ started = FALSE
  /\ stopping = FALSE /\ fatal = FALSE /\ reconnecting = FALSE /\ idleStop = FALSE
  /\ reading = FALSE /\ mismatch = FALSE
  /\ main = "boot" /\ request = "none" /\ worker = "none"
  /\ backoff = 0 /\ lateStart = FALSE /\ drops = 0 /\ fails = 0

-----------------------------------------------------------------------------
(* The source.  Every call on a GigE camera holds its io_lock; a reopen holds *)
(* it from the release of the old device to the new stream.                   *)

ReopenHolds == Gige /\ worker \in {"open", "ptp", "stream"}
IoFree == ~ReopenHolds /\ ~reading

\* Delivers frames.
Flowing == link /\ acquiring /\ ~mismatch

\* GigeSource.stop silences the stream and stops acquisition but keeps the
\* device; GstPipelineSource.stop sets the reader to NULL.
StopSource ==
  /\ acquiring' = FALSE /\ started' = FALSE
  /\ UNCHANGED <<held, mismatch>>

\* start() of a source that is there: a GigE camera needs its device and a link
\* to write to, a reader only goes to PLAYING.
CanStart == Gige => held /\ link
StartSource ==
  /\ CanStart
  /\ acquiring' = TRUE /\ started' = TRUE
  /\ lateStart' = (lateStart \/ stopping)
  /\ UNCHANGED <<held, mismatch>>

\* GigECamera._release drops stream and device; a reader has nothing to close.
CloseSource ==
  /\ held' = FALSE
  /\ acquiring' = (acquiring /\ ~Gige)
  /\ UNCHANGED <<started, mismatch>>

\* No frame for longer than the timeout, the control channel lost, the reader's
\* bus said so.  A reader that is stopped is never disconnected.
Disconnected == mismatch \/ (~Flowing /\ (Gige \/ started))

-----------------------------------------------------------------------------
(* request_stop: flags first, then the source, then the drain.               *)

Flags ==
  /\ ~stopping
  /\ stopping' = TRUE
  /\ request' = "halt"

\* The signal handler: between any two steps of the main thread.
Signal ==
  /\ main \notin {"done", "crashed"} /\ request = "none"
  /\ Flags
  /\ UNCHANGED <<link, source, fatal, reconnecting, idleStop, reading, main, worker, backoff,
                 lateStart, bounds>>

\* The idle callback a changed source posts.
IdleRequest ==
  /\ main = "loop" /\ request = "none" /\ idleStop
  /\ idleStop' = FALSE
  /\ IF stopping THEN UNCHANGED <<stopping, request>> ELSE Flags
  /\ UNCHANGED <<link, source, fatal, reconnecting, reading, main, worker, backoff, lateStart,
                 bounds>>

RequestHalt ==
  /\ request = "halt" /\ IoFree
  /\ StopSource
  /\ request' = "drain"
  /\ UNCHANGED <<link, pipeline, main, worker, backoff, lateStart, bounds>>

RequestDrain ==
  /\ request = "drain"
  /\ request' = "none"
  /\ UNCHANGED <<link, source, pipeline, main, worker, backoff, lateStart, bounds>>

-----------------------------------------------------------------------------
(* The main thread.                                                          *)

MainFree == request = "none"

\* on_playing: a boot session that cannot open aborts the run.
Boot ==
  /\ main = "boot" /\ MainFree
  /\ \/ main' = "arm" /\ UNCHANGED <<stopping, fatal>>
     \/ /\ main' = IF stopping THEN "null" ELSE "halt"
        /\ fatal' = TRUE /\ stopping' = TRUE
  /\ UNCHANGED <<link, source, reconnecting, idleStop, reading, request, worker, backoff,
                 lateStart, bounds>>

Arm ==
  /\ main = "arm" /\ MainFree /\ IoFree
  /\ StartSource
  /\ main' = "loop"
  /\ UNCHANGED <<link, pipeline, request, worker, backoff, bounds>>

\* A first start() that raises leaves run() before its try: no shutdown.
ArmRaises ==
  /\ main = "arm" /\ MainFree /\ ~CanStart
  /\ main' = "crashed"
  /\ UNCHANGED <<link, source, pipeline, request, worker, backoff, lateStart, bounds>>

Watchdog ==
  /\ main = "loop" /\ MainFree
  /\ ~stopping /\ ~reconnecting /\ Disconnected
  /\ reconnecting' = TRUE
  /\ worker' = "halt"
  /\ UNCHANGED <<link, source, stopping, fatal, idleStop, reading, main, request, backoff,
                 lateStart, bounds>>

\* The loop quits: end of stream or the five seconds are over, or a pipeline
\* error.  shutdown then stops the source only if no stop request did.
QuitLoop ==
  /\ main = "loop" /\ MainFree
  /\ \/ stopping /\ UNCHANGED fatal
     \/ fatal' = TRUE
  /\ main' = IF stopping THEN "null" ELSE "halt"
  /\ stopping' = TRUE
  /\ UNCHANGED <<link, source, reconnecting, idleStop, reading, request, worker, backoff,
                 lateStart, bounds>>

ShutdownHalt ==
  /\ main = "halt" /\ MainFree /\ IoFree
  /\ StopSource
  /\ main' = "null"
  /\ UNCHANGED <<link, pipeline, request, worker, backoff, lateStart, bounds>>

ShutdownNull ==
  /\ main = "null" /\ MainFree
  /\ main' = "join"
  /\ UNCHANGED <<link, source, pipeline, request, worker, backoff, lateStart, bounds>>

\* What the join has to wait for and cannot hurry: device and network I/O.  The
\* PTP wait is longer still, but polls the stop event.
SlowSteps == {"halt", "open", "stream", "probe", "rebuild", "rearm", "giveStop", "giveClose"}

\* Fault: the device is closed without waiting for the worker.
JoinSkipped ==
  /\ main = "join" /\ MainFree
  /\ main' = "close"
  /\ UNCHANGED <<link, source, pipeline, request, worker, backoff, lateStart, bounds>>

\* _join_reconnect: the worker ended, or five seconds are over.
Join ==
  /\ main = "join" /\ MainFree
  /\ worker \in {"none"} \cup SlowSteps
  /\ main' = "close"
  /\ UNCHANGED <<link, source, pipeline, request, worker, backoff, lateStart, bounds>>

Close ==
  /\ main = "close" /\ MainFree /\ IoFree
  /\ CloseSource
  /\ main' = "done"
  /\ UNCHANGED <<link, pipeline, request, worker, backoff, lateStart, bounds>>

-----------------------------------------------------------------------------
(* The reconnect worker.                                                     *)

\* A step of the worker that touches neither the source nor the pipeline.
Goto(from, to) ==
  /\ worker = from
  /\ worker' = to
  /\ UNCHANGED <<link, source, pipeline, main, request, lateStart>>

\* A failed attempt: to the backoff, having left the source as it is now.
Raise ==
  /\ worker' = "retry"
  /\ UNCHANGED <<link, pipeline, main, request, backoff, lateStart>>

\* An attempt that fails although the camera is there.
Mishap == fails < MaxFails /\ fails' = fails + 1 /\ UNCHANGED <<kind, drops>>

WorkerHalt ==
  /\ worker = "halt" /\ IoFree
  /\ StopSource
  /\ worker' = "check"
  /\ backoff' = 0
  /\ UNCHANGED <<link, pipeline, main, request, lateStart, bounds>>

WorkerCheck ==
  /\ Goto("check", IF stopping THEN "end" ELSE "reopen")
  /\ UNCHANGED <<backoff, bounds>>

\* reopen() of a GigE camera: take io_lock and let the old device go.
ReleaseOld ==
  /\ worker = "reopen" /\ Gige /\ IoFree
  /\ CloseSource
  /\ worker' = "open"
  /\ UNCHANGED <<link, pipeline, main, request, backoff, lateStart, bounds>>

\* A usb node or a writer's socket that is absent is not waited for.
ReopenReader ==
  /\ ~Gige /\ ~mismatch
  /\ \/ kind = "rtsp" /\ Goto("reopen", "probe") /\ UNCHANGED <<backoff, bounds>>
     \/ kind # "rtsp" /\ link /\ Goto("reopen", "rebuild") /\ UNCHANGED <<backoff, bounds>>
     \/ kind # "rtsp" /\ ~link /\ worker = "reopen" /\ Raise /\ UNCHANGED <<source, bounds>>

\* Fault: the run is declared over, but nobody is told.
ConfigChangedUntold ==
  /\ \/ kind = "rtsp" /\ worker = "probe" /\ link /\ Mishap
     \/ mismatch /\ worker = "reopen" /\ UNCHANGED bounds
  /\ fatal' = TRUE /\ UNCHANGED idleStop
  /\ worker' = "end"
  /\ UNCHANGED <<link, source, stopping, reconnecting, reading, main, request, backoff, lateStart>>

\* The stream or the writer came back with another format than the pipelines
\* were built for: rtsp finds it by probing, shm by a frame it had to refuse.
ConfigChanged ==
  /\ \/ kind = "rtsp" /\ worker = "probe" /\ link /\ Mishap
     \/ mismatch /\ worker = "reopen" /\ UNCHANGED bounds
  /\ fatal' = TRUE /\ idleStop' = TRUE
  /\ worker' = "end"
  /\ UNCHANGED <<link, source, stopping, reconnecting, reading, main, request, backoff, lateStart>>

\* A probe that finds nothing keeps the parameters.
Probe == Goto("probe", "rebuild") /\ UNCHANGED <<backoff, bounds>>

Rebuild ==
  /\ worker = "rebuild"
  /\ StopSource
  /\ worker' = "recheck"
  /\ UNCHANGED <<link, pipeline, main, request, backoff, lateStart, bounds>>

OpenDevice ==
  /\ worker = "open" /\ link
  /\ held' = TRUE
  /\ worker' = "ptp"
  /\ UNCHANGED <<link, acquiring, started, mismatch, pipeline, main, request, backoff, lateStart, bounds>>

OpenFails ==
  /\ worker = "open"
  /\ \/ ~link /\ UNCHANGED bounds
     \/ Mishap
  /\ Raise
  /\ UNCHANGED source

AwaitPtp == Goto("ptp", "stream") /\ UNCHANGED <<backoff, bounds>>

CreateStream == Goto("stream", "recheck") /\ UNCHANGED <<backoff, bounds>>

StreamFails ==
  /\ worker = "stream" /\ Mishap
  /\ Raise
  /\ UNCHANGED source

\* A stop that came during the reopen: hand the device straight back.
Recheck ==
  /\ Goto("recheck", IF stopping THEN "giveStop" ELSE "rearm")
  /\ UNCHANGED <<backoff, bounds>>

Rearm ==
  /\ worker = "rearm" /\ IoFree
  /\ StartSource
  /\ worker' = "end"
  /\ UNCHANGED <<link, pipeline, main, request, backoff, bounds>>

\* Fault: start() stands outside the try, a failure ends the thread.
RearmEscapes ==
  /\ worker = "rearm" /\ ~CanStart
  /\ worker' = "none"
  /\ UNCHANGED <<link, source, pipeline, main, request, backoff, lateStart, bounds>>

RearmFails ==
  /\ worker = "rearm" /\ ~CanStart
  /\ Raise
  /\ UNCHANGED <<source, bounds>>

GiveStop ==
  /\ worker = "giveStop" /\ IoFree
  /\ StopSource
  /\ worker' = "giveClose"
  /\ UNCHANGED <<link, pipeline, main, request, backoff, lateStart, bounds>>

GiveClose ==
  /\ worker = "giveClose" /\ IoFree
  /\ CloseSource
  /\ worker' = "end"
  /\ UNCHANGED <<link, pipeline, main, request, backoff, lateStart, bounds>>

\* The backoff doubles up to its limit; the stop event cuts it short.
Retry ==
  /\ Goto("retry", IF stopping THEN "end" ELSE "check")
  /\ backoff' = IF backoff < BackoffTop THEN backoff + 1 ELSE backoff
  /\ UNCHANGED bounds

End ==
  /\ worker = "end"
  /\ worker' = "none"
  /\ reconnecting' = FALSE
  /\ UNCHANGED <<link, source, stopping, fatal, idleStop, reading, main, request, backoff,
                 lateStart, bounds>>

-----------------------------------------------------------------------------
(* The camera goes away and comes back.                                      *)

Drop ==
  /\ link /\ drops < MaxDrops
  /\ link' = FALSE /\ drops' = drops + 1
  /\ UNCHANGED <<source, pipeline, main, request, worker, backoff, lateStart, kind, fails>>

Return ==
  /\ ~link
  /\ link' = TRUE
  /\ UNCHANGED <<source, pipeline, main, request, worker, backoff, lateStart, bounds>>

\* A shared-memory frame of another size or format than the config pins.
RefuseFrame ==
  /\ kind = "shm" /\ Flowing /\ Mishap
  /\ mismatch' = TRUE
  /\ UNCHANGED <<link, held, acquiring, started, pipeline, main, request, worker, backoff,
                 lateStart>>

\* A read of the health thread: only of a device that nobody is reconnecting,
\* and only if io_lock is free at once.
ReadDevice ==
  /\ Gige /\ held /\ link
  /\ ~stopping /\ ~reconnecting /\ IoFree /\ main = "loop"
  /\ reading' = TRUE
  /\ UNCHANGED <<link, source, stopping, fatal, reconnecting, idleStop, main, request,
                 worker, backoff, lateStart, bounds>>

ReadDone ==
  /\ reading
  /\ reading' = FALSE
  /\ UNCHANGED <<link, source, stopping, fatal, reconnecting, idleStop, main, request,
                 worker, backoff, lateStart, bounds>>

\* The process has ended; a daemon thread ends with it.
Ended ==
  /\ main \in {"done", "crashed"} /\ worker = "none"
  /\ UNCHANGED vars

Main == Boot \/ Arm \/ ArmRaises \/ ShutdownHalt \/ ShutdownNull \/ Join \/ Close

Request == RequestHalt \/ RequestDrain \/ IdleRequest

Worker ==
  \/ WorkerHalt \/ WorkerCheck \/ ReleaseOld \/ ReopenReader \/ ConfigChanged \/ Probe
  \/ Rebuild \/ OpenDevice \/ OpenFails \/ AwaitPtp \/ CreateStream \/ StreamFails
  \/ Recheck \/ Rearm \/ RearmFails \/ GiveStop \/ GiveClose \/ Retry \/ End

Next == Main \/ Request \/ Worker \/ Signal \/ Watchdog \/ QuitLoop \/ ReadDevice \/ ReadDone
        \/ RefuseFrame \/ Drop \/ Return \/ Ended

Fairness ==
  /\ WF_vars(Main) /\ WF_vars(Request) /\ WF_vars(Worker) /\ WF_vars(Watchdog)
  /\ WF_vars(ReadDone)
  /\ WF_vars(stopping /\ QuitLoop)

Spec == Init /\ [][Next]_vars /\ Fairness

-----------------------------------------------------------------------------
(* Properties.                                                               *)

\* After shutdown no GigE camera is held: whatever the worker was doing when the
\* stop came, the control privilege has been surrendered, and stays so
\* (pipeline.shutdown, _join_reconnect, the recheck after reopen).  Nor does the
\* health thread keep a reference to it.
ReleasedAtExit == main = "done" => ~held /\ ~reading

\* After shutdown nothing captures, unless a start() was already on its way when
\* the stop came: past the recheck of the worker, or at boot.
QuietAtExit == main = "done" /\ acquiring => lateStart

\* pipeline.shutdown, _join_reconnect: what the run leaves behind is at rest, and free
\* for the next process to open.
QuietRelease == ReleasedAtExit /\ QuietAtExit

\* At most one worker, and it owns the flag: nobody else opens the device while
\* it does, and the flag is never left behind (pipeline._reconnect).
FlagIsWorkers == reconnecting <=> worker # "none"

\* While the camera stays, a lost source is recovered, however often attempts
\* failed before, until the run ends (pipeline._watchdog, _reconnect_loop).
Recovers ==
  <>[]link => []<>(Flowing \/ stopping \/ mismatch \/ main \in {"boot", "crashed"})

\* A stop, or a change of format that no reopen can mend, ends the run: no wait for the
\* device, the lock or the worker is without end.
StopCompletes == (stopping \/ idleStop \/ mismatch) ~> main \in {"done", "crashed"}
=============================================================================
