----------------------------- MODULE HealthMonitor -----------------------------
(***************************************************************************)
(* The health monitor: its thread polls the pipeline's counters and one      *)
(* device provider, publishes a snapshot, writes the file and tells the      *)
(* observers; the main thread starts it, reads it, opens recording windows   *)
(* and stops it; a signal handler only tells it to stop.                     *)
(***************************************************************************)
EXTENDS HealthRows, BosonPort, GenicamPoll

CONSTANTS DeviceKinds,  \* device providers looked at, out of AllKinds
          Readings      \* what the limits make of a Boson's values

AllKinds == {"boson", "genicam", "plain"}

ASSUME KindsAssumption == DeviceKinds \subseteq AllKinds /\ Readings \subseteq Faults

VARIABLES
  deviceKind,    \* which device provider there is
  mainAt,        \* where the main thread is
  worker,        \* where the health thread is
  stopSet,       \* the monitor's stop event
  interrupted,   \* history: "no", or where the main thread was when the signal came
  cleaned,       \* _cleaned
  snapshotFile,  \* the snapshot file is there
  frameAge,      \* PipelineProvider: ticks since the frame counter moved
  lossAge,       \* ... since a loss was noticed
  polled,        \* ... it has been polled before
  last,          \* _last_reports of the device provider, or NoReports
  silent,        \* ticks since it last succeeded, or since the start
  draft,         \* the rows of the poll in progress
  latest,        \* the published rows and what was known then, or NoSnapshot
  elapsed,       \* ticks since the publication
  born           \* history: ticks since the observation behind each row

monitor == <<mainAt, worker, stopSet, interrupted, cleaned, snapshotFile>>
stream  == <<frameAge, lossAge, polled>>
data    == <<last, silent, draft, latest, elapsed, born>>
healthVars == <<deviceKind, monitor, stream, data, boson, genicam>>

Components == {"stream", "camera"}
Reported == IF deviceKind = "plain" THEN {"stream"} ELSE Components
NoReports  == [camera |-> [level |-> OK, lim |-> OK], some |-> FALSE]
NoRow      == [level |-> OK, lim |-> OK, last |-> OK, age |-> 0]
NoDraft    == [stream |-> NoRow, camera |-> NoRow, stats |-> NoRow, withStats |-> FALSE, truth |-> OK]
NoSnapshot == [some |-> FALSE, stream |-> [level |-> OK, last |-> OK, age |-> 0],
               camera |-> [level |-> OK, last |-> OK, age |-> 0],
               truth |-> [stream |-> OK, camera |-> OK]]

HealthInit ==
  /\ deviceKind \in DeviceKinds
  /\ mainAt = "boot" /\ worker = "none" /\ stopSet = FALSE /\ interrupted = "no"
  /\ cleaned = FALSE /\ snapshotFile = FALSE
  /\ frameAge = 0 /\ lossAge = HoldFor + 1 /\ polled = FALSE
  /\ last = NoReports /\ silent = 0 /\ draft = NoDraft
  /\ latest = NoSnapshot /\ elapsed = 0 /\ born = [c \in Components |-> 0]
  /\ BosonInit /\ GenicamInit

HealthTypeOK ==
  /\ deviceKind \in AllKinds
  /\ mainAt \in {"boot", "clearing", "starting", "run", "stopping", "join", "clean", "remove",
                 "gone", "done"}
  /\ worker \in {"none", "wait", "pipeline", "device", "reading", "publish", "write", "writing",
                 "replaced", "observe", "cleanup", "dead"}
  /\ {stopSet, cleaned, snapshotFile, polled} \subseteq BOOLEAN
  /\ interrupted \in {"no", "boot", "run"}
  /\ frameAge \in 0..(StallAfter + 1) /\ lossAge \in 0..(HoldFor + 1)
  /\ last \in [camera : Observations, some : BOOLEAN]
  /\ silent \in 0..StaleAfter /\ elapsed \in 0..StaleAfter
  /\ draft \in [stream : PollRows, camera : PollRows, stats : PollRows, withStats : BOOLEAN,
                truth : Faults]
  /\ latest \in [some : BOOLEAN, stream : Rows, camera : Rows,
                 truth : [Components -> Faults]]
  /\ born \in [Components -> 0..StaleAfter]
  /\ BosonTypeOK /\ GenicamTypeOK

-----------------------------------------------------------------------------
(* One poll, on the health thread.                                           *)

Goto(from, to) == worker = from /\ worker' = to /\ mainAt # "done"

Keep == UNCHANGED <<deviceKind, mainAt, stopSet, interrupted, cleaned, snapshotFile>>

\* Not begun, not finished: the loop looks at the stop event next.
GiveUpPoll ==
  /\ worker \in {"pipeline", "device"} /\ stopSet
  /\ worker' = "wait" /\ mainAt # "done"
  /\ Keep /\ UNCHANGED <<stream, data, boson, genicam>>

Wake ==
  /\ Goto("wait", IF stopSet THEN "cleanup" ELSE "pipeline")
  /\ Keep /\ UNCHANGED <<stream, data, boson, genicam>>

\* Bound: next to a device provider the counters only say that frames come.
Counters(moved, lost, idle) == deviceKind = "plain" \/ (moved /\ ~lost /\ ~idle)

\* The stream from the counters: whether the frame counter moved and a loss counter
\* changed since the last poll, of which the first poll knows nothing.
PollPipeline ==
  /\ ~stopSet
  /\ Goto("pipeline", IF deviceKind = "plain" THEN "publish" ELSE "device")
  /\ \E moved, lost, idle \in BOOLEAN :
       /\ Counters(moved, lost, idle)
       /\ frameAge' = IF moved \/ ~polled THEN 0 ELSE frameAge
       /\ lossAge' = IF lost /\ polled THEN 0 ELSE lossAge
       /\ LET level == StreamLevel(idle, link = "away", frameAge', lossAge')
              row == Current([level |-> level, lim |-> OK])
          IN draft' = [NoDraft EXCEPT !.stream = row, !.truth = level]
  /\ polled' = TRUE
  /\ Keep /\ UNCHANGED <<last, silent, latest, elapsed, born, boson, genicam>>

\* The device provider has reported; a GenICam camera reports on the stream, too.
Success(camera) ==
  /\ worker' = "publish"
  /\ silent' = 0
  /\ last' = [camera |-> camera, some |-> TRUE]
  /\ draft' = [draft EXCEPT !.camera = Current(camera), !.withStats = deviceKind = "genicam"]
  /\ UNCHANGED <<latest, elapsed, born>>

\* It raised: its last reports are held.
Failure(away) ==
  /\ worker' = "publish"
  /\ draft' = [draft EXCEPT !.camera = IF last.some THEN Held(last.camera, away, silent)
                                       ELSE Unseen(silent),
                            !.stats = Held([level |-> OK, lim |-> OK], away, silent),
                            !.withStats = last.some /\ deviceKind = "genicam"]
  /\ UNCHANGED <<last, silent, latest, elapsed, born>>

\* Boson: the port is opened, or not there.
StartBoson ==
  /\ deviceKind = "boson" /\ ~stopSet
  /\ \/ Goto("device", "reading") /\ (OpenPort \/ ReusePort) /\ UNCHANGED data
     \/ Goto("device", "publish") /\ port = "closed" /\ Failure(FALSE) /\ UNCHANGED boson
  /\ Keep /\ UNCHANGED <<stream, genicam>>

BosonStep ==
  /\ deviceKind = "boson" /\ worker = "reading" /\ mainAt # "done"
  /\ \/ Ask /\ ~(stopSet /\ step > 2)
     \/ SkipReads /\ stopSet
     \/ Answered
     \/ LateAnswer
     \/ \E comesLate \in BOOLEAN : NoAnswer(comesLate)
  /\ Keep /\ UNCHANGED <<worker, stream, data, genicam>>

BosonGone ==
  /\ deviceKind = "boson" /\ worker = "reading" /\ mainAt # "done"
  /\ PortGone /\ Failure(FALSE)
  /\ Keep /\ UNCHANGED <<stream, genicam>>

BosonEnds ==
  /\ deviceKind = "boson" /\ worker = "reading" /\ step = 0 /\ mainAt # "done"
  /\ \/ AllFailed /\ ClosePort /\ Failure(FALSE)
     \/ /\ ~AllFailed /\ UNCHANGED boson
        /\ \E lim \in (IF temp THEN Readings ELSE {OK}) :
             Success([level |-> IF temp THEN OK ELSE WARN, lim |-> lim])
  /\ Keep /\ UNCHANGED <<stream, genicam>>

StartGenicam ==
  /\ deviceKind = "genicam" /\ ~stopSet
  /\ Goto("device", "reading") /\ StartPoll
  /\ Keep /\ UNCHANGED <<stream, data, boson>>

GenicamStep ==
  /\ deviceKind = "genicam" /\ worker = "reading" /\ mainAt # "done" /\ ~stopSet
  /\ Look \/ ReadMeasurement \/ ReadState \/ ReadFails
  /\ Keep /\ UNCHANGED <<worker, stream, data, boson>>

\* The poll raises: the camera is away, another one, busy, gives no value at all, or
\* the monitor stops.
GenicamRaises ==
  /\ deviceKind = "genicam" /\ worker = "reading" /\ at # "none" /\ mainAt # "done"
  /\ LeavePoll
  /\ \/ Failure(TRUE) /\ Unavailable
     \/ Failure(FALSE)
  /\ Keep /\ UNCHANGED <<stream, boson>>

GenicamEnds ==
  /\ deviceKind = "genicam" /\ worker = "reading" /\ at = "none" /\ mainAt # "done"
  /\ Success(CameraReport) /\ LeavePoll
  /\ Keep /\ UNCHANGED <<stream, boson>>

-----------------------------------------------------------------------------
(* The snapshot.                                                             *)

\* The truth about the camera: what it reported last.
CameraTruth == IF last.some THEN Severity(last.camera) ELSE OK

Snapshot ==
  LET owner == Expire(draft.stream)
      streamRows == {owner} \cup (IF draft.withStats THEN {Expire(draft.stats)} ELSE {})
      camera == Expire(draft.camera)
  IN [some |-> TRUE, stream |-> Merge(owner, streamRows),
      camera |-> Merge(camera, {camera}),
      truth |-> [stream |-> draft.truth, camera |-> CameraTruth]]

\* Fault: a poll that ends after the stop is published.
PublishAnyhow ==
  /\ Goto("publish", "write")
  /\ latest' = Snapshot /\ elapsed' = 0
  /\ born' = [c \in Components |-> IF c = "stream" THEN draft.stream.age ELSE silent]
  /\ draft' = NoDraft
  /\ Keep /\ UNCHANGED <<last, silent, stream, boson, genicam>>

\* Under the lock: what ends after the stop is not published.
Publish ==
  /\ Goto("publish", IF stopSet THEN "wait" ELSE "write")
  /\ IF stopSet THEN UNCHANGED <<latest, elapsed, born>>
     ELSE /\ latest' = Snapshot /\ elapsed' = 0
          /\ born' = [c \in Components |-> IF c = "stream" THEN draft.stream.age ELSE silent]
  /\ draft' = NoDraft
  /\ Keep /\ UNCHANGED <<last, silent, stream, boson, genicam>>

\* The file: not written after the stop; the disk may refuse it.
CheckWrite ==
  /\ worker = "write" /\ mainAt # "done"
  /\ \/ worker' = "writing" /\ ~stopSet
     \/ worker' = "observe"
  /\ Keep /\ UNCHANGED <<stream, data, boson, genicam>>

ReplaceFile ==
  /\ Goto("writing", "replaced")
  /\ snapshotFile' = TRUE
  /\ UNCHANGED <<deviceKind, mainAt, stopSet, interrupted, cleaned, stream, data, boson, genicam>>

\* A stop that came while it was written.
CheckReplaced ==
  /\ Goto("replaced", "observe")
  /\ snapshotFile' = (snapshotFile /\ ~stopSet)
  /\ UNCHANGED <<deviceKind, mainAt, stopSet, interrupted, cleaned, stream, data, boson, genicam>>

Observe ==
  /\ Goto("observe", "wait")
  /\ Keep /\ UNCHANGED <<stream, data, boson, genicam>>

\* _cleanup, once, by the thread or by the stop that joined it.
CleanUp ==
  /\ cleaned' = TRUE
  /\ IF cleaned THEN UNCHANGED <<snapshotFile, boson>>
     ELSE snapshotFile' = FALSE /\ IF port = "open" THEN ClosePort ELSE UNCHANGED boson

WorkerCleans ==
  /\ Goto("cleanup", "dead")
  /\ CleanUp
  /\ UNCHANGED <<deviceKind, mainAt, stopSet, interrupted, stream, data, genicam>>

-----------------------------------------------------------------------------
(* The main thread and the signal.                                           *)

MainGoto(from, to) == mainAt = from /\ mainAt' = to

KeepMain == UNCHANGED <<deviceKind, worker, interrupted, stream, data, genicam>>

\* start(): no worker is alive; the stop event is cleared before it is started.
Start ==
  /\ MainGoto("boot", "clearing")
  /\ cleaned' = FALSE
  /\ KeepMain /\ UNCHANGED <<stopSet, snapshotFile, boson>>

ClearStop ==
  /\ MainGoto("clearing", "starting")
  /\ stopSet' = FALSE
  /\ KeepMain /\ UNCHANGED <<cleaned, snapshotFile, boson>>

StartThread ==
  /\ MainGoto("starting", "run")
  /\ worker' = "wait"
  /\ UNCHANGED <<deviceKind, interrupted, stopSet, cleaned, snapshotFile, stream, data, boson,
                  genicam>>

\* The loop ends, or the boot session could not open: shutdown.
StopMonitor ==
  /\ mainAt \in {"boot", "run"} /\ mainAt' = "join"
  /\ stopSet' = TRUE
  /\ KeepMain /\ UNCHANGED <<cleaned, snapshotFile, boson>>

\* The join's two seconds may end in a device read, a file write or an observer.
Join ==
  /\ mainAt = "join"
  /\ \/ worker \in {"none", "dead"} /\ mainAt' = "clean"
     \/ worker \in {"reading", "writing", "observe"} /\ mainAt' = "remove"
  /\ KeepMain /\ UNCHANGED <<stopSet, cleaned, snapshotFile, boson>>

MainCleans ==
  /\ MainGoto("clean", "remove")
  /\ CleanUp
  /\ KeepMain /\ UNCHANGED stopSet

RemoveFile ==
  /\ MainGoto("remove", "gone")
  /\ snapshotFile' = FALSE
  /\ KeepMain /\ UNCHANGED <<stopSet, cleaned, boson>>

\* The process ends; a worker that is still there ends where it is.
Exit ==
  /\ MainGoto("gone", "done")
  /\ KeepMain /\ UNCHANGED <<stopSet, cleaned, snapshotFile, boson>>

\* stop(wait=False) from the signal handler.
Signal ==
  /\ mainAt # "done" /\ interrupted = "no"
  /\ interrupted' = IF mainAt \in {"boot", "clearing"} THEN "boot" ELSE "run"
  /\ stopSet' = TRUE
  /\ UNCHANGED <<deviceKind, mainAt, worker, cleaned, snapshotFile, stream, data, boson, genicam>>

Camera ==
  /\ deviceKind = "genicam" /\ mainAt # "done"
  /\ LoseCamera \/ StartReconnect \/ Reconnected
  /\ UNCHANGED <<deviceKind, monitor, stream, data, boson>>

Tick ==
  /\ mainAt # "done"
  /\ silent' = Older(silent) /\ elapsed' = Older(elapsed)
  /\ frameAge' = IF deviceKind = "plain" /\ frameAge <= StallAfter THEN frameAge + 1
                 ELSE frameAge
  /\ lossAge' = IF lossAge <= HoldFor THEN lossAge + 1 ELSE lossAge
  /\ draft' = IF worker \notin {"device", "reading", "publish"} THEN draft
              ELSE [draft EXCEPT !.stream.age = Older(@), !.camera.age = Older(@),
                                 !.stats.age = Older(@)]
  /\ born' = [c \in Components |-> Older(born[c])]
  /\ UNCHANGED <<deviceKind, monitor, polled, last, latest, boson, genicam>>

Ended == mainAt = "done" /\ UNCHANGED healthVars

Worker ==
  \/ Wake \/ GiveUpPoll \/ PollPipeline
  \/ StartBoson \/ BosonStep \/ BosonGone \/ BosonEnds
  \/ StartGenicam \/ GenicamStep \/ GenicamRaises \/ GenicamEnds
  \/ Publish \/ CheckWrite \/ ReplaceFile \/ CheckReplaced \/ Observe \/ WorkerCleans

Main == Start \/ ClearStop \/ StartThread \/ Join \/ MainCleans \/ RemoveFile \/ Exit

HealthNext == Worker \/ Main \/ StopMonitor \/ Signal \/ Camera \/ Tick \/ Ended

HealthSpec == HealthInit /\ [][HealthNext]_healthVars /\ WF_healthVars(Worker) /\ WF_healthVars(Main)

-----------------------------------------------------------------------------
(* Properties.                                                               *)

\* What a query, or a recording window that opens, is given now (latest).
Reply(c) == Aged(latest[c], elapsed)

\* A reader sees of every component at least the severity its providers last
\* reported, however stale the row is, whoever else contributes to it, and however
\* late it is read (_held reports, merge, _aged_latest).
FaultsStayVisible ==
  latest.some => \A c \in Reported : Shown(Reply(c)) >= latest.truth[c]

\* No reader is given as current what was observed StaleAfter ago or earlier: not
\* by a slow poll, a failing provider or a late query.
NothingOldIsCurrent ==
  latest.some => \A c \in Reported : Reply(c).level # STALE => born[c] < StaleAfter

\* A clean end leaves nothing behind: no port that the thread does not own any more,
\* and no file, unless the process ended between replacing it and looking again.
CleanEnd ==
  /\ worker = "dead" => port = "closed"
  /\ worker = "reading" => ~cleaned
  /\ mainAt = "done" /\ snapshotFile => worker = "replaced"

\* A report is made of one poll of one device: no answer to another command of the
\* port, no value of the camera before a reconnect (unless CPython gave the new
\* device the id() of the old one).
ReportsArePure ==
  /\ ~confused
  /\ deviceKind = "genicam" /\ worker = "reading" /\ at = "none" => OneDevice \/ recycled

\* After a stop of the running service nothing is published any more, whatever the
\* thread was doing (poll_once, _write_file).
NothingAfterStop == [][interrupted = "run" => latest' = latest]_healthVars

\* health.py:125-493: what a reader is shown is as bad and as old as it is.
ReadersSeeTheTruth == HealthTypeOK /\ FaultsStayVisible /\ NothingOldIsCurrent

\* health.py:494-652: a stop of the monitor is its end, whatever its thread was doing:
\* nothing is published or left behind.
StopLeavesNothing == []CleanEnd /\ NothingAfterStop
=============================================================================
