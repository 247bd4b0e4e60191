--------------------------- MODULE RecordingSession ---------------------------
(***************************************************************************)
(* cam_driver/session.py: one recording session.  Four threads meet here:  *)
(*                                                                         *)
(*   feeder  the source thread in pipeline._feed_recording -> push()       *)
(*   main    the GLib main loop: bus messages, begin_close, finish_close   *)
(*   muxer   the streaming thread of the session's own pipeline (external: *)
(*           appsrc -> encoder -> splitmuxsink)                            *)
(*   writer  the CSV thread of the sidecar (module SidecarWriter)          *)
(*                                                                         *)
(* Frames are counted, not named: the appsrc is a FIFO, so what the muxer  *)
(* holds is always a prefix of what was pushed.  self.lock is held by the  *)
(* feeder exactly while it stands at a program point of LockedPoints, and  *)
(* by main only inside JoinPush.  Left out: wording, the fragment "opened" *)
(* message (display only), the health summary copied into the JSON.        *)
(***************************************************************************)
EXTENDS Naturals, Sequences, SidecarWriter

CONSTANTS
  MaxFrames,    \* bound: frames the source offers to this session
  MaxQueue,     \* appsrc max-bytes, in frames
  MaxFiles      \* bound: segment files splitmuxsink rotates through

ASSUME RecordingAssumption ==
  /\ MaxFrames \in Nat
  /\ MaxQueue \in Nat \ {0}
  /\ MaxFiles \in Nat \ {0}

VARIABLES
  blocking,     \* appsrc built block=true: a finite (playback) source
  encoded,      \* stream-copy: recording waits for a sync point
  \* -- session object
  awaitKey,     \* _await_key
  closing,      \* _closing
  closed,       \* closed
  frames,       \* frames: pushed, and counted
  headerTried,  \* first_pts is not None
  error,        \* self.error: "none" or who reported first
  truncated,    \* truncated
  eosSeen,      \* _eos_seen
  listed,       \* segments: files the bus announced as closed
  attest,       \* the attestation finish_close builds
  \* -- appsrc, muxer, bus, idle source
  pushed,       \* buffers the appsrc accepted
  firstSync,    \* the first of them was a sync point
  eos,          \* end-of-stream was emitted on the appsrc
  muxed,        \* buffers in the files
  files,        \* segment files on disk
  mux,          \* the streaming thread
  bus,          \* messages posted and not dispatched
  reportDue,    \* an idle _report_error is scheduled
  \* -- feeder and main
  offered,      \* frames the source offered
  feeder,       \* where the feeder is in push()
  curSync,      \* the frame in flight is a sync point
  lost,         \* pushes that returned DROPPED
  enqueueFailures, \* DropStats.enqueue_failures, which the caller counts afterwards
  sourceOn,     \* the source still delivers
  main,         \* where the main thread is
  why,          \* who closes: "operator", "stop" or "error"
  late          \* the writer outlived the join

sessionVars == <<blocking, encoded, awaitKey, closing, closed, frames, headerTried,
                 error, truncated, eosSeen, listed, attest>>
muxVars == <<pushed, firstSync, eos, muxed, files, mux, bus>>
feedVars == <<offered, feeder, curSync, lost, enqueueFailures>>
mainVars == <<reportDue, sourceOn, main, why, late>>
vars == <<sessionVars, muxVars, feedVars, mainVars, sidecarVars>>

FeederPoint == {"idle", "header", "push", "count", "row", "put", "note"}
LockedPoints == {"header", "push", "count", "row", "put"}
LockHeld == feeder \in LockedPoints

MainPoint == {"new", "build", "loop", "early", "join", "source", "finish", "drain",
              "teardown", "sentinel", "reap", "summary", "done", "refused"}

Message == [type : {"ERROR", "EOS", "closed"}, loc : Nat]
Post(t, n) == [type |-> t, loc |-> n]
OnBus(t) == \E i \in 1..Len(bus) : bus[i].type = t

ErrorKind == {"none", "header", "bus"}

Unattested == [made |-> FALSE, frames |-> 0, truncated |-> FALSE, error |-> "none",
               segments |-> {}, drops |-> 0]

SessionTypeOK ==
  /\ blocking \in BOOLEAN /\ encoded \in BOOLEAN /\ awaitKey \in BOOLEAN
  /\ closing \in BOOLEAN /\ closed \in BOOLEAN
  /\ frames \in Nat /\ headerTried \in BOOLEAN
  /\ error \in ErrorKind
  /\ truncated \in BOOLEAN /\ eosSeen \in BOOLEAN
  /\ listed \in SUBSET Nat
  /\ attest \in [made : BOOLEAN, frames : Nat, truncated : BOOLEAN, error : ErrorKind,
                 segments : SUBSET Nat, drops : Nat]

MuxTypeOK ==
  /\ pushed \in Nat /\ firstSync \in BOOLEAN /\ eos \in BOOLEAN
  /\ muxed \in Nat /\ files \in Nat
  /\ mux \in {"run", "eos", "failed", "null"}
  /\ bus \in Seq(Message)

ThreadsTypeOK ==
  /\ offered \in Nat /\ feeder \in FeederPoint /\ curSync \in BOOLEAN
  /\ lost \in Nat /\ enqueueFailures \in Nat
  /\ reportDue \in BOOLEAN /\ sourceOn \in BOOLEAN
  /\ main \in MainPoint
  /\ why \in {"none", "operator", "stop", "error"}
  /\ late \in BOOLEAN

TypeOK == SessionTypeOK /\ MuxTypeOK /\ ThreadsTypeOK /\ SidecarTypeOK

Init ==
  /\ SidecarInit
  /\ blocking \in BOOLEAN
  /\ encoded \in BOOLEAN
  /\ awaitKey = encoded
  /\ closing = FALSE /\ closed = FALSE
  /\ frames = 0 /\ headerTried = FALSE
  /\ error = "none" /\ truncated = FALSE /\ eosSeen = FALSE
  /\ listed = {} /\ attest = Unattested
  /\ pushed = 0 /\ firstSync = FALSE /\ eos = FALSE
  /\ muxed = 0 /\ files = 0 /\ mux = "run" /\ bus = <<>>
  /\ reportDue = FALSE
  /\ offered = 0 /\ feeder = "idle" /\ curSync = FALSE
  /\ lost = 0 /\ enqueueFailures = 0
  /\ sourceOn = TRUE /\ main = "new" /\ why = "none" /\ late = FALSE

-----------------------------------------------------------------------------
(* The feeder: push() holds self.lock from its first test to its return.   *)

(* The pipeline hands the session to the feeder once start() returned.     *)
Published == main = "loop" \/ why # "none"

Offer(sync) ==
  /\ feeder = "idle" /\ Published /\ sourceOn
  /\ offered < MaxFrames
  /\ offered' = offered + 1
  /\ curSync' = sync

(* Fault: a push that only minds errors.                                   *)
RejectingErrorsOnly == error # "none"

Rejecting == closing \/ closed \/ error # "none"

PushSkipped(sync) ==
  /\ Offer(sync)
  /\ Rejecting \/ (awaitKey /\ ~sync)
  /\ UNCHANGED <<sessionVars, muxVars, mainVars, sidecarVars, feeder, lost, enqueueFailures>>

Admissible(sync) == ~Rejecting /\ (awaitKey => sync)

(* Only a block=false feed enforces the bound by hand.                     *)
AppsrcFull == pushed - muxed >= MaxQueue

PushFull(sync) ==
  /\ Offer(sync)
  /\ Admissible(sync)
  /\ ~blocking /\ AppsrcFull
  /\ awaitKey' = FALSE
  /\ feeder' = "note"
  /\ lost' = lost + 1
  /\ UNCHANGED <<blocking, encoded, closing, closed, frames, headerTried, error, truncated,
                 eosSeen, listed, attest, enqueueFailures, muxVars, mainVars, sidecarVars>>

PushAdmitted(sync) ==
  /\ Offer(sync)
  /\ Admissible(sync)
  /\ blocking \/ ~AppsrcFull
  /\ awaitKey' = FALSE
  /\ feeder' = IF headerTried THEN "push" ELSE "header"
  /\ UNCHANGED <<blocking, encoded, closing, closed, frames, headerTried, error, truncated,
                 eosSeen, listed, attest, lost, enqueueFailures, muxVars, mainVars, sidecarVars>>

HeaderWritten ==
  /\ feeder = "header"
  /\ headerTried' = TRUE
  /\ feeder' = "push"
  /\ WriteHeader
  /\ UNCHANGED <<blocking, encoded, awaitKey, closing, closed, frames, error, truncated,
                 eosSeen, listed, attest, offered, curSync, lost, enqueueFailures,
                 muxVars, mainVars>>

(* _record_error: the first error wins and schedules one report.           *)
RecordError(who) ==
  /\ error' = IF error = "none" THEN who ELSE error
  /\ reportDue' = (reportDue \/ error = "none")

HeaderFails ==
  /\ feeder = "header"
  /\ headerTried' = TRUE
  /\ RecordError("header")
  /\ feeder' = "note"
  /\ lost' = lost + 1
  /\ UNCHANGED <<blocking, encoded, awaitKey, closing, closed, frames, truncated, eosSeen,
                 listed, attest, offered, curSync, enqueueFailures, muxVars,
                 sourceOn, main, why, late, sidecarVars>>

(* push-buffer on a block=true appsrc waits for room; EOS wakes it.        *)
PushBuffer ==
  /\ feeder = "push"
  /\ ~eos
  /\ blocking => ~AppsrcFull
  /\ pushed' = pushed + 1
  /\ firstSync' = IF pushed = 0 THEN curSync ELSE firstSync
  /\ feeder' = "count"
  /\ UNCHANGED <<sessionVars, mainVars, sidecarVars, offered, curSync, lost, enqueueFailures,
                 eos, muxed, files, mux, bus>>

(* SKIPPED, not a loss: the close cancelled this push.                     *)
PushCancelled ==
  /\ feeder = "push"
  /\ eos
  /\ feeder' = "idle"
  /\ UNCHANGED <<sessionVars, muxVars, mainVars, sidecarVars, offered, curSync, lost,
                 enqueueFailures>>

(* Any other refusal of push-buffer is a loss: the pipeline has failed.     *)
PushRefused ==
  /\ feeder = "push"
  /\ mux = "failed"
  /\ feeder' = "note"
  /\ lost' = lost + 1
  /\ UNCHANGED <<sessionVars, muxVars, mainVars, sidecarVars, offered, curSync,
                 enqueueFailures>>

CountFrame ==
  /\ feeder = "count"
  /\ frames' = frames + 1
  /\ feeder' = "row"
  /\ UNCHANGED <<blocking, encoded, awaitKey, closing, closed, headerTried, error, truncated,
                 eosSeen, listed, attest, offered, curSync, lost, enqueueFailures,
                 muxVars, mainVars, sidecarVars>>

AddRow ==
  /\ feeder = "row"
  /\ feeder' = IF WriterAccepts THEN "put" ELSE "idle"
  /\ UNCHANGED <<sessionVars, muxVars, mainVars, sidecarVars, offered, curSync, lost,
                 enqueueFailures>>

PutRow ==
  /\ feeder = "put"
  /\ EnqueueRow
  /\ feeder' = "idle"
  /\ UNCHANGED <<sessionVars, muxVars, mainVars, offered, curSync, lost, enqueueFailures>>

(* _note_push_drop, in the caller: after push() returned and its lock was  *)
(* released.                                                               *)
NoteDrop ==
  /\ feeder = "note"
  /\ enqueueFailures' = enqueueFailures + 1
  /\ feeder' = "idle"
  /\ UNCHANGED <<sessionVars, muxVars, mainVars, sidecarVars, offered, curSync, lost>>

FeederStep ==
  \/ HeaderWritten \/ HeaderFails \/ PushBuffer \/ PushCancelled
  \/ PushRefused \/ CountFrame \/ AddRow \/ PutRow \/ NoteDrop

-----------------------------------------------------------------------------
(* The muxer: external, as session.py relies on it.  It may stall forever, *)
(* fail at any moment, and reports only over the bus.                      *)

MuxFrame ==
  /\ mux = "run"
  /\ muxed < pushed
  /\ muxed' = muxed + 1
  /\ \/ files > 0 /\ UNCHANGED <<files, bus>>
     \/ /\ files < MaxFiles
        /\ files' = files + 1
        /\ bus' = IF files = 0 THEN bus ELSE Append(bus, Post("closed", files))
  /\ UNCHANGED <<sessionVars, feedVars, mainVars, sidecarVars, pushed, firstSync, eos, mux>>

MuxEos ==
  /\ mux = "run"
  /\ eos
  /\ muxed = pushed
  /\ mux' = "eos"
  /\ bus' = Append(Append(bus, Post("closed", files)), Post("EOS", 0))
  /\ UNCHANGED <<sessionVars, feedVars, mainVars, sidecarVars, pushed, firstSync, eos, muxed,
                 files>>

MuxFails ==
  /\ mux = "run"
  /\ Published
  /\ mux' = "failed"
  /\ bus' = Append(bus, Post("ERROR", 0))
  /\ UNCHANGED <<sessionVars, feedVars, mainVars, sidecarVars, pushed, firstSync, eos, muxed,
                 files>>

-----------------------------------------------------------------------------
(* The main loop.                                                          *)

Go(from, to) == main = from /\ main' = to

StartSession ==
  /\ Go("new", "build")
  /\ StartWriter
  /\ UNCHANGED <<sessionVars, muxVars, feedVars, reportDue, sourceOn, why, late>>

BuildPipeline ==
  /\ Go("build", "loop")
  /\ UNCHANGED <<sessionVars, muxVars, feedVars, sidecarVars, reportDue, sourceOn, why, late>>

(* A pipeline that cannot be built leaves no half-open session behind.     *)
BuildFails ==
  /\ Go("build", "sentinel")
  /\ mux' = "null"
  /\ UNCHANGED <<sessionVars, feedVars, sidecarVars, reportDue, sourceOn, why, late,
                 pushed, firstSync, eos, muxed, files, bus>>

(* _on_bus, one message per dispatch.                                      *)
BusDispatch ==
  /\ main = "loop"
  /\ bus # <<>>
  /\ bus' = Tail(bus)
  /\ LET m == Head(bus) IN
       /\ IF m.type = "ERROR" THEN RecordError("bus") ELSE UNCHANGED <<error, reportDue>>
       /\ eosSeen' = (eosSeen \/ m.type = "EOS")
       /\ listed' = IF m.type = "closed" THEN listed \cup {m.loc} ELSE listed
  /\ UNCHANGED <<blocking, encoded, awaitKey, closing, closed, frames, headerTried, truncated,
                 attest, feedVars, sidecarVars, pushed, firstSync, eos, muxed, files, mux,
                 sourceOn, main, why, late>>

(* begin_close, first half: reject new pushes before anything can wait.    *)
BeginClose(who) ==
  /\ Go("loop", "early")
  /\ why' = who
  /\ closing' = TRUE
  /\ UNCHANGED <<blocking, encoded, awaitKey, closed, frames, headerTried, error, truncated,
                 eosSeen, listed, attest, muxVars, feedVars, sidecarVars, sourceOn, late>>

(* An activate/deactivate request, a finished playback, or a stop.         *)
CloseRequested ==
  /\ \E who \in {"operator", "stop"} : BeginClose(who)
  /\ UNCHANGED reportDue

(* _report_error -> pipeline._on_session_error -> deactivate(wait_eos=False). *)
ErrorReported ==
  /\ reportDue
  /\ BeginClose("error")
  /\ reportDue' = FALSE

(* Fault: the lock is waited for before EOS wakes its holder.              *)
EarlyEosAfterLock ==
  /\ Go("early", "join")
  /\ eos' = FALSE
  /\ UNCHANGED <<sessionVars, feedVars, sidecarVars, reportDue, sourceOn, why, late,
                 pushed, firstSync, muxed, files, mux, bus>>

(* A blocked push is woken by EOS before its lock is waited for.  `frames` *)
(* is read without the lock.                                               *)
EarlyEos ==
  /\ Go("early", "join")
  /\ eos' = (frames > 0 /\ blocking)
  /\ UNCHANGED <<sessionVars, feedVars, sidecarVars, reportDue, sourceOn, why, late,
                 pushed, firstSync, muxed, files, mux, bus>>

(* Fault: the in-flight push is not joined.                                *)
JoinPushUnlocked ==
  /\ Go("join", IF why = "stop" THEN "source" ELSE "finish")
  /\ closed' = TRUE
  /\ eos' = (eos \/ frames > 0)
  /\ UNCHANGED <<blocking, encoded, awaitKey, closing, frames, headerTried, error, truncated,
                 eosSeen, listed, attest, feedVars, sidecarVars, reportDue, sourceOn, why, late,
                 pushed, firstSync, muxed, files, mux, bus>>

JoinPush ==
  /\ Go("join", IF why = "stop" THEN "source" ELSE "finish")
  /\ ~LockHeld
  /\ closed' = TRUE
  /\ eos' = (eos \/ frames > 0)
  /\ UNCHANGED <<blocking, encoded, awaitKey, closing, frames, headerTried, error, truncated,
                 eosSeen, listed, attest, feedVars, sidecarVars, reportDue, sourceOn, why, late,
                 pushed, firstSync, muxed, files, mux, bus>>

(* request_stop stops the source between the two halves; a finite source   *)
(* (replay) joins its reader thread, untimed.                              *)
StopSource ==
  /\ Go("source", "finish")
  /\ blocking => feeder = "idle"
  /\ sourceOn' = FALSE
  /\ UNCHANGED <<sessionVars, muxVars, feedVars, sidecarVars, reportDue, why, late>>

(* finish_close: is the EOS worth waiting for?  The drop snapshot is taken *)
(* as the call is made.                                                    *)
MustDrain == error = "none" /\ frames > 0 /\ ~eosSeen

FinishClose ==
  /\ Go("finish", IF MustDrain /\ why # "error" THEN "drain" ELSE "teardown")
  /\ truncated' = (error # "none" \/ (MustDrain /\ why = "error"))
  /\ attest' = [attest EXCEPT !.drops = enqueueFailures]
  /\ UNCHANGED <<blocking, encoded, awaitKey, closing, closed, frames, headerTried, error,
                 eosSeen, listed, muxVars, feedVars, sidecarVars, reportDue, sourceOn, why, late>>

(* timed_pop_filtered(EOS | ERROR) discards what it does not look for.     *)
DrainEnds ==
  /\ Go("drain", "teardown")
  /\ \/ /\ OnBus("EOS")
        /\ UNCHANGED <<error, truncated>>
     \/ /\ OnBus("ERROR")
        /\ error' = "bus"
        /\ truncated' = TRUE
     \/ /\ ~OnBus("EOS") /\ ~OnBus("ERROR")     \* SESSION_DRAIN_S ran out
        /\ truncated' = TRUE
        /\ UNCHANGED error
  /\ UNCHANGED <<blocking, encoded, awaitKey, closing, closed, frames, headerTried, eosSeen,
                 listed, attest, muxVars, feedVars, sidecarVars, reportDue, sourceOn, why, late>>

(* Fault: the disk is asked only when the bus listed nothing.              *)
TeardownTrustingBus ==
  /\ Go("teardown", "sentinel")
  /\ mux' = IF mux = "eos" THEN "eos" ELSE "null"
  /\ bus' = <<>>
  /\ listed' = IF listed = {} THEN 1..files ELSE listed
  /\ attest' = [made |-> TRUE, frames |-> frames, truncated |-> truncated, error |-> error,
                segments |-> listed', drops |-> attest.drops]
  /\ UNCHANGED <<blocking, encoded, awaitKey, closing, closed, frames, headerTried, error,
                 truncated, eosSeen, feedVars, sidecarVars, reportDue, sourceOn, why, late,
                 pushed, firstSync, eos, muxed, files>>

(* NULL ends the streaming thread; then the disk, not the bus, says which  *)
(* files there are.                                                        *)
Teardown ==
  /\ Go("teardown", "sentinel")
  /\ mux' = IF mux = "eos" THEN "eos" ELSE "null"
  /\ bus' = <<>>
  /\ listed' = listed \cup 1..files
  /\ attest' = [made |-> TRUE, frames |-> frames, truncated |-> truncated, error |-> error,
                segments |-> listed', drops |-> attest.drops]
  /\ UNCHANGED <<blocking, encoded, awaitKey, closing, closed, frames, headerTried, error,
                 truncated, eosSeen, feedVars, sidecarVars, reportDue, sourceOn, why, late,
                 pushed, firstSync, eos, muxed, files>>

StopSidecar ==
  /\ Go("sentinel", "reap")
  /\ PutSentinel \/ GiveUpSentinel
  /\ UNCHANGED <<sessionVars, muxVars, feedVars, reportDue, sourceOn, why, late>>

(* join(timeout=5): the writer may still be busy when it returns.          *)
ReapWriter ==
  /\ Go("reap", IF why = "none" THEN "refused" ELSE "summary")
  /\ late' = (writer # "done")
  /\ JoinWriter
  /\ UNCHANGED <<sessionVars, muxVars, feedVars, reportDue, sourceOn, why>>

Summarize ==
  /\ Go("summary", "done")
  /\ WriteSummary \/ LoseSummary
  /\ UNCHANGED <<sessionVars, muxVars, feedVars, reportDue, sourceOn, why, late>>

-----------------------------------------------------------------------------
MainStep ==
  \/ StartSession \/ BuildPipeline \/ BuildFails
  \/ BusDispatch \/ ErrorReported
  \/ EarlyEos \/ JoinPush \/ StopSource \/ FinishClose \/ DrainEnds \/ Teardown
  \/ StopSidecar \/ ReapWriter \/ Summarize

Source == \E sync \in BOOLEAN : PushSkipped(sync) \/ PushFull(sync) \/ PushAdmitted(sync)

Muxer == MuxFrame \/ MuxEos \/ MuxFails

Writer ==
  /\ WriterStep
  /\ UNCHANGED <<sessionVars, muxVars, feedVars, mainVars>>

(* The session object is finished, or was never opened.                    *)
Finished ==
  /\ main \in {"done", "refused"}
  /\ feeder = "idle"
  /\ UNCHANGED vars

Next == Source \/ FeederStep \/ Muxer \/ MainStep \/ CloseRequested \/ Writer \/ Finished

Spec == Init /\ [][Next]_vars

(* The source thread runs push() to its end and the main loop runs its     *)
(* callbacks; the source may stop offering frames, nobody need ask for a   *)
(* close, and the muxer and the CSV writer may stall forever on a disk.    *)
Fairness == WF_vars(FeederStep) /\ WF_vars(MainStep)

FairSpec == Spec /\ Fairness

-----------------------------------------------------------------------------
(* What must hold.                                                         *)

(* session.py:193-213, 250: the frame count the sidecar attests is the     *)
(* number of buffers the muxer was really given, although a push may have  *)
(* been in flight, or blocked, when the close began.                       *)
AttestedFramesExact == attest.made => attest.frames = pushed

(* session.py:209-212: EOS before the first accepted frame can assert in   *)
(* splitmuxsink; `frames` is read without the lock on one of the two ways. *)
NoEosWithoutFrames == eos => pushed > 0

(* session.py:218-237: a session attested as not truncated has drained:    *)
(* every accepted frame is in the files and the last file was finalized,   *)
(* whatever stalled, failed or timed out while it closed.                  *)
CompleteUnlessTruncated ==
  attest.made /\ ~attest.truncated =>
    /\ muxed = pushed
    /\ pushed > 0 => mux = "eos"

(* session.py:193-264: what a session attests of its frames can be relied  *)
(* on, however its close raced a push, the muxer and its own deadlines.    *)
AttestationIsExact ==
  AttestedFramesExact /\ NoEosWithoutFrames /\ CompleteUnlessTruncated

(* session.py:258-264, sidecar.py:113-116: unless the JSON says the CSV    *)
(* failed or the writer had to be left behind, every recorded frame has    *)
(* its row in the file or was counted out by the full row queue.           *)
RowsAccountedFor ==
  json.summary /\ ~json.csvFailed /\ ~late => flushed + overflow = attest.frames

(* session.py:239-245: the attested segments are the files on disk, also   *)
(* the last ones, whose bus message nobody dispatched.                     *)
SegmentsMatchDisk == attest.made => attest.segments = 1..files

(* session.py:152-159: the files of a stream-copy recording begin at a     *)
(* sync point, whatever was skipped, dropped or refused before it; the     *)
(* gate opens before the frame that opened it is known to be accepted.     *)
StartsAtSyncPoint == encoded /\ muxed > 0 => firstSync

(* session.py:152-264: the rows, the segment list and the video files of a *)
(* closed session fit together.                                            *)
FilesAreHonest == RowsAccountedFor /\ SegmentsMatchDisk /\ StartsAtSyncPoint

(* session.py:200-206: a close always ends, also with a push blocked on a  *)
(* full appsrc whose muxer is dead or stalled, and a stuck CSV writer.     *)
CloseTerminates == closing ~> main = "done"

(* session.py:278-283, pipeline.py:1046-1053: a recorder that dies ends    *)
(* the session, also when the feeder is blocked inside a push.             *)
FailureEndsSession == (mux = "failed" /\ ~closed) ~> closed

(* session.py:200-283: no stall or failure keeps a session from its end.   *)
SessionEnds == CloseTerminates /\ FailureEndsSession

(* The session as its caller sees it (module RecordingContract).           *)
Contract == INSTANCE RecordingContract WITH
  phase    <- IF attest.made THEN "final" ELSE IF closed THEN "closing" ELSE "open",
  accepted <- pushed,
  stored   <- muxed,
  verdict  <- IF ~attest.made THEN "none"
              ELSE IF attest.truncated THEN "truncated" ELSE "complete"

(* session.py:1-27: what the threads do is a recording session.            *)
ImplementsContract == Contract!Spec
=============================================================================
