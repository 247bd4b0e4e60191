------------------------ MODULE RecordingSession_proofs ------------------------
(***************************************************************************)
(* Proofs about RecordingSession, for every value of its constants.        *)
(*                                                                         *)
(* IInv is the inductive invariant.  Each of its conjuncts has a lemma of  *)
(* its own, which first sets aside the steps that change none of the       *)
(* variables the conjunct reads and then takes the others one by one.      *)
(***************************************************************************)
EXTENDS RecordingSession, TLAPS

(* Points of the main thread that only the close of an opened session      *)
(* reaches, after the feeder's lock was taken and given back.              *)
Joined ==
  \/ main \in {"source", "finish", "drain", "teardown", "summary", "done"}
  \/ main \in {"sentinel", "reap"} /\ why # "none"

(* The feed lock: frames and the muxer's input agree outside the one step  *)
(* between push-buffer and the count, and no push is inside after a close. *)
FeedInv ==
  /\ pushed = IF feeder = "count" THEN frames + 1 ELSE frames
  /\ closed => ~LockHeld
  /\ Joined => closed
  /\ main \in {"new", "build", "loop"} => why = "none"
  /\ main \in {"early", "join", "source", "finish", "drain", "teardown"} => why # "none"
  /\ eos => frames > 0 /\ main \notin {"new", "build", "loop", "early"}

(* The attestation is made once, of a closed session.                      *)
AttestInv ==
  attest.made =>
    /\ closed /\ why # "none"
    /\ main \in {"sentinel", "reap", "summary", "done"}
    /\ attest.frames = frames

(* What an EOS on the bus means, and what the verdict rests on.            *)
DrainInv ==
  /\ muxed <= pushed
  /\ mux = "eos" => eos /\ muxed = pushed
  /\ OnBus("EOS") => mux = "eos"
  /\ eosSeen => mux = "eos"
  /\ main = "teardown" /\ ~truncated => frames = 0 \/ mux = "eos"
  /\ attest.made => mux \in {"eos", "null"}
  /\ attest.made /\ ~attest.truncated => muxed = pushed /\ (pushed > 0 => mux = "eos")

(* The row queue never holds more than maxsize entries, sentinel included. *)
RowQueueInv == sentinel => rowq < QueueMax

IInv == TypeOK /\ RowQueueInv /\ FeedInv /\ AttestInv /\ DrainInv

(* The first buffer of a stream-copy recording.  The gate may have been    *)
(* opened for a frame that was refused, but then the recorder has failed.  *)
SyncInv ==
  encoded =>
    /\ muxed > 0 => firstSync
    /\ mux = "run" /\ pushed > 0 => firstSync
    /\ mux = "run" /\ pushed = 0 /\ feeder \in {"header", "push"} => curSync
    /\ mux = "run" /\ pushed = 0 /\ ~awaitKey =>
         error # "none" \/ (feeder \in {"header", "push"} /\ curSync)

(* What is announced as closed is a file on disk.                          *)
SegmentInv ==
  /\ muxed > 0 => files > 0
  /\ \A i \in 1..Len(bus) : bus[i].type = "closed" => bus[i].loc \in 1..files
  /\ listed \subseteq 1..files
  /\ attest.made => attest.segments = 1..files

(* Points of the main thread after stop() has sent the sentinel: no row    *)
(* comes behind it.                                                        *)
Sealed == main \in {"reap", "summary", "done", "refused"}

(* Who is where while rows are added and the writer ends.                  *)
OrderInv ==
  /\ feeder # "idle" => Published
  /\ main = "refused" => why = "none"
  /\ main \notin {"new", "summary", "done", "refused"} => started
  /\ main \in {"sentinel", "reap"} /\ why # "none" => attest.made
  /\ main \in {"summary", "done"} => attest.made

(* A frame between its count and its row.                                  *)
Unrowed == IF feeder \in {"row", "put"} THEN 1 ELSE 0

(* Every counted frame is on its way to the writer, with it, or counted    *)
(* out, unless the writer has died.                                        *)
RowInv ==
  /\ writer = "drain" => failed
  /\ sentinel => Sealed
  /\ ~failed => frames = Unrowed + rowq + written + overflow
  /\ writer = "done" /\ ~failed => Sealed /\ rowq = 0 /\ flushed = written

(* What the summary says of the writer is final unless it was left behind. *)
SummaryInv ==
  /\ main \in {"summary", "done"} /\ ~late => writer = "done"
  /\ json.summary => main = "done"
  /\ json.summary /\ ~late => (json.csvFailed <=> failed)

FilesInv == SyncInv /\ SegmentInv /\ OrderInv /\ RowInv /\ SummaryInv

-----------------------------------------------------------------------------
(* The sidecar.                                                            *)

(* What a step of the session may do to the writer's state.                *)
SidecarStep ==
  \/ StartWriter \/ EnqueueRow \/ WriteHeader \/ PutSentinel \/ GiveUpSentinel
  \/ JoinWriter \/ WriteSummary \/ LoseSummary \/ WriterStep

(* Every step of the session is one of the writer's operations or leaves   *)
(* its state alone: sidecar.py is called nowhere else.                     *)
LEMMA SidecarFrame ==
  ASSUME [Next]_vars
  PROVE  SidecarStep \/ UNCHANGED sidecarVars
<1>1. CASE UNCHANGED vars
  BY <1>1 DEF vars
<1>2. CASE Source
  BY <1>2 DEF Source, PushSkipped, PushFull, PushAdmitted
<1>3. CASE FeederStep
  BY <1>3 DEF FeederStep, HeaderWritten, HeaderFails, PushBuffer, PushCancelled, PushRefused,
              CountFrame, AddRow, PutRow, NoteDrop, SidecarStep
<1>4. CASE Muxer
  BY <1>4 DEF Muxer, MuxFrame, MuxEos, MuxFails
<1>5. CASE MainStep
  BY <1>5 DEF MainStep, StartSession, BuildPipeline, BuildFails, BusDispatch, ErrorReported,
              BeginClose, EarlyEos, JoinPush, StopSource, FinishClose, DrainEnds, Teardown,
              StopSidecar, ReapWriter, Summarize, SidecarStep
<1>6. CASE CloseRequested
  BY <1>6 DEF CloseRequested, BeginClose
<1>7. CASE Writer
  BY <1>7 DEF Writer, SidecarStep
<1>8. CASE Finished
  BY <1>8 DEF Finished, vars
<1> QED BY <1>1, <1>2, <1>3, <1>4, <1>5, <1>6, <1>7, <1>8 DEF Next

(* Each operation of the writer keeps its types and its queue bounded.     *)
LEMMA SidecarTyped ==
  ASSUME SidecarTypeOK, RowQueueInv, SidecarStep
  PROVE  SidecarTypeOK' /\ RowQueueInv'
<1> USE SidecarAssumption DEF SidecarTypeOK, RowQueueInv
<1>1. CASE StartWriter
  BY <1>1 DEF StartWriter, WriterState
<1>2. CASE EnqueueRow
  BY <1>2 DEF EnqueueRow, QueueFull
<1>3. CASE WriteHeader
  BY <1>3 DEF WriteHeader, JsonFile
<1>4. CASE PutSentinel
  BY <1>4 DEF PutSentinel, QueueFull
<1>5. CASE GiveUpSentinel \/ LoseSummary
  BY <1>5 DEF GiveUpSentinel, LoseSummary, sidecarVars
<1>6. CASE JoinWriter
  BY <1>6 DEF JoinWriter
<1>7. CASE WriteSummary
  BY <1>7 DEF WriteSummary, JsonFile
<1>8. CASE OpenCsv
  BY <1>8 DEF OpenCsv, WriterState
<1>9. CASE WriteRow
  BY <1>9 DEF WriteRow
<1>10. CASE TakeSentinel
  BY <1>10 DEF TakeSentinel, WriterState
<1>11. CASE WriterFails
  <2>1. writer' = "drain" /\ UNCHANGED <<started, overflow, written, flushed, json>> /\ failed'
    BY <1>11 DEF WriterFails
  <2>2. CASE rowq > 0 /\ writer = "run"
    BY <1>11, <2>1, <2>2 DEF WriterFails, WriterState
  <2>3. CASE ~(rowq > 0 /\ writer = "run")
    BY <1>11, <2>1, <2>3 DEF WriterFails, WriterState
  <2> QED BY <2>2, <2>3
<1>12. CASE DrainQueue
  <2>1. 0 \in 0..QueueMax
    OBVIOUS
  <2> QED BY <1>12, <2>1 DEF DrainQueue, WriterState
<1> QED
  BY <1>1, <1>2, <1>3, <1>4, <1>5, <1>6, <1>7, <1>8, <1>9, <1>10, <1>11, <1>12
  DEF SidecarStep, WriterStep
-----------------------------------------------------------------------------
(* Types.                                                                  *)

(* The steps that write the session object keep its fields typed.          *)
LEMMA SessionTyped ==
  ASSUME TypeOK, [Next]_vars
  PROVE  SessionTypeOK'
<1> USE DEF TypeOK, SessionTypeOK
<1>1. CASE UNCHANGED sessionVars
  BY <1>1 DEF sessionVars
<1>2. ASSUME NEW sync \in BOOLEAN, PushFull(sync) \/ PushAdmitted(sync) PROVE SessionTypeOK'
  BY <1>2 DEF PushFull, PushAdmitted
<1>3. CASE HeaderWritten
  BY <1>3 DEF HeaderWritten
<1>4. CASE HeaderFails
  BY <1>4 DEF HeaderFails, RecordError, ErrorKind
<1>5. CASE CountFrame
  BY <1>5 DEF CountFrame
<1>6. CASE BusDispatch
  <2>1. Head(bus) \in Message
    BY <1>6 DEF BusDispatch, MuxTypeOK
  <2>2. Head(bus).loc \in Nat
    BY <2>1 DEF Message
  <2>3. error' \in ErrorKind
    BY <1>6 DEF BusDispatch, RecordError, ErrorKind
  <2>4. listed' \in SUBSET Nat
    BY <1>6, <2>2 DEF BusDispatch
  <2> QED BY <1>6, <2>3, <2>4 DEF BusDispatch
<1>7. ASSUME NEW who \in {"operator", "stop", "error"}, BeginClose(who) PROVE SessionTypeOK'
  BY <1>7 DEF BeginClose
<1>8. CASE JoinPush
  BY <1>8 DEF JoinPush
<1>9. CASE FinishClose
  <2>1. attest' \in [made : BOOLEAN, frames : Nat, truncated : BOOLEAN, error : ErrorKind,
                     segments : SUBSET Nat, drops : Nat]
    BY <1>9 DEF FinishClose, ThreadsTypeOK
  <2> QED BY <1>9, <2>1 DEF FinishClose
<1>10. CASE DrainEnds
  <2>1. error' \in ErrorKind /\ truncated' \in BOOLEAN
    BY <1>10 DEF DrainEnds, ErrorKind
  <2> QED BY <1>10, <2>1 DEF DrainEnds
<1>11. CASE Teardown
  <2>1. listed' \in SUBSET Nat
    BY <1>11 DEF Teardown, MuxTypeOK
  <2> QED BY <1>11, <2>1 DEF Teardown
<1>12. [Next]_vars =>
         \/ UNCHANGED sessionVars
         \/ \E sync \in BOOLEAN : PushFull(sync) \/ PushAdmitted(sync)
         \/ HeaderWritten \/ HeaderFails \/ CountFrame \/ BusDispatch
         \/ \E who \in {"operator", "stop", "error"} : BeginClose(who)
         \/ JoinPush \/ FinishClose \/ DrainEnds \/ Teardown
  BY DEF vars, Next, Source, PushSkipped, FeederStep, PushBuffer, PushCancelled, PushRefused,
         AddRow, PutRow, NoteDrop, Muxer, MuxFrame, MuxEos, MuxFails, MainStep, StartSession,
         BuildPipeline, BuildFails, ErrorReported, EarlyEos, StopSource, StopSidecar, ReapWriter,
         Summarize, CloseRequested, Writer, Finished
<1> QED BY <1>1, <1>2, <1>3, <1>4, <1>5, <1>6, <1>7, <1>8, <1>9, <1>10, <1>11, <1>12

(* The muxer's input, its output and the bus stay typed.                   *)
LEMMA MuxTyped ==
  ASSUME TypeOK, [Next]_vars
  PROVE  MuxTypeOK'
<1> USE DEF TypeOK, MuxTypeOK
<1>1. CASE UNCHANGED muxVars
  BY <1>1 DEF muxVars
<1>2. CASE PushBuffer
  BY <1>2 DEF PushBuffer, ThreadsTypeOK
<1>3. CASE MuxFrame
  <2>1. Post("closed", files) \in Message
    BY DEF Post, Message
  <2>2. Append(bus, Post("closed", files)) \in Seq(Message)
    BY <2>1
  <2>3. bus' \in Seq(Message) /\ files' \in Nat
    BY <1>3, <2>2 DEF MuxFrame
  <2> QED BY <1>3, <2>3 DEF MuxFrame
<1>4. CASE MuxEos
  <2>1. Post("closed", files) \in Message /\ Post("EOS", 0) \in Message
    BY DEF Post, Message
  <2>2. bus' \in Seq(Message)
    BY <1>4, <2>1 DEF MuxEos
  <2> QED BY <1>4, <2>2 DEF MuxEos
<1>5. CASE MuxFails
  <2>1. Post("ERROR", 0) \in Message
    BY DEF Post, Message
  <2>2. bus' \in Seq(Message)
    BY <1>5, <2>1 DEF MuxFails
  <2> QED BY <1>5, <2>2 DEF MuxFails
<1>6. CASE BuildFails
  BY <1>6 DEF BuildFails
<1>7. CASE BusDispatch
  <2>1. bus' \in Seq(Message)
    BY <1>7 DEF BusDispatch
  <2> QED BY <1>7, <2>1 DEF BusDispatch
<1>8. CASE EarlyEos \/ JoinPush
  BY <1>8 DEF EarlyEos, JoinPush, SessionTypeOK
<1>9. CASE Teardown
  BY <1>9 DEF Teardown
<1>10. [Next]_vars =>
         \/ UNCHANGED muxVars
         \/ PushBuffer \/ MuxFrame \/ MuxEos \/ MuxFails
         \/ BuildFails \/ BusDispatch \/ EarlyEos \/ JoinPush \/ Teardown
  BY DEF vars, Next, Source, PushSkipped, PushFull, PushAdmitted, FeederStep, HeaderWritten,
         HeaderFails, PushCancelled, PushRefused, CountFrame, AddRow, PutRow, NoteDrop,
         Muxer, MainStep, StartSession, BuildPipeline, ErrorReported, BeginClose, StopSource,
         FinishClose, DrainEnds, StopSidecar, ReapWriter, Summarize, CloseRequested, Writer, Finished
<1> QED BY <1>1, <1>2, <1>3, <1>4, <1>5, <1>6, <1>7, <1>8, <1>9, <1>10

(* The two threads' program points and counters stay typed.                *)
LEMMA ThreadsTyped ==
  ASSUME TypeOK, [Next]_vars
  PROVE  ThreadsTypeOK'
<1> USE DEF TypeOK, ThreadsTypeOK, FeederPoint, MainPoint
<1>1. CASE UNCHANGED <<feedVars, mainVars>>
  BY <1>1 DEF feedVars, mainVars
<1>2. ASSUME NEW sync \in BOOLEAN, PushSkipped(sync) \/ PushFull(sync) \/ PushAdmitted(sync)
      PROVE  ThreadsTypeOK'
  BY <1>2 DEF PushSkipped, PushFull, PushAdmitted, Offer, mainVars
<1>3. CASE FeederStep
  <2>1. CASE HeaderWritten \/ PushBuffer \/ PushCancelled \/ PushRefused \/ CountFrame
    BY <2>1 DEF HeaderWritten, PushBuffer, PushCancelled, PushRefused, CountFrame, mainVars
  <2>2. CASE HeaderFails
    BY <2>2 DEF HeaderFails, RecordError
  <2>3. CASE AddRow
    BY <2>3 DEF AddRow, mainVars
  <2>4. CASE PutRow \/ NoteDrop
    BY <2>4 DEF PutRow, NoteDrop, mainVars
  <2> QED BY <1>3, <2>1, <2>2, <2>3, <2>4 DEF FeederStep
<1>4. CASE StartSession \/ BuildPipeline \/ BuildFails
  BY <1>4 DEF StartSession, BuildPipeline, BuildFails, Go, feedVars
<1>5. CASE BusDispatch
  BY <1>5 DEF BusDispatch, RecordError, feedVars
<1>6. CASE ErrorReported \/ CloseRequested
  BY <1>6 DEF ErrorReported, CloseRequested, BeginClose, Go, feedVars
<1>7. CASE EarlyEos \/ JoinPush \/ StopSource
  BY <1>7 DEF EarlyEos, JoinPush, StopSource, Go, feedVars
<1>8. CASE FinishClose \/ DrainEnds \/ Teardown
  BY <1>8 DEF FinishClose, DrainEnds, Teardown, Go, feedVars
<1>9. CASE StopSidecar \/ ReapWriter \/ Summarize
  BY <1>9 DEF StopSidecar, ReapWriter, Summarize, Go, feedVars
<1>10. [Next]_vars =>
         \/ UNCHANGED <<feedVars, mainVars>>
         \/ \E sync \in BOOLEAN : PushSkipped(sync) \/ PushFull(sync) \/ PushAdmitted(sync)
         \/ FeederStep \/ MainStep \/ CloseRequested
  BY DEF vars, Next, Source, Muxer, MuxFrame, MuxEos, MuxFails, Writer, Finished
<1> QED BY <1>1, <1>2, <1>3, <1>4, <1>5, <1>6, <1>7, <1>8, <1>9, <1>10 DEF MainStep

(* Every step keeps every variable typed and the row queue bounded.        *)
LEMMA TypeStep ==
  ASSUME TypeOK, RowQueueInv, [Next]_vars
  PROVE  TypeOK' /\ RowQueueInv'
<1>1. SidecarTypeOK' /\ RowQueueInv'
  <2>1. CASE SidecarStep
    BY <2>1, SidecarTyped DEF TypeOK
  <2>2. CASE UNCHANGED sidecarVars
    BY <2>2 DEF TypeOK, SidecarTypeOK, RowQueueInv, sidecarVars
  <2> QED BY <2>1, <2>2, SidecarFrame
<1> QED BY <1>1, SessionTyped, MuxTyped, ThreadsTyped DEF TypeOK

-----------------------------------------------------------------------------
(* The lock.                                                               *)

(* The feed lock does its work: no step of the feeder, of the close or of  *)
(* the muxer breaks the agreement of `frames` with the muxer's input.      *)
LEMMA FeedStep ==
  ASSUME IInv, [Next]_vars
  PROVE  FeedInv'
<1> USE DEF IInv, FeedInv, LockHeld, LockedPoints, Joined
<1>0. TypeOK /\ frames \in Nat /\ pushed \in Nat
  BY DEF TypeOK, SessionTypeOK, MuxTypeOK
<1>1. CASE UNCHANGED <<pushed, frames, feeder, closed, main, why, eos>>
  BY <1>1
<1>2. ASSUME NEW sync \in BOOLEAN, PushFull(sync) \/ PushAdmitted(sync) PROVE FeedInv'
  <2>1. ~closed /\ feeder = "idle" /\ feeder' \in {"note", "header", "push"}
    BY <1>2 DEF PushFull, PushAdmitted, Offer, Admissible, Rejecting
  <2>2. UNCHANGED <<pushed, frames, closed, main, why, eos>>
    BY <1>2 DEF PushFull, PushAdmitted, muxVars, mainVars
  <2> QED BY <2>1, <2>2
<1>3. CASE HeaderWritten \/ HeaderFails
  BY <1>3 DEF HeaderWritten, HeaderFails, muxVars, mainVars
<1>4. CASE PushBuffer
  BY <1>0, <1>4 DEF PushBuffer, sessionVars, mainVars
<1>5. CASE PushCancelled \/ PushRefused
  BY <1>5 DEF PushCancelled, PushRefused, sessionVars, muxVars, mainVars
<1>6. CASE CountFrame
  BY <1>0, <1>6 DEF CountFrame, muxVars, mainVars
<1>7. CASE AddRow \/ PutRow \/ NoteDrop
  BY <1>7 DEF AddRow, PutRow, NoteDrop, sessionVars, muxVars, mainVars
<1>8. CASE StartSession \/ BuildPipeline \/ BuildFails
  BY <1>8 DEF StartSession, BuildPipeline, BuildFails, Go, sessionVars, muxVars, feedVars
<1>9. ASSUME NEW who \in {"operator", "stop", "error"}, BeginClose(who) PROVE FeedInv'
  BY <1>9 DEF BeginClose, Go, muxVars, feedVars
<1>10. CASE EarlyEos
  BY <1>10 DEF EarlyEos, Go, sessionVars, feedVars
<1>11. CASE JoinPush
  BY <1>11 DEF JoinPush, Go, feedVars
<1>12. CASE StopSource
  BY <1>12 DEF StopSource, Go, sessionVars, muxVars, feedVars
<1>13. CASE FinishClose
  BY <1>13 DEF FinishClose, Go, muxVars, feedVars
<1>14. CASE DrainEnds
  BY <1>14 DEF DrainEnds, Go, muxVars, feedVars
<1>15. CASE Teardown
  BY <1>15 DEF Teardown, Go, feedVars
<1>16. CASE StopSidecar \/ ReapWriter \/ Summarize
  BY <1>16 DEF StopSidecar, ReapWriter, Summarize, Go, sessionVars, muxVars, feedVars
<1>17. [Next]_vars =>
         \/ UNCHANGED <<pushed, frames, feeder, closed, main, why, eos>>
         \/ \E sync \in BOOLEAN : PushFull(sync) \/ PushAdmitted(sync)
         \/ HeaderWritten \/ HeaderFails \/ PushBuffer \/ PushCancelled \/ PushRefused
         \/ CountFrame \/ AddRow \/ PutRow \/ NoteDrop
         \/ StartSession \/ BuildPipeline \/ BuildFails
         \/ \E who \in {"operator", "stop", "error"} : BeginClose(who)
         \/ EarlyEos \/ JoinPush \/ StopSource \/ FinishClose \/ DrainEnds \/ Teardown
         \/ StopSidecar \/ ReapWriter \/ Summarize
  BY DEF vars, sessionVars, muxVars, feedVars, mainVars, Next, Source, PushSkipped, FeederStep,
         Muxer, MuxFrame, MuxEos, MuxFails, MainStep, BusDispatch, ErrorReported,
         CloseRequested, Writer, Finished
<1> QED BY <1>1, <1>2, <1>3, <1>4, <1>5, <1>6, <1>7, <1>8, <1>9, <1>10, <1>11, <1>12, <1>13,
           <1>14, <1>15, <1>16, <1>17

(* Once made, the attestation stays, and frames no longer move.            *)
LEMMA AttestStep ==
  ASSUME IInv, [Next]_vars
  PROVE  AttestInv'
<1> USE DEF IInv, AttestInv
<1>1. CASE UNCHANGED <<attest, closed, why, main, frames>>
  BY <1>1
<1>2. CASE CountFrame
  <2>1. ~closed
    BY <1>2 DEF CountFrame, FeedInv, LockHeld, LockedPoints
  <2> QED BY <1>2, <2>1 DEF CountFrame
<1>3. CASE StartSession \/ BuildPipeline \/ BuildFails
  BY <1>3 DEF StartSession, BuildPipeline, BuildFails, Go, sessionVars
<1>4. ASSUME NEW who \in {"operator", "stop", "error"}, BeginClose(who) PROVE AttestInv'
  BY <1>4 DEF BeginClose, Go
<1>5. CASE EarlyEos \/ JoinPush \/ StopSource \/ DrainEnds
  BY <1>5 DEF EarlyEos, JoinPush, StopSource, DrainEnds, Go, sessionVars
<1>6. CASE FinishClose
  <2>1. ~attest.made
    BY <1>6 DEF FinishClose, Go
  <2>2. attest'.made = attest.made
    BY <1>6 DEF FinishClose, TypeOK, SessionTypeOK
  <2> QED BY <2>1, <2>2
<1>7. CASE Teardown
  <2>1. closed /\ why # "none"
    BY <1>7 DEF Teardown, Go, FeedInv, Joined
  <2>2. attest'.frames = frames
    BY <1>7 DEF Teardown
  <2> QED BY <1>7, <2>1, <2>2 DEF Teardown, Go
<1>8. CASE StopSidecar \/ ReapWriter \/ Summarize
  BY <1>8 DEF StopSidecar, ReapWriter, Summarize, Go, sessionVars
<1>9. [Next]_vars =>
         \/ UNCHANGED <<attest, closed, why, main, frames>>
         \/ CountFrame
         \/ StartSession \/ BuildPipeline \/ BuildFails
         \/ \E who \in {"operator", "stop", "error"} : BeginClose(who)
         \/ EarlyEos \/ JoinPush \/ StopSource \/ FinishClose \/ DrainEnds \/ Teardown
         \/ StopSidecar \/ ReapWriter \/ Summarize
  BY DEF vars, sessionVars, mainVars, Next, Source, PushSkipped, PushFull, PushAdmitted,
         FeederStep, HeaderWritten, HeaderFails, PushBuffer, PushCancelled, PushRefused,
         AddRow, PutRow, NoteDrop, Muxer, MuxFrame, MuxEos, MuxFails, MainStep, BusDispatch, ErrorReported,
         CloseRequested, Writer, Finished
<1> QED BY <1>1, <1>2, <1>3, <1>4, <1>5, <1>6, <1>7, <1>8, <1>9

-----------------------------------------------------------------------------
(* The drain.                                                              *)

(* Posting a message that is not an EOS puts no EOS on the bus.            *)
LEMMA PostsNoEos ==
  ASSUME bus \in Seq(Message), NEW m \in Message, m.type # "EOS",
         bus' = Append(bus, m), OnBus("EOS")'
  PROVE  OnBus("EOS")
<1>1. PICK i \in 1..Len(bus') : bus'[i].type = "EOS"
  BY DEF OnBus
<1>2. Len(bus') = Len(bus) + 1 /\ bus'[Len(bus) + 1] = m
  OBVIOUS
<1>3. i \in 1..Len(bus)
  BY <1>1, <1>2
<1>4. bus'[i] = bus[i]
  BY <1>3
<1> QED BY <1>1, <1>3, <1>4 DEF OnBus

(* A dispatch takes a message off the bus and adds none.                   *)
LEMMA DispatchNoEos ==
  ASSUME bus \in Seq(Message), bus # <<>>, bus' = Tail(bus), OnBus("EOS")'
  PROVE  OnBus("EOS")
<1>1. PICK i \in 1..Len(bus') : bus'[i].type = "EOS"
  BY DEF OnBus
<1>2. i + 1 \in 1..Len(bus) /\ bus'[i] = bus[i + 1]
  BY <1>1
<1> QED BY <1>1, <1>2 DEF OnBus

(* The verdict of the drain: an EOS heard, on the bus or by a dispatch,    *)
(* means that every buffer is in the files, and only that, or a recording  *)
(* without frames, leads to an attestation that is not truncated.          *)
LEMMA DrainStep ==
  ASSUME IInv, [Next]_vars
  PROVE  DrainInv'
<1> USE DEF DrainInv
<1>0. /\ frames \in Nat /\ pushed \in Nat /\ muxed \in Nat /\ bus \in Seq(Message)
      /\ DrainInv /\ FeedInv /\ AttestInv
  BY DEF IInv, TypeOK, SessionTypeOK, MuxTypeOK
<1>1. CASE UNCHANGED <<muxed, pushed, mux, eos, bus, eosSeen, main, truncated, frames, attest>>
  BY <1>0, <1>1 DEF OnBus
<1>2. CASE PushBuffer
  <2>1. ~attest.made /\ mux # "eos"
    BY <1>0, <1>2 DEF PushBuffer, AttestInv, FeedInv, LockHeld, LockedPoints
  <2>2. UNCHANGED <<muxed, mux, eos, bus, eosSeen, main, truncated, frames, attest>>
    BY <1>2 DEF PushBuffer, sessionVars, mainVars
  <2> QED BY <1>0, <1>2, <2>1, <2>2 DEF PushBuffer, OnBus
<1>3. CASE CountFrame
  <2>1. main # "teardown"
    BY <1>0, <1>3 DEF CountFrame, FeedInv, Joined, LockHeld, LockedPoints
  <2> QED BY <1>0, <1>3, <2>1 DEF CountFrame, muxVars, mainVars, OnBus
<1>4. CASE MuxFrame
  <2>1. mux = "run" /\ ~attest.made
    BY <1>0, <1>4 DEF MuxFrame
  <2>2. OnBus("EOS")' => OnBus("EOS")
    <3>1. CASE bus' = bus
      BY <3>1 DEF OnBus
    <3>2. CASE bus' = Append(bus, Post("closed", files))
      <4>1. Post("closed", files) \in Message /\ Post("closed", files).type # "EOS"
        BY DEF Post, Message, IInv, TypeOK, MuxTypeOK
      <4> QED BY <1>0, <3>2, <4>1, PostsNoEos
    <3> QED BY <1>4, <3>1, <3>2 DEF MuxFrame
  <2>3. UNCHANGED <<pushed, mux, eos, eosSeen, main, truncated, frames, attest>>
    BY <1>4 DEF MuxFrame, sessionVars, mainVars
  <2> QED BY <1>0, <1>4, <2>1, <2>2, <2>3 DEF MuxFrame
<1>5. CASE MuxEos
  <2>1. mux = "run" /\ ~attest.made /\ eos /\ muxed = pushed
    BY <1>0, <1>5 DEF MuxEos
  <2> QED BY <1>0, <1>5, <2>1 DEF MuxEos, sessionVars, mainVars
<1>6. CASE MuxFails
  <2>1. mux = "run" /\ ~attest.made /\ ~eosSeen /\ ~OnBus("EOS")
    BY <1>0, <1>6 DEF MuxFails
  <2>2. ~OnBus("EOS")'
    <3>1. Post("ERROR", 0) \in Message /\ Post("ERROR", 0).type # "EOS"
      BY DEF Post, Message
    <3> QED BY <1>0, <1>6, <2>1, <3>1, PostsNoEos DEF MuxFails
  <2> QED BY <1>0, <1>6, <2>1, <2>2 DEF MuxFails, sessionVars, mainVars
<1>7. CASE StartSession \/ BuildPipeline
  BY <1>0, <1>7 DEF StartSession, BuildPipeline, Go, sessionVars, muxVars, OnBus
<1>8. CASE BuildFails
  <2>1. ~eos /\ ~attest.made
    BY <1>0, <1>8 DEF BuildFails, Go, FeedInv, AttestInv
  <2>2. ~OnBus("EOS") /\ ~eosSeen
    BY <1>0, <2>1
  <2> QED BY <1>0, <1>8, <2>1, <2>2 DEF BuildFails, Go, sessionVars, OnBus
<1>9. CASE BusDispatch
  <2>1. OnBus("EOS")' => OnBus("EOS")
    BY <1>0, <1>9, DispatchNoEos DEF BusDispatch
  <2>2. eosSeen' => mux = "eos"
    <3>1. Head(bus).type = "EOS" => OnBus("EOS")
      BY <1>0, <1>9 DEF BusDispatch, OnBus
    <3> QED BY <1>0, <1>9, <3>1 DEF BusDispatch
  <2> QED BY <1>0, <1>9, <2>1, <2>2 DEF BusDispatch
<1>10. ASSUME NEW who \in {"operator", "stop", "error"}, BeginClose(who) PROVE DrainInv'
  BY <1>0, <1>10 DEF BeginClose, Go, muxVars, OnBus
<1>11. CASE EarlyEos
  <2>1. ~eos
    BY <1>0, <1>11 DEF EarlyEos, Go, FeedInv
  <2> QED BY <1>0, <1>11, <2>1 DEF EarlyEos, Go, sessionVars, OnBus
<1>12. CASE JoinPush
  BY <1>0, <1>12 DEF JoinPush, Go, OnBus
<1>13. CASE StopSource
  BY <1>0, <1>13 DEF StopSource, Go, sessionVars, muxVars, OnBus
<1>14. CASE FinishClose
  <2>1. ~attest.made /\ attest'.made = attest.made
    BY <1>0, <1>14 DEF FinishClose, Go, AttestInv, IInv, TypeOK, SessionTypeOK
  <2>2. ASSUME main' = "teardown", ~truncated' PROVE frames = 0 \/ eosSeen
    <3>1. error = "none" /\ ~(MustDrain /\ why = "error")
      BY <1>14, <2>2 DEF FinishClose
    <3>2. ~(MustDrain /\ why # "error")
      BY <1>14, <2>2 DEF FinishClose, Go
    <3> QED BY <1>0, <3>1, <3>2 DEF MustDrain
  <2>3. UNCHANGED <<muxed, pushed, mux, eos, bus, eosSeen, frames>>
    BY <1>14 DEF FinishClose, muxVars
  <2> QED BY <1>0, <2>1, <2>2, <2>3 DEF OnBus
<1>15. CASE DrainEnds
  <2>1. UNCHANGED <<muxed, pushed, mux, eos, bus, eosSeen, frames, attest>>
    BY <1>15 DEF DrainEnds, muxVars
  <2>2. ~attest.made
    BY <1>0, <1>15 DEF DrainEnds, Go, AttestInv
  <2>3. ~truncated' => OnBus("EOS")
    BY <1>15 DEF DrainEnds
  <2> QED BY <1>0, <2>1, <2>2, <2>3 DEF OnBus
<1>16. CASE Teardown
  <2>1. attest'.truncated = truncated /\ main' # "teardown"
    BY <1>16 DEF Teardown, Go
  <2>2. ~OnBus("EOS")' /\ mux' \in {"eos", "null"} /\ (mux' = "eos" <=> mux = "eos")
    BY <1>16 DEF Teardown, OnBus
  <2>3. ~truncated => muxed = pushed /\ (pushed > 0 => mux = "eos")
    <3>1. feeder # "count" /\ main = "teardown"
      BY <1>0, <1>16 DEF Teardown, Go, FeedInv, Joined, LockHeld, LockedPoints
    <3>2. pushed = frames
      BY <1>0, <3>1 DEF FeedInv
    <3> QED BY <1>0, <3>1, <3>2
  <2> QED BY <1>0, <1>16, <2>1, <2>2, <2>3 DEF Teardown
<1>17. CASE StopSidecar \/ ReapWriter \/ Summarize
  BY <1>0, <1>17 DEF StopSidecar, ReapWriter, Summarize, Go, sessionVars, muxVars, OnBus
<1>18. [Next]_vars =>
         \/ UNCHANGED <<muxed, pushed, mux, eos, bus, eosSeen, main, truncated, frames, attest>>
         \/ PushBuffer \/ CountFrame \/ MuxFrame \/ MuxEos \/ MuxFails
         \/ StartSession \/ BuildPipeline \/ BuildFails \/ BusDispatch
         \/ \E who \in {"operator", "stop", "error"} : BeginClose(who)
         \/ EarlyEos \/ JoinPush \/ StopSource \/ FinishClose \/ DrainEnds \/ Teardown
         \/ StopSidecar \/ ReapWriter \/ Summarize
  BY DEF vars, sessionVars, muxVars, mainVars, Next, Source, PushSkipped, PushFull, PushAdmitted,
         FeederStep, HeaderWritten, HeaderFails, PushCancelled, PushRefused, AddRow, PutRow,
         NoteDrop, Muxer, MainStep, ErrorReported, CloseRequested, Writer, Finished
<1> QED BY <1>1, <1>2, <1>3, <1>4, <1>5, <1>6, <1>7, <1>8, <1>9, <1>10, <1>11, <1>12, <1>13,
           <1>14, <1>15, <1>16, <1>17, <1>18

-----------------------------------------------------------------------------
(* Files, segments and rows.                                               *)

(* The types a step is read with.                                          *)
LEMMA Typing ==
  ASSUME IInv
  PROVE  /\ frames \in Nat /\ pushed \in Nat /\ muxed \in Nat /\ files \in Nat
         /\ bus \in Seq(Message) /\ listed \in SUBSET Nat
         /\ muxed <= pushed /\ (eos => pushed > 0) /\ (closed => ~LockHeld)
BY DEF IInv, TypeOK, SessionTypeOK, MuxTypeOK, FeedInv, DrainInv

(* The gate lets nothing through before a sync point that the muxer could  *)
(* write first.                                                            *)
LEMMA SyncStep ==
  ASSUME IInv, SyncInv, [Next]_vars
  PROVE  SyncInv'
<1> USE DEF SyncInv
<1>0. pushed \in Nat /\ muxed \in Nat /\ muxed <= pushed /\ (eos => pushed > 0)
  BY Typing
<1>1. CASE UNCHANGED <<encoded, muxed, firstSync, mux, pushed, feeder, curSync, awaitKey, error>>
  BY <1>1
<1>2. ASSUME NEW sync \in BOOLEAN, PushSkipped(sync) PROVE SyncInv'
  <2>1. feeder = "idle" /\ UNCHANGED <<encoded, muxed, firstSync, mux, pushed, feeder, awaitKey, error>>
    BY <1>2 DEF PushSkipped, Offer, sessionVars, muxVars
  <2> QED BY <2>1
<1>3. ASSUME NEW sync \in BOOLEAN, PushFull(sync) PROVE SyncInv'
  <2>1. feeder' = "note" /\ UNCHANGED <<encoded, muxed, firstSync, mux, pushed, error>>
    BY <1>3 DEF PushFull, muxVars
  <2>2. pushed > 0
    BY <1>0, <1>3, RecordingAssumption DEF PushFull, AppsrcFull
  <2> QED BY <2>1, <2>2
<1>4. ASSUME NEW sync \in BOOLEAN, PushAdmitted(sync) PROVE SyncInv'
  <2>1. /\ feeder = "idle" /\ feeder' \in {"header", "push"} /\ curSync' = sync
        /\ error = "none" /\ (awaitKey => sync)
        /\ UNCHANGED <<encoded, muxed, firstSync, mux, pushed, error>>
    BY <1>4 DEF PushAdmitted, Offer, Admissible, Rejecting, muxVars
  <2>2. encoded /\ mux = "run" /\ pushed = 0 => sync
    BY <2>1
  <2> QED BY <2>1, <2>2
<1>5. CASE HeaderWritten
  BY <1>5 DEF HeaderWritten, muxVars
<1>6. CASE HeaderFails
  <2>1. error' # "none"
    BY <1>6 DEF HeaderFails, RecordError
  <2> QED BY <1>6, <2>1 DEF HeaderFails, muxVars
<1>7. CASE PushBuffer
  <2>1. /\ feeder = "push" /\ pushed' = pushed + 1 /\ feeder' = "count"
        /\ firstSync' = IF pushed = 0 THEN curSync ELSE firstSync
        /\ UNCHANGED <<encoded, muxed, mux>>
    BY <1>7 DEF PushBuffer, sessionVars
  <2> QED BY <1>0, <2>1
<1>8. CASE PushCancelled
  <2>1. pushed > 0 /\ feeder' = "idle"
    BY <1>0, <1>8 DEF PushCancelled
  <2> QED BY <1>8, <2>1 DEF PushCancelled, sessionVars, muxVars
<1>9. CASE PushRefused
  BY <1>9 DEF PushRefused, sessionVars, muxVars
<1>10. CASE CountFrame
  <2>1. pushed > 0
    BY <1>0, <1>10 DEF CountFrame, IInv, FeedInv, TypeOK, SessionTypeOK
  <2> QED BY <1>10, <2>1 DEF CountFrame, muxVars
<1>11. CASE AddRow \/ PutRow \/ NoteDrop
  <2>1. feeder \in {"row", "put", "note"} /\ feeder' \in {"put", "idle"}
    BY <1>11 DEF AddRow, PutRow, NoteDrop
  <2> QED BY <1>11, <2>1 DEF AddRow, PutRow, NoteDrop, sessionVars, muxVars
<1>12. CASE MuxFrame
  <2>1. mux = "run" /\ pushed > 0
    BY <1>0, <1>12 DEF MuxFrame
  <2> QED BY <1>12, <2>1 DEF MuxFrame, sessionVars, feedVars
<1>13. CASE MuxEos \/ MuxFails
  BY <1>13 DEF MuxEos, MuxFails, sessionVars, feedVars
<1>14. CASE BuildFails
  BY <1>14 DEF BuildFails, sessionVars, feedVars
<1>15. CASE BusDispatch
  <2>1. error # "none" => error' # "none"
    BY <1>15 DEF BusDispatch, RecordError
  <2> QED BY <1>15, <2>1 DEF BusDispatch, feedVars
<1>16. CASE DrainEnds
  <2>1. error # "none" => error' # "none"
    BY <1>16 DEF DrainEnds
  <2> QED BY <1>16, <2>1 DEF DrainEnds, muxVars, feedVars
<1>17. CASE Teardown
  <2>1. mux' # "run"
    BY <1>17 DEF Teardown
  <2> QED BY <1>17, <2>1 DEF Teardown, feedVars
<1>18. [Next]_vars =>
         \/ UNCHANGED <<encoded, muxed, firstSync, mux, pushed, feeder, curSync, awaitKey, error>>
         \/ \E sync \in BOOLEAN : PushSkipped(sync) \/ PushFull(sync) \/ PushAdmitted(sync)
         \/ HeaderWritten \/ HeaderFails \/ PushBuffer \/ PushCancelled \/ PushRefused
         \/ CountFrame \/ AddRow \/ PutRow \/ NoteDrop \/ MuxFrame \/ MuxEos \/ MuxFails
         \/ BuildFails \/ BusDispatch \/ DrainEnds \/ Teardown
  BY DEF vars, sessionVars, muxVars, feedVars, Next, Source, FeederStep, Muxer, MainStep,
         StartSession, BuildPipeline, ErrorReported, BeginClose, EarlyEos, JoinPush, StopSource,
         FinishClose, StopSidecar, ReapWriter, Summarize, CloseRequested, Writer, Finished
<1> QED BY <1>1, <1>2, <1>3, <1>4, <1>5, <1>6, <1>7, <1>8, <1>9, <1>10, <1>11, <1>12, <1>13,
           <1>14, <1>15, <1>16, <1>17, <1>18

(* Closed files stay on disk: one more on the bus.                         *)
LEMMA PostsClosed ==
  ASSUME bus \in Seq(Message), NEW m \in Message, NEW n \in Nat,
         \A i \in 1..Len(bus) : bus[i].type = "closed" => bus[i].loc \in 1..n,
         m.type = "closed" => m.loc \in 1..n
  PROVE  /\ Append(bus, m) \in Seq(Message)
         /\ \A i \in 1..Len(Append(bus, m)) :
              Append(bus, m)[i].type = "closed" => Append(bus, m)[i].loc \in 1..n
<1>1. /\ Append(bus, m) \in Seq(Message) /\ Len(Append(bus, m)) = Len(bus) + 1
      /\ Append(bus, m)[Len(bus) + 1] = m
      /\ \A i \in 1..Len(bus) : Append(bus, m)[i] = bus[i]
  OBVIOUS
<1>2. \A i \in 1..Len(Append(bus, m)) : i \in 1..Len(bus) \/ i = Len(bus) + 1
  BY <1>1
<1> QED BY <1>1, <1>2

(* The segment list never names what is not on disk, and in the end names  *)
(* all that is.                                                            *)
LEMMA SegmentStep ==
  ASSUME IInv, SegmentInv, [Next]_vars
  PROVE  SegmentInv'
<1> USE DEF SegmentInv
<1>0. /\ pushed \in Nat /\ muxed \in Nat /\ files \in Nat /\ bus \in Seq(Message)
      /\ listed \in SUBSET Nat /\ (eos => pushed > 0)
  BY Typing
<1>1. CASE UNCHANGED <<muxed, files, bus, listed, attest>>
  BY <1>1
<1>2. CASE MuxFrame
  <2>1. mux = "run" /\ ~attest.made /\ UNCHANGED <<listed, attest>>
    BY <1>2 DEF MuxFrame, sessionVars, IInv, DrainInv
  <2>2. CASE files > 0 /\ UNCHANGED <<files, bus>>
    BY <2>1, <2>2
  <2>3. CASE /\ files' = files + 1
             /\ bus' = IF files = 0 THEN bus ELSE Append(bus, Post("closed", files))
    <3>1. listed \subseteq 1..files' /\ files' > 0
      BY <1>0, <2>3
    <3>2. \A i \in 1..Len(bus) : bus[i].type = "closed" => bus[i].loc \in 1..files'
      BY <1>0, <2>3
    <3>3. Post("closed", files) \in Message /\ Post("closed", files).loc = files
      BY <1>0 DEF Post, Message
    <3>4. files # 0 => files \in 1..files'
      BY <1>0, <2>3
    <3>5. \A i \in 1..Len(bus') : bus'[i].type = "closed" => bus'[i].loc \in 1..files'
      <4>1. CASE files = 0
        BY <2>3, <3>2, <4>1
      <4>2. CASE files # 0
        BY <1>0, <2>3, <3>2, <3>3, <3>4, <4>2, PostsClosed
      <4> QED BY <4>1, <4>2
    <3> QED BY <2>1, <3>1, <3>5
  <2> QED BY <1>2, <2>2, <2>3 DEF MuxFrame
<1>3. CASE MuxEos
  <2>1. files \in 1..files
    BY <1>0, <1>3 DEF MuxEos
  <2>2. Post("closed", files) \in Message /\ Post("closed", files).loc = files
    BY <1>0 DEF Post, Message
  <2>3. Post("EOS", 0) \in Message /\ Post("EOS", 0).type # "closed"
    BY DEF Post, Message
  <2> DEFINE b == Append(bus, Post("closed", files))
  <2>4. /\ b \in Seq(Message)
        /\ \A i \in 1..Len(b) : b[i].type = "closed" => b[i].loc \in 1..files
    BY <1>0, <2>1, <2>2, PostsClosed
  <2>5. bus' = Append(b, Post("EOS", 0)) /\ UNCHANGED <<muxed, files, listed, attest>>
    BY <1>3 DEF MuxEos, sessionVars
  <2> HIDE DEF b
  <2>6. /\ Len(Append(b, Post("EOS", 0))) = Len(b) + 1
        /\ Append(b, Post("EOS", 0))[Len(b) + 1] = Post("EOS", 0)
        /\ \A i \in 1..Len(b) : Append(b, Post("EOS", 0))[i] = b[i]
    BY <2>3, <2>4
  <2>7. \A i \in 1..(Len(b) + 1) : i \in 1..Len(b) \/ i = Len(b) + 1
    BY <2>4
  <2>8. \A i \in 1..Len(bus') : bus'[i].type = "closed" => bus'[i].loc \in 1..files
    BY <2>3, <2>4, <2>5, <2>6, <2>7
  <2> QED BY <2>5, <2>8
<1>4. CASE MuxFails
  <2>1. Post("ERROR", 0) \in Message /\ Post("ERROR", 0).type # "closed"
    BY DEF Post, Message
  <2>2. UNCHANGED <<muxed, files, listed, attest>> /\ bus' = Append(bus, Post("ERROR", 0))
    BY <1>4 DEF MuxFails, sessionVars
  <2> QED BY <1>0, <2>1, <2>2, PostsClosed
<1>5. CASE BusDispatch
  <2>1. UNCHANGED <<muxed, files, attest>> /\ bus # <<>> /\ bus' = Tail(bus)
    BY <1>5 DEF BusDispatch
  <2>2. Len(bus) >= 1 /\ Head(bus) = bus[1]
    BY <1>0, <2>1
  <2>3. listed' \subseteq 1..files
    <3>1. Head(bus).type = "closed" => Head(bus).loc \in 1..files
      BY <2>2
    <3>2. listed' = IF Head(bus).type = "closed" THEN listed \cup {Head(bus).loc} ELSE listed
      BY <1>5 DEF BusDispatch
    <3> QED BY <3>1, <3>2
  <2>4. \A i \in 1..Len(bus') : i + 1 \in 1..Len(bus) /\ bus'[i] = bus[i + 1]
    BY <1>0, <2>1
  <2> QED BY <2>1, <2>3, <2>4
<1>6. CASE FinishClose
  <2>1. UNCHANGED <<muxed, files, bus, listed>> /\ ~attest.made
    BY <1>6 DEF FinishClose, Go, muxVars, IInv, AttestInv
  <2>2. attest'.made = attest.made
    BY <1>6 DEF FinishClose, IInv, TypeOK, SessionTypeOK
  <2> QED BY <2>1, <2>2
<1>7. CASE Teardown
  <2>1. bus' = <<>> /\ listed' = 1..files /\ attest'.segments = listed' /\ UNCHANGED <<muxed, files>>
    BY <1>7 DEF Teardown
  <2> QED BY <2>1
<1>8. [Next]_vars =>
         \/ UNCHANGED <<muxed, files, bus, listed, attest>>
         \/ MuxFrame \/ MuxEos \/ MuxFails \/ BusDispatch \/ FinishClose \/ Teardown
  BY DEF vars, sessionVars, muxVars, Next, Source, PushSkipped, PushFull, PushAdmitted, FeederStep,
         HeaderWritten, HeaderFails, PushBuffer, PushCancelled, PushRefused, CountFrame, AddRow,
         PutRow, NoteDrop, Muxer, MainStep, StartSession, BuildPipeline, BuildFails, ErrorReported,
         BeginClose, EarlyEos, JoinPush, StopSource, DrainEnds, StopSidecar, ReapWriter, Summarize,
         CloseRequested, Writer, Finished
<1> QED BY <1>1, <1>2, <1>3, <1>4, <1>5, <1>6, <1>7, <1>8

(* The order of the two threads: the feeder is inside only while the       *)
(* session is published, and the writer lives until it is joined.          *)
LEMMA OrderStep ==
  ASSUME IInv, OrderInv, [Next]_vars
  PROVE  OrderInv'
<1> USE DEF OrderInv, Published
<1>0. main \in {"new", "build", "loop"} => why = "none"
  BY DEF IInv, FeedInv
<1>1. CASE UNCHANGED <<feeder, main, why, started, attest>>
  BY <1>1
<1>2. ASSUME NEW sync \in BOOLEAN, PushSkipped(sync) \/ PushFull(sync) \/ PushAdmitted(sync)
      PROVE  OrderInv'
  <2>1. Published /\ UNCHANGED <<main, why, started, attest>>
    BY <1>2 DEF PushSkipped, PushFull, PushAdmitted, Offer, mainVars, sidecarVars, sessionVars
  <2> QED BY <2>1
<1>3. CASE FeederStep
  <2>1. feeder # "idle" /\ UNCHANGED <<main, why, started, attest>>
    BY <1>3 DEF FeederStep, HeaderWritten, HeaderFails, PushBuffer, PushCancelled, PushRefused,
                CountFrame, AddRow, PutRow, NoteDrop, WriteHeader, EnqueueRow, mainVars, sidecarVars,
                sessionVars
  <2> QED BY <2>1
<1>4. CASE StartSession
  BY <1>4 DEF StartSession, Go, StartWriter, feedVars, sessionVars
<1>5. CASE BuildPipeline \/ BuildFails
  BY <1>0, <1>5 DEF BuildPipeline, BuildFails, Go, feedVars, sidecarVars, sessionVars
<1>6. ASSUME NEW who \in {"operator", "stop", "error"}, BeginClose(who) PROVE OrderInv'
  BY <1>6 DEF BeginClose, Go, feedVars, sidecarVars
<1>7. CASE EarlyEos \/ JoinPush \/ StopSource \/ DrainEnds
  <2>1. main' \in {"join", "source", "finish", "teardown"} /\ main \in {"early", "join", "source", "drain"}
    BY <1>7 DEF EarlyEos, JoinPush, StopSource, DrainEnds, Go
  <2>2. UNCHANGED <<feeder, why, started, attest>>
    BY <1>7 DEF EarlyEos, JoinPush, StopSource, DrainEnds, feedVars, sidecarVars, sessionVars
  <2> QED BY <2>1, <2>2
<1>8. CASE FinishClose
  <2>1. main = "finish" /\ main' \in {"drain", "teardown"} /\ UNCHANGED <<feeder, why, started>>
    BY <1>8 DEF FinishClose, Go, feedVars, sidecarVars
  <2> QED BY <2>1
<1>9. CASE Teardown
  <2>1. attest'.made /\ main = "teardown" /\ main' = "sentinel" /\ UNCHANGED <<feeder, why, started>>
    BY <1>9 DEF Teardown, Go, feedVars, sidecarVars
  <2> QED BY <2>1
<1>10. CASE StopSidecar
  <2>1. main = "sentinel" /\ main' = "reap" /\ UNCHANGED <<feeder, why, attest>>
    BY <1>10 DEF StopSidecar, Go, feedVars, sessionVars
  <2>2. started' = started
    BY <1>10 DEF StopSidecar, PutSentinel, GiveUpSentinel, sidecarVars
  <2> QED BY <2>1, <2>2
<1>11. CASE ReapWriter
  <2>1. main = "reap" /\ main' = IF why = "none" THEN "refused" ELSE "summary"
    BY <1>11 DEF ReapWriter, Go
  <2>2. UNCHANGED <<feeder, why, attest>>
    BY <1>11 DEF ReapWriter, feedVars, sessionVars
  <2> QED BY <2>1, <2>2
<1>12. CASE Summarize
  <2>1. main = "summary" /\ main' = "done" /\ UNCHANGED <<feeder, why, attest>>
    BY <1>12 DEF Summarize, Go, feedVars, sessionVars
  <2>2. started' = started
    BY <1>12 DEF Summarize, WriteSummary, LoseSummary, sidecarVars
  <2> QED BY <2>1, <2>2
<1>13. CASE Writer
  <2>1. started' = started
    BY <1>13 DEF Writer, WriterStep, OpenCsv, WriteRow, TakeSentinel, WriterFails, DrainQueue
  <2> QED BY <1>13, <2>1 DEF Writer, feedVars, mainVars, sessionVars
<1>14. [Next]_vars =>
         \/ UNCHANGED <<feeder, main, why, started, attest>>
         \/ \E sync \in BOOLEAN : PushSkipped(sync) \/ PushFull(sync) \/ PushAdmitted(sync)
         \/ FeederStep \/ StartSession \/ BuildPipeline \/ BuildFails
         \/ \E who \in {"operator", "stop", "error"} : BeginClose(who)
         \/ EarlyEos \/ JoinPush \/ StopSource \/ FinishClose \/ DrainEnds \/ Teardown
         \/ StopSidecar \/ ReapWriter \/ Summarize \/ Writer
  BY DEF vars, sessionVars, muxVars, feedVars, mainVars, sidecarVars, Next, Source, Muxer, MuxFrame,
         MuxEos, MuxFails, MainStep, BusDispatch, ErrorReported, CloseRequested, Finished
<1> QED BY <1>1, <1>2, <1>3, <1>4, <1>5, <1>6, <1>7, <1>8, <1>9, <1>10, <1>11, <1>12, <1>13, <1>14

(* Nothing is added once the sentinel may be there.                        *)
LEMMA SealedLock ==
  ASSUME IInv, OrderInv, Sealed
  PROVE  ~LockHeld
<1>1. CASE why = "none"
  BY <1>1 DEF OrderInv, Published, Sealed, LockHeld, LockedPoints
<1>2. CASE why # "none"
  <2>1. Joined
    BY <1>2 DEF OrderInv, Sealed, Joined
  <2> QED BY <2>1 DEF IInv, FeedInv
<1> QED BY <1>1, <1>2

(* A frame that is counted now finds the writer there.                     *)
LEMMA RowsAreTaken ==
  ASSUME IInv, OrderInv, feeder = "row"
  PROVE  started
<1>1. ~closed /\ LockHeld
  BY Typing DEF LockHeld, LockedPoints
<1>2. Published /\ ~Sealed
  BY <1>1, SealedLock DEF OrderInv
<1> QED BY <1>2 DEF OrderInv, Published, Sealed, IInv, FeedInv

(* Before stop() has sent the sentinel there is none, and the main thread  *)
(* stays behind it.                                                        *)
LEMMA SealStays ==
  ASSUME [Next]_vars, Sealed
  PROVE  Sealed'
<1> USE DEF Sealed
<1>1. CASE UNCHANGED main
  BY <1>1
<1>2. CASE MainStep \/ CloseRequested
  BY <1>2 DEF MainStep, StartSession, BuildPipeline, BuildFails, BusDispatch, ErrorReported, BeginClose,
              EarlyEos, JoinPush, StopSource, FinishClose, DrainEnds, Teardown, StopSidecar, ReapWriter,
              Summarize, CloseRequested, Go
<1>3. [Next]_vars => UNCHANGED main \/ MainStep \/ CloseRequested
  BY DEF vars, mainVars, Next, Source, PushSkipped, PushFull, PushAdmitted, FeederStep, HeaderWritten,
         HeaderFails, PushBuffer, PushCancelled, PushRefused, CountFrame, AddRow, PutRow, NoteDrop,
         Muxer, MuxFrame, MuxEos, MuxFails, Writer, Finished
<1> QED BY <1>1, <1>2, <1>3

(* The steps that count nothing and leave the queue alone.                 *)
LEMMA RowFrame ==
  ASSUME RowInv, UNCHANGED <<writer, failed, sentinel, frames, rowq, written, overflow, flushed>>,
         Unrowed' = Unrowed, Sealed => Sealed'
  PROVE  RowInv'
BY DEF RowInv

(* No counted frame gets lost on its way into the CSV unnoticed.           *)
LEMMA RowStep ==
  ASSUME IInv, OrderInv, RowInv, [Next]_vars
  PROVE  RowInv'
<1>0. /\ frames \in Nat /\ rowq \in Nat /\ written \in Nat /\ overflow \in Nat /\ Unrowed \in Nat
      /\ Sealed => Sealed'
  BY SealStays, SidecarAssumption DEF IInv, TypeOK, SessionTypeOK, SidecarTypeOK, Unrowed
<1>1. CASE UNCHANGED <<feeder, frames, sidecarVars>>
  BY <1>0, <1>1, RowFrame DEF Unrowed, sidecarVars
<1>2. ASSUME NEW sync \in BOOLEAN, PushFull(sync) \/ PushAdmitted(sync) PROVE RowInv'
  <2>1. feeder = "idle" /\ feeder' \in {"note", "header", "push"} /\ UNCHANGED <<frames, sidecarVars>>
    BY <1>2 DEF PushFull, PushAdmitted, Offer
  <2> QED BY <1>0, <2>1, RowFrame DEF Unrowed, sidecarVars
<1>3. CASE HeaderWritten \/ HeaderFails
  <2>1. feeder = "header" /\ feeder' \in {"push", "note"}
    BY <1>3 DEF HeaderWritten, HeaderFails
  <2>2. UNCHANGED <<writer, failed, sentinel, frames, rowq, written, overflow, flushed>>
    BY <1>3 DEF HeaderWritten, HeaderFails, WriteHeader, sidecarVars
  <2> QED BY <1>0, <2>1, <2>2, RowFrame DEF Unrowed
<1>4. CASE PushBuffer \/ PushCancelled \/ PushRefused \/ NoteDrop
  <2>1. feeder \notin {"row", "put"} /\ feeder' \notin {"row", "put"}
    BY <1>4 DEF PushBuffer, PushCancelled, PushRefused, NoteDrop
  <2>2. UNCHANGED <<frames, sidecarVars>>
    BY <1>4 DEF PushBuffer, PushCancelled, PushRefused, NoteDrop, sessionVars
  <2> QED BY <1>0, <2>1, <2>2, RowFrame DEF Unrowed, sidecarVars
<1>5. CASE CountFrame
  <2>1. ~Sealed
    BY <1>5, SealedLock DEF CountFrame, LockHeld, LockedPoints
  <2>2. Unrowed = 0 /\ Unrowed' = 1 /\ frames' = frames + 1
    BY <1>5 DEF CountFrame, Unrowed
  <2>3. UNCHANGED <<writer, failed, sentinel, rowq, written, overflow, flushed>>
    BY <1>5 DEF CountFrame, sidecarVars
  <2>4. ~failed => frames' = Unrowed' + rowq + written + overflow
    BY <1>0, <2>2 DEF RowInv
  <2> QED BY <1>0, <2>1, <2>3, <2>4 DEF RowInv
<1>6. CASE AddRow
  <2>1. ~Sealed /\ started
    BY <1>6, SealedLock, RowsAreTaken DEF AddRow, LockHeld, LockedPoints
  <2>2. ~failed => Unrowed' = Unrowed
    BY <1>6, <2>1 DEF AddRow, WriterAccepts, Unrowed
  <2>3. UNCHANGED <<writer, failed, sentinel, frames, rowq, written, overflow, flushed>>
    BY <1>6 DEF AddRow, sidecarVars, sessionVars
  <2>4. ~failed => frames = Unrowed' + rowq + written + overflow
    BY <2>2 DEF RowInv
  <2> QED BY <1>0, <2>1, <2>3, <2>4 DEF RowInv
<1>7. CASE PutRow
  <2>1. ~Sealed
    BY <1>7, SealedLock DEF PutRow, LockHeld, LockedPoints
  <2>2. Unrowed = 1 /\ Unrowed' = 0
    BY <1>7 DEF PutRow, Unrowed
  <2>3. UNCHANGED <<writer, failed, sentinel, frames, written, flushed>>
    BY <1>7 DEF PutRow, EnqueueRow, sessionVars
  <2>4. ~failed => frames = 1 + rowq + written + overflow
    BY <2>2 DEF RowInv
  <2>5. ~failed => frames = 0 + rowq' + written + overflow'
    <3>1. CASE overflow' = overflow + 1 /\ rowq' = rowq
      BY <1>0, <2>4, <3>1
    <3>2. CASE rowq' = rowq + 1 /\ overflow' = overflow
      BY <1>0, <2>4, <3>2
    <3> QED BY <1>7, <3>1, <3>2 DEF PutRow, EnqueueRow
  <2>6. ~failed => frames = Unrowed' + rowq' + written + overflow'
    BY <2>2, <2>5
  <2> QED BY <1>0, <2>1, <2>3, <2>6 DEF RowInv
<1>8. CASE StartSession
  <2>1. main = "new" /\ writer' = "open"
    BY <1>8 DEF StartSession, Go, StartWriter
  <2>2. UNCHANGED <<failed, sentinel, frames, rowq, written, overflow, flushed, feeder>>
    BY <1>8 DEF StartSession, StartWriter, sessionVars, feedVars
  <2> QED BY <1>0, <2>1, <2>2 DEF RowInv, Unrowed
<1>9. CASE StopSidecar
  <2>1. Sealed' /\ UNCHANGED <<writer, failed, frames, rowq, written, overflow, flushed, feeder>>
    BY <1>9 DEF StopSidecar, Go, Sealed, PutSentinel, GiveUpSentinel, sidecarVars, sessionVars, feedVars
  <2> QED BY <2>1 DEF RowInv, Unrowed
<1>10. CASE ReapWriter \/ Summarize
  <2>1. UNCHANGED <<writer, failed, sentinel, frames, rowq, written, overflow, flushed, feeder>>
    BY <1>10 DEF ReapWriter, Summarize, JoinWriter, WriteSummary, LoseSummary, sidecarVars, sessionVars,
                 feedVars
  <2> QED BY <1>0, <2>1, RowFrame DEF Unrowed
<1>11. CASE Writer
  <2>0. UNCHANGED <<frames, feeder, main>>
    BY <1>11 DEF Writer, sessionVars, feedVars, mainVars
  <2>1. CASE OpenCsv
    BY <2>0, <2>1 DEF OpenCsv, RowInv, Unrowed, Sealed
  <2>2. CASE WriteRow
    <3>1. /\ writer = "run" /\ writer' = "run" /\ rowq > 0 /\ rowq' = rowq - 1 /\ written' = written + 1
          /\ UNCHANGED <<sentinel, failed, overflow>>
      BY <2>2 DEF WriteRow
    <3>2. Unrowed' = Unrowed /\ Sealed' = Sealed
      BY <2>0 DEF Unrowed, Sealed
    <3>3. ~failed => frames = Unrowed + rowq + written + overflow
      BY DEF RowInv
    <3>4. rowq' + written' = rowq + written
      BY <1>0, <3>1
    <3>5. ~failed => frames = Unrowed + rowq' + written' + overflow
      BY <1>0, <3>1, <3>3, <3>4
    <3>6. ~failed => frames = Unrowed' + rowq' + written' + overflow
      BY <3>2, <3>5
    <3> QED BY <2>0, <3>1, <3>2, <3>6 DEF RowInv
  <2>3. CASE TakeSentinel
    <3>1. /\ rowq = 0 /\ sentinel /\ ~sentinel' /\ flushed' = written /\ writer' = "done"
          /\ UNCHANGED <<rowq, failed, overflow, written>>
      BY <2>3 DEF TakeSentinel
    <3>2. Unrowed' = Unrowed /\ Sealed' = Sealed
      BY <2>0 DEF Unrowed, Sealed
    <3> QED BY <2>0, <3>1, <3>2 DEF RowInv
  <2>4. CASE WriterFails
    <3>1. failed' = TRUE /\ (sentinel' => sentinel)
      BY <2>4 DEF WriterFails
    <3> QED BY <1>0, <3>1 DEF RowInv
  <2>5. CASE DrainQueue
    <3>1. failed' /\ ~sentinel' /\ writer' = "done"
      BY <2>5 DEF DrainQueue, RowInv
    <3> QED BY <3>1 DEF RowInv
  <2> QED BY <1>11, <2>1, <2>2, <2>3, <2>4, <2>5 DEF Writer, WriterStep
<1>12. [Next]_vars =>
         \/ UNCHANGED <<feeder, frames, sidecarVars>>
         \/ \E sync \in BOOLEAN : PushFull(sync) \/ PushAdmitted(sync)
         \/ HeaderWritten \/ HeaderFails \/ PushBuffer \/ PushCancelled \/ PushRefused \/ NoteDrop
         \/ CountFrame \/ AddRow \/ PutRow \/ StartSession \/ StopSidecar \/ ReapWriter \/ Summarize
         \/ Writer
  BY DEF vars, sessionVars, feedVars, Next, Source, PushSkipped, FeederStep, Muxer, MuxFrame, MuxEos,
         MuxFails, MainStep, BuildPipeline, BuildFails, BusDispatch, ErrorReported, BeginClose, EarlyEos,
         JoinPush, StopSource, FinishClose, DrainEnds, Teardown, CloseRequested, Finished
<1> QED BY <1>1, <1>2, <1>3, <1>4, <1>5, <1>6, <1>7, <1>8, <1>9, <1>10, <1>11, <1>12

(* The summary tells whether the writer died, if that can be known.        *)
LEMMA SummaryStep ==
  ASSUME IInv, OrderInv, RowInv, SummaryInv, [Next]_vars
  PROVE  SummaryInv'
<1> USE DEF SummaryInv
<1>1. CASE UNCHANGED <<main, late, writer, json, failed>>
  BY <1>1
<1>2. CASE HeaderWritten
  <2>1. UNCHANGED <<main, late, writer, failed, json.summary, json.csvFailed>>
    BY <1>2 DEF HeaderWritten, WriteHeader, mainVars, IInv, TypeOK, SidecarTypeOK, JsonFile
  <2> QED BY <2>1
<1>3. CASE PutRow
  BY <1>3 DEF PutRow, EnqueueRow, mainVars
<1>4. CASE StartSession
  BY <1>4 DEF StartSession, Go, StartWriter
<1>5. CASE BuildPipeline \/ BuildFails \/ EarlyEos \/ JoinPush \/ StopSource \/ FinishClose \/ DrainEnds \/ Teardown
  <2>1. main \notin {"summary", "done"} /\ main' \notin {"summary", "done"} /\ UNCHANGED json
    BY <1>5 DEF BuildPipeline, BuildFails, EarlyEos, JoinPush, StopSource, FinishClose, DrainEnds,
                Teardown, Go, sidecarVars
  <2> QED BY <2>1
<1>6. ASSUME NEW who \in {"operator", "stop", "error"}, BeginClose(who) PROVE SummaryInv'
  BY <1>6 DEF BeginClose, Go, sidecarVars
<1>7. CASE StopSidecar
  <2>1. main = "sentinel" /\ main' = "reap" /\ json' = json
    BY <1>7 DEF StopSidecar, Go, PutSentinel, GiveUpSentinel, sidecarVars
  <2> QED BY <2>1
<1>8. CASE ReapWriter
  <2>1. main = "reap" /\ main' \in {"refused", "summary"} /\ json' = json
    BY <1>8 DEF ReapWriter, Go, JoinWriter
  <2>2. ~late' => writer' = "done"
    BY <1>8 DEF ReapWriter, JoinWriter
  <2> QED BY <2>1, <2>2
<1>9. CASE Summarize
  <2>1. main = "summary" /\ main' = "done" /\ late' = late
    BY <1>9 DEF Summarize, Go
  <2>2. CASE WriteSummary
    <3>1. json'.csvFailed = failed /\ UNCHANGED <<writer, failed>>
      BY <2>2 DEF WriteSummary, IInv, TypeOK, SidecarTypeOK, JsonFile
    <3> QED BY <2>1, <3>1
  <2>3. CASE LoseSummary
    BY <2>1, <2>3 DEF LoseSummary, sidecarVars
  <2> QED BY <1>9, <2>2, <2>3 DEF Summarize
<1>10. CASE Writer
  <2>1. UNCHANGED <<main, late, json>> /\ writer # "done"
    BY <1>10 DEF Writer, mainVars, WriterStep, OpenCsv, WriteRow, TakeSentinel, WriterFails, DrainQueue
  <2> QED BY <2>1
<1>11. [Next]_vars =>
         \/ UNCHANGED <<main, late, writer, json, failed>>
         \/ HeaderWritten \/ PutRow \/ StartSession \/ BuildPipeline \/ BuildFails
         \/ \E who \in {"operator", "stop", "error"} : BeginClose(who)
         \/ EarlyEos \/ JoinPush \/ StopSource \/ FinishClose \/ DrainEnds \/ Teardown
         \/ StopSidecar \/ ReapWriter \/ Summarize \/ Writer
  BY DEF vars, mainVars, sidecarVars, Next, Source, PushSkipped, PushFull, PushAdmitted, FeederStep,
         HeaderFails, PushBuffer, PushCancelled, PushRefused, CountFrame, AddRow, NoteDrop, Muxer,
         MuxFrame, MuxEos, MuxFails, MainStep, BusDispatch, ErrorReported, CloseRequested, Finished
<1> QED BY <1>1, <1>2, <1>3, <1>4, <1>5, <1>6, <1>7, <1>8, <1>9, <1>10, <1>11

-----------------------------------------------------------------------------
(* The theorems.                                                           *)

(* A session that was just opened satisfies the invariant.                 *)
LEMMA InitIInv == Init => IInv
<1> SUFFICES ASSUME Init PROVE IInv
  OBVIOUS
<1> USE SidecarAssumption DEF Init
<1>1. SidecarTypeOK /\ RowQueueInv
  <2>1. 0 \in 0..QueueMax
    OBVIOUS
  <2> QED BY <2>1 DEF SidecarInit, SidecarTypeOK, RowQueueInv, WriterState, JsonFile
<1>2. SessionTypeOK
  BY DEF SessionTypeOK, ErrorKind, Unattested
<1>3. MuxTypeOK
  <2>1. <<>> \in Seq(Message)
    OBVIOUS
  <2> QED BY <2>1 DEF MuxTypeOK
<1>4. ThreadsTypeOK
  BY DEF ThreadsTypeOK, FeederPoint, MainPoint
<1>5. FeedInv
  BY DEF FeedInv, LockHeld, LockedPoints, Joined
<1>6. AttestInv
  BY DEF AttestInv, Unattested
<1>7. DrainInv
  BY DEF DrainInv, OnBus, Unattested
<1> QED BY <1>1, <1>2, <1>3, <1>4, <1>5, <1>6, <1>7 DEF IInv, TypeOK

(* The invariant is inductive.                                             *)
LEMMA NextIInv == IInv /\ [Next]_vars => IInv'
BY TypeStep, FeedStep, AttestStep, DrainStep DEF IInv

(* Every reachable state satisfies the invariant.                          *)
LEMMA Invariance == Spec => []IInv
BY InitIInv, NextIInv, PTL DEF Spec

(* Each variable keeps its type, and the row queue never grows past the    *)
(* maxsize sidecar.py gives it, whatever the bounds are.                   *)
THEOREM TypeCorrect == Spec => []TypeOK
<1>1. IInv => TypeOK
  BY DEF IInv
<1> QED BY <1>1, Invariance, PTL

(* The frame count a session attests is the number of buffers its muxer    *)
(* was given, for any number of frames and any queue: the close joins the  *)
(* push in flight before it reads the count (session.py:207-212, 250).     *)
THEOREM AttestedFramesAreExact == Spec => []AttestedFramesExact
<1>1. IInv => AttestedFramesExact
  <2> SUFFICES ASSUME IInv, attest.made PROVE attest.frames = pushed
    BY DEF AttestedFramesExact
  <2>1. attest.frames = frames /\ closed
    BY DEF IInv, AttestInv
  <2>2. feeder # "count"
    BY <2>1 DEF IInv, FeedInv, LockHeld, LockedPoints
  <2> QED BY <2>1, <2>2 DEF IInv, FeedInv
<1> QED BY <1>1, Invariance, PTL

(* End-of-stream never reaches a muxer that was given no frame, although   *)
(* the early EOS reads `frames` without the lock (session.py:203-212).     *)
THEOREM NoEosBeforeTheFirstFrame == Spec => []NoEosWithoutFrames
<1>1. IInv => NoEosWithoutFrames
  BY DEF IInv, FeedInv, NoEosWithoutFrames, TypeOK, SessionTypeOK, MuxTypeOK
<1> QED BY <1>1, Invariance, PTL

(* A recording that is not attested as truncated is complete and           *)
(* finalized, whatever failed, stalled or timed out (session.py:218-237).  *)
THEOREM VerdictIsSound == Spec => []CompleteUnlessTruncated
<1>1. IInv => CompleteUnlessTruncated
  BY DEF IInv, DrainInv, CompleteUnlessTruncated
<1> QED BY <1>1, Invariance, PTL

(* What a session attests of its frames is exact, for any number of frames *)
(* and files and whatever raced its close (session.py:193-264).            *)
THEOREM AttestationHolds == Spec => []AttestationIsExact
<1>1. AttestedFramesExact /\ NoEosWithoutFrames /\ CompleteUnlessTruncated => AttestationIsExact
  BY DEF AttestationIsExact
<1> QED
  BY <1>1, AttestedFramesAreExact, NoEosBeforeTheFirstFrame, VerdictIsSound, PTL

(* A session that was just opened has no files, no rows and no summary.    *)
LEMMA InitFiles == Init => FilesInv
<1> SUFFICES ASSUME Init PROVE FilesInv
  OBVIOUS
<1> USE DEF Init
<1>1. SyncInv
  BY DEF SyncInv
<1>2. SegmentInv
  <2>1. Len(<<>>) = 0 /\ ~attest.made
    BY DEF Unattested
  <2> QED BY <2>1 DEF SegmentInv
<1>3. OrderInv /\ RowInv /\ SummaryInv
  BY DEF OrderInv, RowInv, SummaryInv, SidecarInit, Unrowed
<1> QED BY <1>1, <1>2, <1>3 DEF FilesInv

(* FilesInv is inductive relative to IInv.                                 *)
LEMMA NextFiles == IInv /\ FilesInv /\ [Next]_vars => FilesInv'
BY SyncStep, SegmentStep, OrderStep, RowStep, SummaryStep DEF FilesInv

(* For any number of frames, files and rows: the rows of a closed session  *)
(* are its frames unless its JSON, or a writer left behind, says otherwise; *)
(* its segments are the files on disk; a stream-copy file begins at a sync  *)
(* point (session.py:152-264).                                             *)
THEOREM FilesFitTogether == Spec => []FilesAreHonest
<1>1. Spec => []FilesInv
  BY InitFiles, NextFiles, Invariance, PTL DEF Spec
<1>2. IInv /\ FilesInv => FilesAreHonest
  <2> SUFFICES ASSUME IInv, FilesInv PROVE FilesAreHonest
    OBVIOUS
  <2>1. StartsAtSyncPoint /\ SegmentsMatchDisk
    BY DEF StartsAtSyncPoint, SegmentsMatchDisk, FilesInv, SyncInv, SegmentInv
  <2>2. RowsAccountedFor
    <3> SUFFICES ASSUME json.summary, ~json.csvFailed, ~late PROVE flushed + overflow = attest.frames
      BY DEF RowsAccountedFor
    <3>1. ~failed /\ writer = "done" /\ attest.made
      BY DEF FilesInv, SummaryInv, OrderInv
    <3>2. Sealed /\ rowq = 0 /\ flushed = written /\ frames = Unrowed + rowq + written + overflow
      BY <3>1 DEF FilesInv, RowInv
    <3>3. Unrowed = 0
      BY <3>2, SealedLock DEF FilesInv, Unrowed, LockHeld, LockedPoints
    <3>4. attest.frames = frames /\ written \in Nat /\ overflow \in Nat
      BY <3>1 DEF IInv, AttestInv, TypeOK, SidecarTypeOK
    <3> QED BY <3>2, <3>3, <3>4
  <2> QED BY <2>1, <2>2 DEF FilesAreHonest
<1> QED BY <1>1, <1>2, Invariance, PTL

-------------------------------------------------------------------------------
(* The safety part of the refinement: every step of the threads is a step  *)
(* of the contract, or none.                                               *)
LEMMA InitRefines == Init => Contract!Init
BY DEF Init, Contract!Init, Unattested

LEMMA StepRefines ==
  ASSUME IInv, IInv', [Next]_vars
  PROVE  [Contract!Next]_(Contract!contractVars)
<1> USE DEF Contract!Next, Contract!contractVars
<1>1. attest.made => closed /\ main \in {"sentinel", "reap", "summary", "done"}
      /\ mux \in {"eos", "null"}
  BY DEF IInv, AttestInv, DrainInv
<1>2. CASE UNCHANGED <<pushed, muxed, closed, attest>>
  BY <1>2
<1>3. CASE PushBuffer
  <2>1. ~closed /\ ~attest.made
    BY <1>1, <1>3 DEF PushBuffer, IInv, FeedInv, LockHeld, LockedPoints
  <2>2. pushed' = pushed + 1 /\ UNCHANGED <<muxed, closed, attest>>
    BY <1>3 DEF PushBuffer, sessionVars
  <2>3. Contract!Accept
    BY <2>1, <2>2 DEF Contract!Accept
  <2> QED BY <2>3
<1>4. CASE MuxFrame
  <2>1. ~attest.made
    BY <1>1, <1>4 DEF MuxFrame
  <2>2. muxed < pushed /\ muxed' = muxed + 1 /\ UNCHANGED <<pushed, closed, attest>>
    BY <1>4 DEF MuxFrame, sessionVars
  <2>3. Contract!Store
    BY <2>1, <2>2 DEF Contract!Store
  <2> QED BY <2>3
<1>5. CASE JoinPush
  <2>1. ~attest.made /\ closed' = TRUE /\ UNCHANGED <<pushed, muxed, attest>>
    BY <1>1, <1>5 DEF JoinPush, Go
  <2>2. CASE closed
    BY <2>1, <2>2
  <2>3. CASE ~closed
    <3>1. Contract!Close
      BY <2>1, <2>3 DEF Contract!Close
    <3> QED BY <3>1
  <2> QED BY <2>2, <2>3
<1>6. CASE FinishClose
  <2>1. attest' = [attest EXCEPT !.drops = enqueueFailures] /\ UNCHANGED <<pushed, muxed, closed>>
    BY <1>6 DEF FinishClose, muxVars
  <2>2. attest'.made = attest.made /\ attest'.truncated = attest.truncated
    BY <2>1 DEF IInv, TypeOK, SessionTypeOK
  <2> QED BY <2>1, <2>2
<1>7. CASE Teardown
  <2>1. ~attest.made /\ closed
    BY <1>1, <1>7 DEF Teardown, Go, IInv, FeedInv, Joined
  <2>2. attest'.made /\ UNCHANGED <<pushed, muxed, closed>>
    BY <1>7 DEF Teardown
  <2>3. ~attest'.truncated => muxed = pushed
    BY <2>2 DEF IInv, DrainInv
  <2>4. Contract!Finalize
    BY <2>1, <2>2, <2>3 DEF Contract!Finalize
  <2> QED BY <2>4
<1> QED BY <1>2, <1>3, <1>4, <1>5, <1>6, <1>7 DEF
     vars, sessionVars, muxVars, Next, Source, FeederStep, Muxer, MainStep, Writer, Finished,
     PushSkipped, PushFull, PushAdmitted, HeaderWritten, HeaderFails, PushCancelled, PushRefused,
     CountFrame, AddRow, PutRow, NoteDrop, MuxEos, MuxFails, StartSession, BuildPipeline,
     BuildFails, BusDispatch, CloseRequested, ErrorReported, BeginClose, EarlyEos, StopSource,
     DrainEnds, StopSidecar, ReapWriter, Summarize

(* session.py:1-27: for any number of frames, files and rows, each step of *)
(* feeder, muxer, writer and closing thread is a step of RecordingContract *)
(* or leaves it alone (its fairness stays with TLC).                       *)
THEOREM ContractIsKept == Spec => Contract!Init /\ [][Contract!Next]_(Contract!contractVars)
<1>1. Init => Contract!Init
  BY InitRefines
<1>2. IInv /\ IInv' /\ [Next]_vars => [Contract!Next]_(Contract!contractVars)
  BY StepRefines
<1> QED BY <1>1, <1>2, Invariance, PTL DEF Spec
=============================================================================
