---------------------------- MODULE SidecarWriter ----------------------------
(***************************************************************************)
(* cam_driver/sidecar.py: the CSV writer thread of one recording session   *)
(* and the JSON file beside it.                                            *)
(*                                                                         *)
(* A row is a count, not a value: rows enter and leave the queue in order, *)
(* so the CSV is decided by how many there are.  The feed thread calls     *)
(* `add`, the thread that closes the session calls `stop` and              *)
(* `write_summary`, and the actions of those two callers are operators a   *)
(* caller conjoins to its own step (RecordingSession does).  `add` never   *)
(* runs after `stop`: the caller stops the writer once the session is      *)
(* closed, so the sentinel is always the last entry of the queue.          *)
(***************************************************************************)
EXTENDS Naturals

CONSTANTS
  QueueMax,     \* queue.Queue(maxsize=20000)
  FlushEvery    \* the writer flushes each 100th row

ASSUME SidecarAssumption ==
  /\ QueueMax \in Nat \ {0}
  /\ FlushEvery \in Nat \ {0}

VARIABLES
  rowq,         \* rows waiting in _q
  sentinel,     \* _SENTINEL is in _q, behind every row
  started,      \* _started
  failed,       \* _failed: the writer thread died on an OSError
  overflow,     \* _dropped: rows refused by a full queue
  writer,       \* where the writer thread is
  written,      \* rows given to the file object
  flushed,      \* of these, rows known to be in the file
  json          \* the JSON file: what has been written to it

sidecarVars ==
  <<rowq, sentinel, started, failed, overflow, writer, written, flushed, json>>

(* "new": not started; "open": about to open the CSV; "run": in the row    *)
(* loop; "drain": dead, emptying the queue; "done": the thread has ended.  *)
WriterState == {"new", "open", "run", "drain", "done"}

JsonFile == [header : BOOLEAN, summary : BOOLEAN, csvFailed : BOOLEAN]

SidecarTypeOK ==
  /\ rowq \in 0..QueueMax
  /\ sentinel \in BOOLEAN
  /\ started \in BOOLEAN
  /\ failed \in BOOLEAN
  /\ overflow \in Nat
  /\ writer \in WriterState
  /\ written \in Nat
  /\ flushed \in Nat
  /\ json \in JsonFile

SidecarInit ==
  /\ rowq = 0
  /\ sentinel = FALSE
  /\ started = FALSE
  /\ failed = FALSE
  /\ overflow = 0
  /\ writer = "new"
  /\ written = 0
  /\ flushed = 0
  /\ json = [header |-> FALSE, summary |-> FALSE, csvFailed |-> FALSE]

QueueFull == rowq + (IF sentinel THEN 1 ELSE 0) = QueueMax

-----------------------------------------------------------------------------
(* The calls of the session.                                               *)

StartWriter ==
  /\ ~started
  /\ started' = TRUE
  /\ writer' = "open"
  /\ UNCHANGED <<rowq, sentinel, failed, overflow, written, flushed, json>>

(* The test at the head of add(): nobody would read the row.               *)
WriterAccepts == started /\ ~failed

(* put_nowait(): a full queue costs a row, never a wait.                   *)
EnqueueRow ==
  /\ IF QueueFull
       THEN overflow' = overflow + 1 /\ UNCHANGED rowq
       ELSE rowq' = rowq + 1 /\ UNCHANGED overflow
  /\ UNCHANGED <<sentinel, started, failed, writer, written, flushed, json>>

WriteHeader ==
  /\ json' = [json EXCEPT !.header = TRUE]
  /\ UNCHANGED <<rowq, sentinel, started, failed, overflow, writer, written, flushed>>

(* stop(), its bounded put(): a full queue gives up after a second and the *)
(* sentinel is never sent.                                                 *)
PutSentinel ==
  /\ ~QueueFull
  /\ sentinel' = TRUE
  /\ UNCHANGED <<rowq, started, failed, overflow, writer, written, flushed, json>>

GiveUpSentinel ==
  /\ QueueFull
  /\ UNCHANGED sidecarVars

(* stop(), its bounded join(): the thread has ended or is left behind.     *)
JoinWriter ==
  /\ started' = FALSE
  /\ UNCHANGED <<rowq, sentinel, failed, overflow, writer, written, flushed, json>>

(* write_summary(): merges into the header, attesting a dead writer.       *)
WriteSummary ==
  /\ json' = [json EXCEPT !.summary = TRUE, !.csvFailed = failed]
  /\ UNCHANGED <<rowq, sentinel, started, failed, overflow, writer, written, flushed>>

(* Its OSError / ValueError is logged and nothing else.                    *)
LoseSummary == UNCHANGED sidecarVars

-----------------------------------------------------------------------------
(* The writer thread, _run().                                              *)

(* Any open, write or flush may raise OSError.  _failed is set before the  *)
(* queue is drained, so that add() stops feeding it.                       *)
WriterFails ==
  /\ writer \in {"open", "run"}
  /\ writer = "run" => (rowq > 0 \/ sentinel)
  /\ failed' = TRUE
  /\ writer' = "drain"
  /\ IF rowq > 0 /\ writer = "run"
       THEN rowq' = rowq - 1 /\ UNCHANGED sentinel
       ELSE sentinel' = (sentinel /\ writer = "open") /\ UNCHANGED rowq
  /\ UNCHANGED <<started, overflow, written, flushed, json>>

OpenCsv ==
  /\ writer = "open"
  /\ writer' = "run"
  /\ UNCHANGED <<rowq, sentinel, started, failed, overflow, written, flushed, json>>

WriteRow ==
  /\ writer = "run"
  /\ rowq > 0
  /\ rowq' = rowq - 1
  /\ written' = written + 1
  /\ flushed' = IF written' % FlushEvery = 0 THEN written' ELSE flushed
  /\ UNCHANGED <<sentinel, started, failed, overflow, writer, json>>

TakeSentinel ==
  /\ writer = "run"
  /\ rowq = 0
  /\ sentinel
  /\ sentinel' = FALSE
  /\ flushed' = written
  /\ writer' = "done"
  /\ UNCHANGED <<rowq, started, failed, overflow, written, json>>

DrainQueue ==
  /\ writer = "drain"
  /\ rowq' = 0
  /\ sentinel' = FALSE
  /\ writer' = "done"
  /\ UNCHANGED <<started, failed, overflow, written, flushed, json>>

WriterStep == OpenCsv \/ WriteRow \/ TakeSentinel \/ WriterFails \/ DrainQueue
=============================================================================
