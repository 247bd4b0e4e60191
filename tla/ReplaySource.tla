----------------------------- MODULE ReplaySource -----------------------------
(***************************************************************************)
(* A recorded run played back: cam_driver/sources/replay.py over the       *)
(* policy of PlaybackControl, as CamPipeline and the control plane use it. *)
(*                                                                         *)
(* main     the main thread: requests, bus messages and idle callbacks,    *)
(*          one at a time; a restart is a dozen steps of it                *)
(* handler  a stop, in the signal handler that interrupts main anywhere    *)
(*          but inside a call into GStreamer                               *)
(* feeder   the reader's streaming thread, one frame at a time             *)
(* gate     the timer of PlaybackControl                                   *)
(*                                                                         *)
(* The reader is GStreamer's.  What the code relies on: setting it to NULL *)
(* and a flushing seek return once the streaming thread is out of its      *)
(* callback, no frame follows, and an end of stream or an error it posted  *)
(* is still on the bus.                                                    *)
(***************************************************************************)
EXTENDS PlaybackControl, Integers, FiniteSets

CONSTANTS
  Sessions,     \* recorded sessions of the run
  Rows,         \* rows in the CSV of each
  MaxCycles,    \* bound: loop wraps and restarts
  MaxRequests,  \* bound: requests of the operator
  MaxFaults,    \* bound: bad videos, reader errors, failed seeks, failed rebuilds
  MaxStops      \* 0 or 1: is the service stopped

ASSUME ReplayAssumption ==
  /\ Sessions \in Nat \ {0} /\ Rows \in Nat \ {0}
  /\ MaxCycles \in Nat /\ MaxRequests \in Nat /\ MaxFaults \in Nat /\ MaxStops \in Nat

VARIABLES
  \* -- the run on disk and the window on it
  video,        \* frames each session's video really has
  from, to,     \* first position inside the window, first one after it
  \* -- the main thread
  main, op, wasFinished, next, handler,
  \* -- the source
  finished, failed, stopEvt, gen, cycle, idx, session,
  \* -- its reader, the bus and the idle queue
  reader, readerGen, pos, ended, bus, quiesce,
  \* -- the frame in the feeder's hands
  feeder, frame,
  \* -- bounds and history
  requests, faults,
  last,         \* position of the last frame delivered, over all cycles
  matched,      \* this reading's frames have all got their own row
  vouched,      \* every end of stream taken as good was the end of a true reading
  interrupted,  \* a request restarted a reader that was not Drained
  spare,        \* one frame may still go out although paused
  lost          \* a reader could not be brought up

media == <<video, from, to>>
mainVars == <<main, op, wasFinished, next>>
sourceVars == <<finished, failed, stopEvt, gen, cycle, idx, session>>
readerVars == <<reader, readerGen, pos, ended, bus>>
feederVars == <<feeder, frame>>
history == <<last, matched, vouched, interrupted, spare, lost>>
bounds == <<requests, faults>>
vars == <<policyVars, gateVars, media, mainVars, handler, sourceVars, readerVars,
          quiesce, feederVars, bounds, history>>

-------------------------------------------------------------------------------
(* The timeline: rows of all sessions in order, one cycle after the other. *)

Span == Sessions * Rows
Position(s, row) == (s - 1) * Rows + row

First == CHOOSE s \in 1..Sessions :
           /\ Position(s, Rows - 1) >= from
           /\ \A t \in 1..(s - 1) : Position(t, Rows - 1) < from

NoFrame == [at |-> 0, row |-> 0, shot |-> 0]

\* Where a stamped frame lies in the cycle the source is in by now.
Raw(f) == Position(session, f.row) + (f.at - cycle) * Span

InWindow(f) == Raw(f) >= from /\ Raw(f) < to

\* The control lock, held across steps only where a handler can find it held.
LockHeld == main \in {"locked", "mark", "finish"}

InGStreamer == main \in {"seek", "null"}

\* The reader has handed out its last frame, and its end has been dealt with.
Drained == feeder = "idle" /\ (reader # "playing" \/ ended) /\ "eos" \notin bus

Seekable == (Sessions = 1 \/ session = First) /\ ~wasFinished

MainPoint == {"idle", "locked", "restart", "mark", "reset", "rewind", "seek",
              "halt", "null", "clear", "build", "finish", "exit"}

\* The main thread runs: no handler on top of it.
Runs(point) == main = point /\ handler # "null"

MainTypeOK ==
  /\ main \in MainPoint /\ op \in Ops \cup {"none", "loop", "next"}
  /\ wasFinished \in BOOLEAN /\ next \in 1..Sessions /\ handler \in {"off", "null", "done"}
  /\ requests \in 0..MaxRequests

SourceTypeOK ==
  /\ finished \in BOOLEAN /\ failed \in BOOLEAN /\ stopEvt \in BOOLEAN
  /\ gen \in Nat /\ cycle \in 0..MaxCycles /\ idx \in Nat /\ session \in 1..Sessions
  /\ quiesce \subseteq 0..gen

ReaderTypeOK ==
  /\ video \in [1..Sessions -> Nat] /\ from \in Nat /\ to \in Nat
  /\ reader \in {"playing", "paused", "null"} /\ readerGen \in Nat
  /\ pos \in Nat /\ ended \in BOOLEAN /\ bus \subseteq {"eos", "error"}
  /\ feeder \in {"idle", "stamp", "finish", "hold", "pace", "deliver"}
  /\ frame \in [at : 0..MaxCycles, row : Nat, shot : Nat]
  /\ faults \in 0..MaxFaults

HistoryTypeOK ==
  /\ last \in Int /\ matched \in BOOLEAN /\ vouched \in BOOLEAN
  /\ interrupted \in BOOLEAN /\ spare \in BOOLEAN /\ lost \in BOOLEAN

TypeOK == ControlTypeOK /\ MainTypeOK /\ SourceTypeOK /\ ReaderTypeOK /\ HistoryTypeOK

\* open, configure and start.  The run is as recorded, or the video of one session
\* has lost or gained a frame against its CSV (a fault), or the window cuts one off
\* either end.
Init ==
  /\ ControlInit
  /\ \E s \in 1..Sessions, n \in (Rows - 1)..(Rows + 1) :
       video = [t \in 1..Sessions |-> IF t = s THEN n ELSE Rows]
  /\ faults = Cardinality({s \in 1..Sessions : video[s] # Rows}) /\ faults <= MaxFaults
  /\ from \in IF faults = 0 THEN {0, 1} ELSE {0}
  /\ to = Span - from /\ from < to
  /\ main = "idle" /\ op = "none" /\ wasFinished = FALSE /\ handler = "off"
  /\ finished = FALSE /\ failed = FALSE /\ stopEvt = FALSE
  /\ gen = 1 /\ cycle = 0 /\ idx = 0 /\ session = First /\ next = First
  /\ reader = "playing" /\ readerGen = 1 /\ pos = 0 /\ ended = FALSE
  /\ bus = {} /\ quiesce = {}
  /\ feeder = "idle" /\ frame = NoFrame
  /\ requests = 0
  /\ last = -1 /\ matched = TRUE /\ vouched = TRUE
  /\ interrupted = FALSE /\ spare = TRUE /\ lost = FALSE

\* Fault: the tear-down wakes nobody.
LetGo_NoWake == gen' = gen + 1 /\ stopEvt' = stopEvt /\ bus' = {}

\* What a tear-down does first: what the reader still posts is stale, what it has
\* posted is dropped with its watch, a paced or held frame is let go.
LetGo == gen' = gen + 1 /\ stopEvt' = TRUE /\ bus' = {}

-------------------------------------------------------------------------------
(* The streaming thread. *)

\* A sample arrives: the frame takes the next row.
Take ==
  /\ feeder = "idle" /\ reader = "playing" /\ ~ended /\ pos < video[session]
  /\ frame' = [at |-> 0, row |-> idx, shot |-> pos]
  /\ idx' = idx + 1 /\ pos' = pos + 1
  /\ matched' = (matched /\ idx = pos)
  /\ feeder' = "stamp"
  /\ UNCHANGED <<policyVars, gateVars, media, mainVars, handler, finished, failed, stopEvt,
                 gen, cycle, session, reader, readerGen, ended, bus, quiesce, bounds,
                 last, vouched, interrupted, spare, lost>>

\* Stamps it.  Past the last row the replay fails; past the window it is over.
Stamp ==
  /\ feeder = "stamp"
  /\ LET known == frame.row < Rows
         f == [frame EXCEPT !.at = cycle, !.row = IF known THEN frame.row ELSE Rows - 1]
         over == known /\ Raw(f) >= to
     IN /\ frame' = f
        /\ failed' = (failed \/ ~known)
        /\ finished' = (finished \/ over \/ (~known /\ ~failed))
        /\ feeder' = CASE known /\ InWindow(f) -> "hold"
                       [] (over /\ ~finished) \/ (~known /\ ~failed) -> "finish"
                       [] OTHER -> "deliver"
  /\ UNCHANGED <<policyVars, gateVars, media, mainVars, handler, stopEvt, gen, cycle, idx,
                 session, readerVars, quiesce, bounds, history>>

FeederStays == UNCHANGED <<gateVars, media, mainVars, handler, sourceVars, readerVars, frame, bounds>>

\* _finish, on this thread.
FeederFinishes ==
  /\ feeder = "finish" /\ ~LockHeld
  /\ MarkFinished
  /\ quiesce' = quiesce \cup {gen}
  /\ feeder' = "deliver"
  /\ UNCHANGED history /\ FeederStays

\* The preview of a paused boot goes straight out; else the first hold.
Hold ==
  /\ feeder = "hold" /\ ~LockHeld
  /\ IF preroll THEN TakePreroll /\ feeder' = "deliver"
     ELSE /\ ~StaysHeld(stopEvt)
          /\ TakeVerdict(stopEvt)
          /\ feeder' = IF Verdict(stopEvt) = "stop" THEN "deliver" ELSE "pace"
  /\ UNCHANGED <<quiesce, history>> /\ FeederStays

\* Its time has come; a pause that came meanwhile holds it here.  note_frame
\* only moves the position.
Pace ==
  /\ feeder = "pace" /\ ~LockHeld
  /\ ~StaysHeld(stopEvt)
  /\ TakeVerdict(stopEvt)
  /\ feeder' = "deliver"
  /\ UNCHANGED <<quiesce, history>> /\ FeederStays

Deliverable == ~failed /\ ~stopEvt /\ InWindow(frame)

\* The consumer's callback, and out.
Deliver ==
  /\ feeder = "deliver"
  /\ feeder' = "idle" /\ frame' = NoFrame
  /\ last' = IF Deliverable THEN frame.at * Span + Position(session, frame.row) ELSE last
  /\ spare' = (spare /\ ~(Deliverable /\ state = "paused"))
  /\ UNCHANGED <<policyVars, gateVars, media, mainVars, handler, sourceVars, readerVars,
                 quiesce, bounds, matched, vouched, interrupted, lost>>

\* The reader posts its end, or fails.  With its watch gone nobody is told.
ReaderPosts(m) ==
  /\ reader = "playing" /\ ~ended
  /\ ended' = TRUE
  /\ bus' = IF gen = readerGen THEN bus \cup {m} ELSE bus
  /\ UNCHANGED <<policyVars, gateVars, media, mainVars, handler, sourceVars, reader, readerGen,
                 pos, quiesce, feederVars, requests, history>>

EndOfStream == feeder = "idle" /\ pos = video[session] /\ ReaderPosts("eos") /\ faults' = faults

ReaderFails == faults < MaxFaults /\ ReaderPosts("error") /\ faults' = faults + 1

-------------------------------------------------------------------------------
(* The main thread: requests. *)

Go(point) == main' = point

\* Back to the main loop: what was in progress is forgotten.
Done == main' = "idle" /\ op' = "none" /\ wasFinished' = FALSE /\ next' = First

\* A request is dispatched; it waits for the lock.
Request(o) ==
  /\ Runs("idle") /\ requests < MaxRequests
  /\ o = "restart" => cycle < MaxCycles
  /\ CallOffGate
  /\ requests' = requests + 1
  /\ op' = o /\ Go("locked")
  /\ UNCHANGED <<policyVars, media, wasFinished, next, handler, sourceVars, readerVars,
                 quiesce, feederVars, faults, history>>

\* It has the lock: reply, or on to the restart hook.
ServeRequest ==
  /\ Runs("locked")
  /\ Serve(op)
  /\ IF op = "restart" THEN Go("restart") /\ UNCHANGED <<op, wasFinished, next>> ELSE Done
  /\ spare' = CASE op = "restart" -> TRUE
                [] op = "pause" /\ state = "playing" -> preroll \/ feeder = "deliver"
                [] OTHER -> spare
  /\ UNCHANGED <<gateVars, media, handler, sourceVars, readerVars, quiesce,
                 feederVars, bounds, last, matched, vouched, interrupted, lost>>

-------------------------------------------------------------------------------
(* The main thread: _restart, for an operator or for the loop. *)

MainOnly == UNCHANGED <<gateVars, media, handler, feederVars, requests>>

\* Fault: the new cycle keeps the old stamps.
Shift_SameCycle ==
  /\ Runs("restart")
  /\ wasFinished' = finished /\ cycle' = cycle
  /\ interrupted' = (interrupted \/ (op = "restart" /\ ~Drained))
  /\ Go("mark")
  /\ UNCHANGED <<policyVars, op, next, finished, failed, stopEvt, gen, idx, session, readerVars,
                 quiesce, faults, last, matched, vouched, spare, lost>>
  /\ MainOnly

\* The next cycle's stamps are shifted past this one's.
Shift ==
  /\ Runs("restart")
  /\ wasFinished' = finished /\ cycle' = cycle + 1
  /\ interrupted' = (interrupted \/ (op = "restart" /\ ~Drained))
  /\ Go("mark")
  /\ UNCHANGED <<policyVars, op, next, finished, failed, stopEvt, gen, idx, session, readerVars,
                 quiesce, faults, last, matched, vouched, spare, lost>>
  /\ MainOnly

\* mark_cycle and take_restart.
Mark ==
  /\ Runs("mark") /\ TakeRestart /\ Go("reset")
  /\ UNCHANGED <<op, wasFinished, next, sourceVars, readerVars, quiesce, faults, history>>
  /\ MainOnly

Reset ==
  /\ Runs("reset")
  /\ finished' = FALSE /\ failed' = FALSE
  /\ next' = First
  /\ Go(IF Seekable THEN "rewind" ELSE "halt")
  /\ UNCHANGED <<policyVars, op, wasFinished, stopEvt, gen, cycle, idx, session, readerVars,
                 quiesce, faults, history>>
  /\ MainOnly

Rewind ==
  /\ Runs("rewind") /\ idx' = 0 /\ Go("seek")
  /\ UNCHANGED <<policyVars, op, wasFinished, next, finished, failed, stopEvt, gen, cycle, session,
                 readerVars, quiesce, faults, history>>
  /\ MainOnly

\* The flushing seek waits for the streaming thread.  It leaves the bus alone.
\* The reply follows: the flag it waits for was taken by Mark.
Seek ==
  /\ Runs("seek") /\ feeder = "idle" /\ reader # "null"
  /\ pos' = 0 /\ ended' = FALSE /\ matched' = TRUE
  /\ Done
  /\ UNCHANGED <<policyVars, sourceVars, reader, readerGen, bus, quiesce,
                 faults, last, vouched, interrupted, spare, lost>>
  /\ MainOnly

\* A reader that is torn down, or refuses: it is rebuilt.
SeekFails ==
  /\ Runs("seek")
  /\ \/ reader = "null" /\ faults' = faults
     \/ reader # "null" /\ faults < MaxFaults /\ faults' = faults + 1
  /\ Go("halt")
  /\ UNCHANGED <<policyVars, op, wasFinished, next, sourceVars, readerVars, quiesce, history>>
  /\ MainOnly

-------------------------------------------------------------------------------
(* The main thread: _rebuild, for a restart or for the next session. *)

\* _halt_reader: the streaming thread is let go ...
Halt ==
  /\ Runs("halt")
  /\ LetGo /\ Go("null")
  /\ UNCHANGED <<policyVars, op, wasFinished, next, finished, failed, cycle, idx, session, reader,
                 readerGen, pos, ended, quiesce, faults, history>>
  /\ MainOnly

\* ... so that the streaming thread can be joined.
Null ==
  /\ Runs("null") /\ feeder = "idle"
  /\ reader' = "null"
  /\ Go("clear")
  /\ UNCHANGED <<policyVars, op, wasFinished, next, sourceVars, readerGen, pos, ended, bus,
                 quiesce, faults, history>>
  /\ MainOnly

\* The tear-down is over; frames are matched with the next session's rows.
ActivateSession ==
  /\ Runs("clear")
  /\ stopEvt' = FALSE /\ session' = next /\ idx' = 0
  /\ Go("build")
  /\ UNCHANGED <<policyVars, op, wasFinished, next, finished, failed, gen, cycle, readerVars,
                 quiesce, faults, history>>
  /\ MainOnly

Build ==
  /\ Runs("build")
  /\ gen' = gen + 1 /\ readerGen' = gen + 1
  /\ reader' = "playing" /\ pos' = 0 /\ ended' = FALSE /\ matched' = TRUE
  /\ Done
  /\ UNCHANGED <<policyVars, finished, failed, stopEvt, cycle, idx, session,
                 bus, quiesce, faults, last, vouched, interrupted, spare, lost>>
  /\ MainOnly

\* configure raises: a refusal to the operator, the end of a loop; nobody
\* catches it between two sessions.
BuildFails ==
  /\ Runs("build") /\ faults < MaxFaults
  /\ gen' = gen + 1 /\ faults' = faults + 1 /\ lost' = TRUE
  /\ IF op = "restart" THEN RefuseRestart ELSE UNCHANGED policyVars
  /\ finished' = (finished \/ op = "loop") /\ failed' = (failed \/ op = "loop")
  /\ Done
  /\ UNCHANGED <<stopEvt, cycle, idx, session, readerVars, quiesce,
                 last, matched, vouched, interrupted, spare>>
  /\ MainOnly

-------------------------------------------------------------------------------
(* The main thread: what the reader posted. *)

\* There is another session, and it begins inside the window.
NextInWindow == session < Sessions /\ Position(session + 1, 0) < to

\* Fault: missing frames are not looked for.
RowsCounted_NotTooMany == idx <= Rows

\* _check_row_count.
RowsCounted == idx = Rows

\* _on_eos, up to what it decides to do.
OnEos ==
  /\ Runs("idle") /\ "eos" \in bus
  /\ (loop /\ ~NextInWindow) => cycle < MaxCycles
  /\ bus' = bus \ {"eos"}
  /\ IF gen # readerGen \/ finished
     THEN UNCHANGED <<op, main, next, finished, failed, vouched>>
     ELSE LET counted == RowsCounted
              over == ~counted \/ (~NextInWindow /\ ~loop)
          IN /\ failed' = (failed \/ ~counted)
             /\ finished' = over
             /\ op' = CASE over -> "none" [] ~over /\ NextInWindow -> "next" [] OTHER -> "loop"
             /\ next' = IF ~over /\ NextInWindow THEN session + 1 ELSE next
             /\ Go(CASE over -> "finish" [] ~over /\ NextInWindow -> "halt" [] OTHER -> "restart")
             /\ vouched' = (vouched /\ (counted => matched /\ video[session] = Rows))
  /\ UNCHANGED <<policyVars, wasFinished, stopEvt, gen, cycle, idx, session, reader, readerGen, pos,
                 ended, quiesce, faults, last, matched, interrupted, spare, lost>>
  /\ MainOnly

\* The rest of _finish: the lock, and the idle callback.
Finish ==
  /\ Runs("finish") /\ MarkFinished
  /\ quiesce' = quiesce \cup {gen}
  /\ Done
  /\ UNCHANGED <<sourceVars, readerVars, faults, history>>
  /\ MainOnly

OnError ==
  /\ Runs("idle") /\ "error" \in bus
  /\ bus' = bus \ {"error"}
  /\ IF gen # readerGen THEN UNCHANGED <<failed, finished>> ELSE failed' = TRUE /\ finished' = TRUE
  /\ UNCHANGED <<policyVars, mainVars, stopEvt, gen, cycle, idx, session, reader, readerGen, pos,
                 ended, quiesce, faults, history>>
  /\ MainOnly

\* Fault: whatever reader there is by now is paused.
Quiesce_Ungated(g) ==
  /\ Runs("idle") /\ g \in quiesce
  /\ quiesce' = quiesce \ {g}
  /\ reader' = IF stopEvt THEN reader ELSE "paused"
  /\ UNCHANGED <<policyVars, mainVars, sourceVars, readerGen, pos, ended, bus, faults, history>>
  /\ MainOnly

\* The idle callback of an end: not if that reader, or that end, is history.
Quiesce(g) ==
  /\ Runs("idle") /\ g \in quiesce
  /\ quiesce' = quiesce \ {g}
  /\ reader' = IF g = gen /\ finished /\ ~stopEvt THEN "paused" ELSE reader
  /\ UNCHANGED <<policyVars, mainVars, sourceVars, readerGen, pos, ended, bus, faults, history>>
  /\ MainOnly

-------------------------------------------------------------------------------
(* A stop, wherever the main thread is. *)

Stop ==
  /\ MaxStops > 0 /\ handler = "off" /\ main # "exit" /\ ~InGStreamer
  /\ handler' = "null"
  /\ LetGo /\ CancelGate
  /\ UNCHANGED <<policyVars, media, mainVars, finished, failed, cycle, idx, session, reader,
                 readerGen, pos, ended, quiesce, feederVars, bounds, history>>

StopReturns ==
  /\ handler = "null" /\ feeder = "idle"
  /\ handler' = "done" /\ reader' = "null"
  /\ UNCHANGED <<policyVars, gateVars, media, mainVars, sourceVars, readerGen, pos, ended, bus,
                 quiesce, feederVars, bounds, history>>

\* What was left of the loop is done: the process ends.
LoopQuits ==
  /\ main = "idle" /\ handler = "done"
  /\ main' = "exit"
  /\ UNCHANGED <<policyVars, gateVars, media, op, wasFinished, next, handler, sourceVars, readerVars,
                 quiesce, feederVars, bounds, history>>

-------------------------------------------------------------------------------
GateThread ==
  /\ \/ GateFires
     \/ GateResumes /\ ~LockHeld
  /\ UNCHANGED <<media, mainVars, handler, sourceVars, readerVars, quiesce, feederVars, bounds, history>>

Feeder == Take \/ Stamp \/ FeederFinishes \/ Hold \/ Pace \/ Deliver \/ EndOfStream

RestartSteps == Shift \/ Mark \/ Reset \/ Rewind \/ Seek \/ SeekFails
RebuildSteps == Halt \/ Null \/ ActivateSession \/ Build \/ BuildFails
Dispatch == OnEos \/ OnError \/ (\E g \in quiesce : Quiesce(g))
Main == ServeRequest \/ RestartSteps \/ RebuildSteps \/ Finish \/ Dispatch

Alive == main # "exit"

Next ==
  /\ Alive
  /\ \/ \E o \in Ops : Request(o)
     \/ Main
     \/ Feeder \/ ReaderFails
     \/ GateThread
     \/ Stop \/ StopReturns \/ LoopQuits

Spec == Init /\ [][Next]_vars

\* Threads run on and what is due comes; nobody has to ask, to stop the
\* service, or to fail.
FairSpec ==
  /\ Spec
  /\ WF_vars(Alive /\ Feeder) /\ WF_vars(Alive /\ Main)
  /\ WF_vars(Alive /\ (StopReturns \/ LoopQuits))

-------------------------------------------------------------------------------
(* Properties. *)

Busy == main \notin {"idle", "exit"}
Deadlocked == handler = "null" /\ LockHeld
HeldForever == main = "seek" /\ state = "paused"

\* playback.py promises stamps that stay strictly monotonic across cycles: over
\* loops, session changes and restarts from the end, skipped, held and previewed
\* frames, each delivered frame is later than the one before.  A restart that
\* hits a reader in the middle of a frame is the exception.
StampsIncrease == [][last' # last => (last' > last \/ interrupted)]_vars

\* _check_row_count: a session whose end is taken as good really was read whole,
\* each frame under its own row, unless a restart hit a reader in mid-frame.
CleanEndIsTrue == interrupted \/ vouched

\* pause holds the feeder: after it is served no frame goes out but the one that
\* had already passed the second hold, the preview, or one freed by a restart.
PauseHolds == [][last' # last /\ state = "paused" => spare]_vars

\* A playback that says it plays has a running reader whose end and errors will
\* be heard, once the main loop is back from a request: no late quiesce, end of
\* stream or tear-down of an earlier reader hits it.  A reader that cannot be
\* brought up again is the exception.
PlayingMeansReading ==
  main = "idle" /\ handler = "off" /\ state = "playing" /\ ~finished /\ ~lost =>
    reader = "playing" /\ readerGen = gen /\ ~stopEvt

\* arm_start_gate: a request outranks the schedule, if it comes before the timer
\* has made its checks.
GateYields == gate = "resume" => ~touched

\* stop() returns: the pacing sleep and both holds let the feeder go, whatever
\* the main thread was doing, unless it held the control lock just then.
StopEnds == handler = "null" /\ ~LockHeld ~> handler = "done"

\* Every request, end of stream and loop wrap lets go of the main loop again,
\* unless a stop strikes inside the lock or a restart seeks in a paused reader.
MainLoopGoesOn == Busy ~> ~Busy \/ Deadlocked \/ HeldForever

\* docs/PLAYBACK.md: a replay ends with an error (and the service with a nonzero
\* exit) if decoding yields fewer or more frames than the CSV indexes; replay.py
\* adds a reader that fails.  Nothing else fails it, except again a restart that
\* hit a reader in mid-frame: that one does fail a run there is nothing wrong with.
FailsOnlyOnBadData == failed => faults > 0 \/ interrupted

\* replay.py:529-585: the end a playback reports is the one it had.
EndIsTrue == CleanEndIsTrue /\ FailsOnlyOnBadData

\* playback.py:359-365, replay.py:550-617: nothing that belongs to an earlier reader or
\* request is done to the present one, by the main loop or by the timer.
NothingLateStrikes == PlayingMeansReading /\ GateYields

\* playback.py:9-11, 484-493: what comes out is later than all before it, and nothing
\* comes out of a pause.
DeliveryIsOrdered == StampsIncrease /\ PauseHolds

\* replay.py:424-430, 521-608: no thread waits for another without end, except where
\* Deadlocked and HeldForever say so: a stop that strikes inside the playback lock, and
\* a restart that seeks in a reader whose streaming thread the pause holds.
NobodyWaitsForever == StopEnds /\ MainLoopGoesOn
===============================================================================
