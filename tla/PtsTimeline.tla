------------------------------ MODULE PtsTimeline ------------------------------
(***************************************************************************)
(* The recorded timeline: how the stamps of a source become the PTS the    *)
(* muxer gets (cam_driver/pipeline.py _pts_for), which thread may move it, *)
(* and what the sidecar's counters attest of it (cam_driver/dropstats.py). *)
(*                                                                         *)
(* A source stamps a frame with an id and a time it does not control: ids  *)
(* recycle, clocks step either way.  A raw source calls _on_frame with it. *)
(* An encoded one (sources/gstbase.py) stamps before a tee and hands the   *)
(* frame to two threads: the encoded branch, which drops nothing, and the  *)
(* decode branch, which may skip frames and may lose their identity.  The  *)
(* recording rides the first ("copy") or, re-encoded, the second.          *)
(***************************************************************************)
EXTENDS Integers, Sequences, FiniteSets

CONSTANTS
  Modes,        \* how the recording may be fed
  Interval,     \* _frame_interval_ns
  MaxJump,      \* _MAX_PTS_JUMP_NS: a longer step forward is another clock
  MemoDepth,    \* _PTS_MEMO_FRAMES
  Window,       \* stamps gstbase keeps for the lookup after the tee
  EncDepth,     \* frames the encoded branch holds before the tee blocks
  MaxTime,      \* bound: stamps of the source
  MaxFrames,    \* bound: frames stamped
  MaxLoss,      \* bound: ids skipped at once
  MaxReopens    \* bound: reconnects

ASSUME TimelineAssumption ==
  /\ Modes \subseteq {"raw", "copy", "reencode"}
  /\ Interval \in Nat \ {0} /\ MaxJump \in Nat
  /\ MemoDepth \in Nat \ {0} /\ Window \in Nat /\ EncDepth \in Nat
  /\ EncDepth <= Window /\ Window <= MemoDepth
  /\ MaxTime \in Nat /\ MaxFrames \in Nat /\ MaxLoss \in Nat /\ MaxReopens \in Nat

VARIABLES
  mode,
  \* -- the source
  stamped,      \* every stamp made, in order
  enc, dec,     \* how many of them each branch of an encoded source is past
  opened,       \* how many were made before the source was last opened
  reopens,
  \* -- pipeline: under _base_lock
  started,      \* _base_ts and _last_pts are not None
  base,         \* _base_ts
  skew,         \* _pts_skew
  last,         \* _last_pts
  memo,         \* _pts_memo, oldest first
  \* -- dropstats
  rebases,      \* pts_rebases
  missing,      \* frames_missing
  lastFid,      \* _last_fid
  \* -- history
  fed,          \* what the recording was fed, in order
  shown,        \* what a consumer of a stream-copy source was last given
  lost,         \* ids that were skipped between two fed frames
  recycled      \* the source's ids started over, or moved to another run

timeVars == <<started, base, skew, last, memo, rebases>>
dropVars == <<missing, lastFid>>
sourceVars == <<stamped, enc, dec, opened, reopens>>
lossVars == <<lost, recycled>>
vars == <<mode, sourceVars, timeVars, dropVars, fed, shown, lossVars>>

Stamp == [fid : Nat, ts : 1..MaxTime]

Timed == [stamp : Stamp, pts : Int]     \* a stamp with its PTS

NoFid == -1                             \* _last_fid is None

TypeOK ==
  /\ mode \in Modes
  /\ stamped \in Seq(Stamp) /\ Len(stamped) <= MaxFrames
  /\ enc \in 0..Len(stamped) /\ dec \in 0..Len(stamped) /\ opened \in 0..Len(stamped)
  /\ reopens \in 0..MaxReopens
  /\ started \in BOOLEAN /\ base \in Int /\ skew \in Int /\ last \in Nat
  /\ memo \in Seq(Timed) /\ Len(memo) <= MemoDepth
  /\ rebases \in Nat /\ missing \in Nat /\ lastFid \in Nat \cup {NoFid}
  /\ fed \in Seq(Timed) /\ shown \in Seq(Timed) /\ Len(shown) <= 1
  /\ lost \in Nat /\ recycled \in BOOLEAN

Init ==
  /\ mode \in Modes
  /\ stamped = <<>> /\ enc = 0 /\ dec = 0 /\ opened = 0 /\ reopens = 0
  /\ started = FALSE /\ base = 0 /\ skew = 0 /\ last = 0 /\ memo = <<>>
  /\ rebases = 0 /\ missing = 0 /\ lastFid = NoFid
  /\ fed = <<>> /\ shown = <<>> /\ lost = 0 /\ recycled = FALSE

-----------------------------------------------------------------------------
(* _pts_for: the memo.                                                     *)

(* The key is the id and the time stamp.                                   *)
Remembered(s) == \E i \in 1..Len(memo) : memo[i].stamp = s

MemoPts(s) == memo[CHOOSE i \in 1..Len(memo) : memo[i].stamp = s].pts

(* Fault: only the newest frame is kept.                                   *)
NewestOnly(m, e) == <<e>>

Memoize(m, e) ==
  IF Len(m) < MemoDepth THEN Append(m, e) ELSE Append(Tail(m), e)

-----------------------------------------------------------------------------
(* _pts_for: the caller that feeds the recording.                          *)

Positive(n) == IF n < 0 THEN 0 ELSE n

(* The recorder gets the frame.                                            *)
Feed(s, pts) == fed' = Append(fed, [stamp |-> s, pts |-> pts])

Discontinuity(delta) == delta <= 0 \/ delta > MaxJump

Counted(delta) == 1

(* A hit returns before anything is moved.                                 *)
Recall(s) ==
  /\ Remembered(s)
  /\ Feed(s, MemoPts(s))
  /\ UNCHANGED timeVars

FirstFrame(s) ==
  /\ ~started /\ ~Remembered(s)
  /\ started' = TRUE /\ base' = s.ts /\ last' = Positive(skew)
  /\ memo' = Memoize(memo, [stamp |-> s, pts |-> Positive(skew)])
  /\ Feed(s, Positive(skew))
  /\ UNCHANGED <<skew, rebases>>

Continue(s) ==
  LET pts == s.ts - base + skew IN
  /\ started /\ ~Remembered(s) /\ ~Discontinuity(pts - last)
  /\ last' = Positive(pts)
  /\ memo' = Memoize(memo, [stamp |-> s, pts |-> Positive(pts)])
  /\ Feed(s, Positive(pts))
  /\ UNCHANGED <<started, base, skew, rebases>>

Rebase(s) ==
  LET delta == s.ts - base + skew - last
      target == last + Interval IN
  /\ started /\ ~Remembered(s) /\ Discontinuity(delta)
  /\ skew' = skew + (Interval - delta)
  /\ rebases' = rebases + Counted(delta)
  /\ last' = Positive(target)
  /\ memo' = Memoize(memo, [stamp |-> s, pts |-> Positive(target)])
  /\ Feed(s, Positive(target))
  /\ UNCHANGED <<started, base>>

OwnPts(s) == Recall(s) \/ FirstFrame(s) \/ Continue(s) \/ Rebase(s)

-----------------------------------------------------------------------------
(* _account, and _pts_for for the caller that only looks.                  *)

Observe(s, before) ==
  /\ missing' = missing + (IF before # NoFid /\ s.fid > before + 1
                           THEN s.fid - before - 1 ELSE 0)
  /\ lastFid' = s.fid

(* A known discontinuity (take_discontinuity) resyncs the ids first.       *)
Account(s, cut) == Observe(s, IF cut THEN NoFid ELSE lastFid)

View(s) ==
  IF Remembered(s) THEN MemoPts(s)
  ELSE IF started THEN Positive(s.ts - base + skew) ELSE 0

Show(s) == shown' = <<[stamp |-> s, pts |-> View(s)]>> /\ UNCHANGED <<timeVars, fed, dropVars>>

(* Fault: the decode branch of a stream-copy source moves the timeline.    *)
ShowAndOwn(s) ==
  /\ OwnPts(s) /\ shown' = <<[stamp |-> s, pts |-> last']>> /\ UNCHANGED dropVars

OnFrameCopy(s) == Show(s)

-----------------------------------------------------------------------------
(* A raw source: one thread stamps the frame and calls _on_frame.          *)

(* The ids and times that come: the next id, or, as the camera counts      *)
(* blocks anew or a replay enters its next session (cut), a first id; some *)
(* skipped before it.  Within one opening no id comes twice with the same  *)
(* time.                                                                   *)
NextFid(again, gap) ==
  gap + (IF again \/ stamped = <<>> THEN 1 ELSE stamped[Len(stamped)].fid + 1)

SinceOpened == {stamped[i] : i \in opened + 1..Len(stamped)}

CaptureRaw ==
  /\ mode = "raw" /\ Len(stamped) < MaxFrames
  /\ \E ts \in 1..MaxTime, gap \in 0..MaxLoss, again, cut \in BOOLEAN :
       LET s == [fid |-> NextFid(again, gap), ts |-> ts] IN
       /\ cut => again
       /\ s \notin SinceOpened
       /\ stamped' = Append(stamped, s)
       /\ lost' = lost + (IF cut \/ stamped = <<>> THEN 0 ELSE gap)
       /\ recycled' = (recycled \/ again)
       /\ OwnPts(s) /\ Account(s, cut)
  /\ UNCHANGED <<mode, enc, dec, opened, reopens, shown>>

-----------------------------------------------------------------------------
(* An encoded source: the probe before the tee, then two branches.         *)

(* _frame_id is a host counter: it survives a reopen.  The encoded branch  *)
(* blocks the tee when it is full.                                         *)
StampProbe ==
  /\ mode # "raw" /\ Len(stamped) < MaxFrames /\ Len(stamped) - enc < EncDepth
  /\ \E ts \in 1..MaxTime :
       stamped' = Append(stamped, [fid |-> Len(stamped), ts |-> ts])
  /\ UNCHANGED <<mode, enc, dec, opened, reopens, timeVars, dropVars, fed, shown, lossVars>>

(* Fault: the window keeps one stamp.                                      *)
KeptOne(i) == i > Len(stamped) - 1

Kept(i) == i > Len(stamped) - Window

Newest == stamped[Len(stamped)]

(* _stamp_for: by the buffer's own PTS, else the newest stamp.             *)
StampFor(i, intact) == IF intact /\ Kept(i) THEN stamped[i] ELSE Newest

(* The encoded branch leaves a buffer's PTS intact.  A forced re-encode    *)
(* ignores it.                                                             *)
OnEncoded ==
  /\ mode # "raw" /\ enc < Len(stamped)
  /\ enc' = enc + 1
  /\ \/ /\ mode = "copy"
        /\ OwnPts(StampFor(enc + 1, TRUE)) /\ Account(StampFor(enc + 1, TRUE), FALSE)
     \/ mode = "reencode" /\ UNCHANGED <<timeVars, fed, dropVars>>
  /\ UNCHANGED <<mode, stamped, dec, opened, reopens, shown, lossVars>>

(* The decode branch: a leaky queue skips frames, and a parser that        *)
(* re-times buffers makes the lookup miss.  It only looks, unless the      *)
(* recording is re-encoded from what it delivers.                          *)
OnFrame ==
  /\ mode # "raw"
  /\ \E i \in dec + 1..Len(stamped), intact \in BOOLEAN :
       /\ dec' = i
       /\ \/ mode = "copy" /\ OnFrameCopy(StampFor(i, intact))
          \/ /\ mode = "reencode" /\ UNCHANGED shown
             /\ OwnPts(StampFor(i, intact)) /\ Account(StampFor(i, intact), FALSE)
  /\ UNCHANGED <<mode, stamped, enc, opened, reopens, lossVars>>

-----------------------------------------------------------------------------
(* _reconnect: a successful reopen.                                        *)

(* Fault: the memo survives.                                               *)
KeepMemo == memo

ClearMemo == <<>>

(* What was between the tee and the two sinks is gone with the pipeline.   *)
Reopen ==
  /\ reopens < MaxReopens /\ reopens' = reopens + 1
  /\ memo' = ClearMemo
  /\ opened' = Len(stamped) /\ enc' = Len(stamped) /\ dec' = Len(stamped)
  /\ lost' = lost + (IF mode = "copy" /\ fed # <<>> THEN Len(stamped) - enc ELSE 0)
  /\ UNCHANGED <<mode, stamped, started, base, skew, last, rebases,
                 dropVars, fed, shown, recycled>>

Next == CaptureRaw \/ StampProbe \/ OnEncoded \/ OnFrame \/ Reopen

Spec == Init /\ [][Next]_vars

-----------------------------------------------------------------------------
(* Properties.                                                             *)

(* The recording has a branch of its own: it does not ride the decode      *)
(* branch, whose frames may get through unknown or with an old stamp.      *)
OwnBranch == mode # "reencode"

(* The muxer gets a PTS it can use: whatever the stamps do, every frame    *)
(* fed to a recording is later than the one before it.                     *)
RecordedPtsIncrease ==
  \A i \in 1..Len(fed) - 1 : fed[i].pts < fed[i + 1].pts

(* A real outage is kept: a step of the stamps that could be one is a step *)
(* of the recording, of the same length; any other becomes one frame       *)
(* interval.  No frame, and no other thread, shifts the frames after it.   *)
OutagesKept ==
  \A i \in 1..Len(fed) - 1 :
    LET step == fed[i + 1].stamp.ts - fed[i].stamp.ts IN
    fed[i + 1].pts - fed[i].pts =
      (IF 0 < step /\ step <= MaxJump THEN step ELSE Interval)

(* The sidecar's pts_rebases attests every correction: a recording whose   *)
(* counter is zero maps back to absolute time by its header's base alone.  *)
RebaseAttested ==
  rebases = 0 => \A i \in 1..Len(fed) : fed[i].pts = fed[i].stamp.ts - base

(* The encoded branch never loses a frame's identity: what is recorded are *)
(* the stamps of the frames delivered, each once, in order.                *)
RecordingKeepsIdentity ==
  mode = "copy" => \A i \in 1..Len(fed) - 1 : fed[i].stamp.fid < fed[i + 1].stamp.fid

(* A frame both branches deliver has one PTS: a consumer that gets it      *)
(* after the recording did gets the recorded one.                          *)
BranchesAgree ==
  [][shown' # shown =>
       \A i \in 1..Len(fed) :
         fed[i].stamp = shown'[1].stamp /\ fed[i].stamp \in SinceOpened
           => fed[i].pts = shown'[1].pts]_vars

(* frames_missing attests loss: it never counts an id that was not skipped *)
(* and, while the ids run on, it counts every one, those a reconnect       *)
(* flushed included, once the next frame has arrived.                      *)
LossAttested ==
  /\ missing <= lost
  /\ ~recycled /\ (mode = "copy" => enc > opened \/ reopens = 0) => missing = lost

(* pipeline.py:500-560: the muxer gets a PTS it can use, except in the     *)
(* forced re-encode, where a frame without a stamp repeats the last PTS.   *)
MuxerPtsIncrease == OwnBranch => RecordedPtsIncrease

(* pipeline.py:516-560: the recording's time is the sensor's time, and     *)
(* where it is not, the sidecar says so.                                   *)
TimelineIsAttested == OwnBranch => OutagesKept /\ RebaseAttested

(* gstbase.py:195-240, dropstats.py: the recorded frames are the delivered *)
(* ones, and the ones that are missing are counted.                        *)
FramesAreAttested == RecordingKeepsIdentity /\ (OwnBranch => LossAttested)
=============================================================================
