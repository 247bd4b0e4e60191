--------------------------- MODULE PtsTimeline_proofs ---------------------------
(***************************************************************************)
(* The recorded timeline, for every depth, window, interval and jump: with *)
(* a recording that rides its own branch (every mode but the forced        *)
(* re-encode) the PTS increase, outages are kept, corrections and losses   *)
(* are attested, the recorder never mistakes one frame for another, and    *)
(* the memo gives a consumer the PTS that was recorded.                    *)
(***************************************************************************)
EXTENDS PtsTimeline, TLAPS


(* Frames the branch of the recording is past.                             *)
Passed == IF mode = "raw" THEN Len(stamped) ELSE enc

(* The encoded branch is never as far behind as the window, and the id of  *)
(* a host-counted frame is its place.                                      *)
QueueInv ==
  /\ opened <= enc
  /\ mode # "raw" => /\ Len(stamped) - enc <= EncDepth
                     /\ \A i \in 1..Len(stamped) : stamped[i].fid = i - 1

(* The memo holds frames of this opening that were already fed.            *)
MemoInv ==
  \A k \in 1..Len(memo) : \E i \in opened + 1..Passed : memo[k].stamp = stamped[i]

(* The state of _pts_for is the last frame's, and the skew is attested.    *)
Line ==
  /\ started <=> fed # <<>>
  /\ ~started => skew = 0
  /\ started => /\ last = fed[Len(fed)].pts
                /\ last = fed[Len(fed)].stamp.ts - base + skew
  /\ rebases = 0 => skew = 0

GoodLine == RecordedPtsIncrease /\ OutagesKept /\ RebaseAttested

(* Raw: what was not counted was hidden by ids that started over.          *)
RawLoss ==
  mode = "raw" =>
    /\ missing <= lost
    /\ ~recycled => missing = lost
    /\ stamped = <<>> => lastFid = NoFid
    /\ stamped # <<>> => lastFid = stamped[Len(stamped)].fid

(* Copy: what is not counted yet lies between the last frame recorded and  *)
(* the encoded branch.                                                     *)
CopyLoss ==
  mode = "copy" =>
    /\ fed = <<>> => lastFid = NoFid /\ missing = 0 /\ lost = 0
    /\ fed # <<>> => /\ lastFid \in Nat /\ lastFid < enc
                     /\ missing + (enc - lastFid - 1) = lost
                     /\ enc > opened => lastFid = enc - 1
    /\ reopens = 0 => opened = 0

(* What was recorded is behind the encoded branch.                         *)
FedInv ==
  /\ mode = "copy" => \A i \in 1..Len(fed) : fed[i].stamp.fid < enc
  /\ RecordingKeepsIdentity

TimeTypeOK ==
  /\ started \in BOOLEAN /\ base \in Int /\ skew \in Int /\ last \in Nat
  /\ memo \in Seq(Timed) /\ Len(memo) <= MemoDepth
  /\ rebases \in Nat /\ fed \in Seq(Timed)

SourceTypeOK ==
  /\ mode \in Modes
  /\ stamped \in Seq(Stamp) /\ Len(stamped) <= MaxFrames
  /\ enc \in 0..Len(stamped) /\ dec \in 0..Len(stamped) /\ opened \in 0..Len(stamped)
  /\ reopens \in 0..MaxReopens

DropTypeOK ==
  /\ missing \in Nat /\ lastFid \in Nat \cup {NoFid}
  /\ lost \in Nat /\ recycled \in BOOLEAN

ShownTypeOK == shown \in Seq(Timed) /\ Len(shown) <= 1

LEMMA TypeParts == TypeOK <=> TimeTypeOK /\ SourceTypeOK /\ DropTypeOK /\ ShownTypeOK
BY DEF TypeOK, TimeTypeOK, SourceTypeOK, DropTypeOK, ShownTypeOK

-----------------------------------------------------------------------------
(* _pts_for.                                                               *)

LEMMA PositiveNat == \A n \in Int : Positive(n) \in Nat /\ (n >= 0 => Positive(n) = n)
BY DEF Positive

(* The memo stays a bounded sequence; what is in it was, or is new.        *)
LEMMA Memoized ==
  ASSUME NEW m \in Seq(Timed), Len(m) <= MemoDepth, NEW e \in Timed
  PROVE  /\ Memoize(m, e) \in Seq(Timed) /\ Len(Memoize(m, e)) <= MemoDepth
         /\ \A k \in 1..Len(Memoize(m, e)) :
              Memoize(m, e)[k] = e \/ \E j \in 1..Len(m) : Memoize(m, e)[k] = m[j]
<1> USE TimelineAssumption
<1>1. CASE Len(m) < MemoDepth
  BY <1>1 DEF Memoize
<1>2. CASE ~(Len(m) < MemoDepth)
  <2>1. Len(m) \in Nat /\ Len(m) >= 1 /\ m # <<>>
    BY <1>2
  <2>2. /\ Tail(m) \in Seq(Timed) /\ Len(Tail(m)) = Len(m) - 1
        /\ \A k \in 1..Len(m) - 1 : Tail(m)[k] = m[k + 1]
    BY <2>1
  <2>3. Memoize(m, e) = Append(Tail(m), e)
    BY <1>2 DEF Memoize
  <2>4. /\ Append(Tail(m), e) \in Seq(Timed) /\ Len(Append(Tail(m), e)) = Len(m)
        /\ Append(Tail(m), e)[Len(m)] = e
        /\ \A k \in 1..Len(m) - 1 : Append(Tail(m), e)[k] = m[k + 1]
    BY <2>1, <2>2
  <2>5. \A k \in 1..Len(m) : k # Len(m) => k \in 1..Len(m) - 1 /\ k + 1 \in 1..Len(m)
    BY <2>1
  <2> HIDE DEF Memoize
  <2> QED BY <2>3, <2>4, <2>5
<1> QED BY <1>1, <1>2

(* What the memo answers is a PTS.                                         *)
LEMMA MemoTyped ==
  ASSUME TimeTypeOK, NEW s, Remembered(s)
  PROVE  MemoPts(s) \in Int
<1>0. \A k \in 1..Len(memo) : memo[k].pts \in Int
  <2>1. ASSUME NEW k \in 1..Len(memo) PROVE memo[k].pts \in Int
    <3>1. memo[k] \in Timed
      BY DEF TimeTypeOK
    <3> QED BY <3>1 DEF Timed
  <2> QED BY <2>1
<1> DEFINE at == CHOOSE i \in 1..Len(memo) : memo[i].stamp = s
<1>1. \E i \in 1..Len(memo) : memo[i].stamp = s
  BY DEF Remembered
<1>2. at \in 1..Len(memo)
  BY <1>1, Zenon
<1>3. memo[at].pts \in Int
  <2> HIDE DEF at
  <2> QED BY <1>0, <1>2
<1> QED BY <1>3 DEF MemoPts

(* Every owning call leaves the state well typed.                          *)
LEMMA OwnTyped ==
  ASSUME TimeTypeOK, NEW s \in Stamp, OwnPts(s)
  PROVE  TimeTypeOK'
<1> USE TimelineAssumption
<1>1. CASE Recall(s)
  <2>1. MemoPts(s) \in Int
    BY <1>1, MemoTyped DEF Recall
  <2> QED BY <1>1, <2>1 DEF Recall, Feed, TimeTypeOK, Timed, timeVars
<1>2. CASE FirstFrame(s)
  <2>1. Positive(skew) \in Nat /\ [stamp |-> s, pts |-> Positive(skew)] \in Timed
    BY PositiveNat DEF TimeTypeOK, Timed
  <2>2. memo' \in Seq(Timed) /\ Len(memo') <= MemoDepth
    BY <1>2, <2>1, Memoized DEF FirstFrame, TimeTypeOK
  <2> QED BY <1>2, <2>1, <2>2 DEF FirstFrame, Feed, TimeTypeOK, Stamp
<1>3. CASE Continue(s)
  <2> DEFINE pts == s.ts - base + skew
  <2>1. Positive(pts) \in Nat /\ [stamp |-> s, pts |-> Positive(pts)] \in Timed
    <3>1. pts \in Int
      BY DEF TimeTypeOK, Stamp
    <3> QED BY <3>1, PositiveNat DEF Timed
  <2>2. memo' \in Seq(Timed) /\ Len(memo') <= MemoDepth
    BY <1>3, <2>1, Memoized DEF Continue, TimeTypeOK
  <2> QED BY <1>3, <2>1, <2>2 DEF Continue, Feed, TimeTypeOK
<1>4. CASE Rebase(s)
  <2> DEFINE target == last + Interval
  <2>1. Positive(target) \in Nat /\ [stamp |-> s, pts |-> Positive(target)] \in Timed
    <3>1. target \in Int
      BY DEF TimeTypeOK
    <3> QED BY <3>1, PositiveNat DEF Timed
  <2>2. memo' \in Seq(Timed) /\ Len(memo') <= MemoDepth
    BY <1>4, <2>1, Memoized DEF Rebase, TimeTypeOK
  <2>3. skew' \in Int
    BY <1>4 DEF Rebase, TimeTypeOK, Stamp
  <2> QED BY <1>4, <2>1, <2>2, <2>3 DEF Rebase, Feed, TimeTypeOK, Counted
<1> QED BY <1>1, <1>2, <1>3, <1>4 DEF OwnPts

(* A caller that only looks is shown a PTS.                                *)
LEMMA ViewTyped ==
  ASSUME TimeTypeOK, NEW s \in Stamp
  PROVE  View(s) \in Int
<1>1. CASE Remembered(s)
  BY <1>1, MemoTyped DEF View
<1>2. CASE ~Remembered(s)
  <2>1. s.ts - base + skew \in Int
    BY DEF TimeTypeOK, Stamp
  <2> QED BY <1>2, <2>1, PositiveNat DEF View
<1> QED BY <1>1, <1>2

(* The counters of a frame that is accounted.                              *)
LEMMA AccountTyped ==
  ASSUME DropTypeOK, NEW s \in Stamp, NEW cut \in BOOLEAN, Account(s, cut)
  PROVE  missing' \in Nat /\ lastFid' \in Nat \cup {NoFid}
BY DEF Account, Observe, DropTypeOK, NoFid, Stamp

-----------------------------------------------------------------------------
(* A frame the memo does not know, fed by the branch that owns the         *)
(* timeline: it extends the line, and the line stays good.                 *)

(* Appending a pair that follows the last one keeps the history good.      *)
LEMMA Extended ==
  ASSUME TimeTypeOK, Line, GoodLine, NEW s \in Stamp, NEW p \in Nat,
         Feed(s, p), base' \in Int, rebases' \in Nat,
         started => /\ last < p
                    /\ LET step == s.ts - fed[Len(fed)].stamp.ts IN
                       p - last = IF 0 < step /\ step <= MaxJump THEN step ELSE Interval,
         rebases' = 0 => /\ rebases = 0 /\ p = s.ts - base'
                         /\ started => base' = base
  PROVE  GoodLine'
<1> DEFINE n == Len(fed)
           e == [stamp |-> s, pts |-> p]
<1>1. /\ n \in Nat /\ Len(fed') = n + 1 /\ fed'[n + 1] = e
      /\ \A i \in 1..n : fed'[i] = fed[i]
  BY DEF Feed, TimeTypeOK, Timed
<1>2. n > 0 => started /\ last = fed[n].pts
  BY DEF Line, TimeTypeOK
<1>3. RecordedPtsIncrease'
  <2>1. ASSUME NEW i \in 1..Len(fed') - 1 PROVE fed'[i].pts < fed'[i + 1].pts
    <3>1. CASE i = n
      BY <3>1, <1>1, <1>2
    <3>2. CASE i # n
      <4>1. i \in 1..n - 1 /\ i \in 1..n /\ i + 1 \in 1..n
        BY <3>2, <1>1
      <4> QED BY <4>1, <1>1 DEF GoodLine, RecordedPtsIncrease
    <3> QED BY <3>1, <3>2
  <2> QED BY <2>1 DEF RecordedPtsIncrease
<1>4. OutagesKept'
  <2>1. ASSUME NEW i \in 1..Len(fed') - 1
        PROVE  LET step == fed'[i + 1].stamp.ts - fed'[i].stamp.ts IN
               fed'[i + 1].pts - fed'[i].pts =
                 (IF 0 < step /\ step <= MaxJump THEN step ELSE Interval)
    <3>1. CASE i = n
      BY <3>1, <1>1, <1>2
    <3>2. CASE i # n
      <4>1. i \in 1..n - 1 /\ i \in 1..n /\ i + 1 \in 1..n
        BY <3>2, <1>1
      <4> QED BY <4>1, <1>1 DEF GoodLine, OutagesKept
    <3> QED BY <3>1, <3>2
  <2> QED BY <2>1 DEF OutagesKept
<1>5. RebaseAttested'
  <2>1. ASSUME rebases' = 0, NEW i \in 1..Len(fed')
        PROVE  fed'[i].pts = fed'[i].stamp.ts - base'
    <3>1. CASE i = n + 1
      BY <3>1, <1>1, <2>1
    <3>2. CASE i # n + 1
      <4>1. i \in 1..n
        BY <3>2, <1>1
      <4> QED BY <4>1, <1>1, <1>2, <2>1 DEF GoodLine, RebaseAttested
    <3> QED BY <3>1, <3>2
  <2> QED BY <2>1 DEF RebaseAttested
<1> QED BY <1>3, <1>4, <1>5 DEF GoodLine

(* The three ways of _pts_for past the memo.                               *)
LEMMA OwnKeepsLine ==
  ASSUME TimeTypeOK, Line, GoodLine, NEW s \in Stamp, OwnPts(s), ~Remembered(s)
  PROVE  Line' /\ GoodLine'
<1> USE TimelineAssumption
<1> DEFINE n == Len(fed)
<1>0. TimeTypeOK'
  BY OwnTyped
<1>1. ASSUME NEW p \in Nat, Feed(s, p)
      PROVE  /\ fed' # <<>>
             /\ fed'[Len(fed')].pts = p /\ fed'[Len(fed')].stamp.ts = s.ts
  <2>1. fed' = Append(fed, [stamp |-> s, pts |-> p])
    BY <1>1 DEF Feed
  <2>2. fed' # <<>> /\ fed'[Len(fed')] = [stamp |-> s, pts |-> p]
    BY <2>1 DEF TimeTypeOK, Timed
  <2> QED BY <2>2
<1>2. ASSUME started
      PROVE  n \in 1..n /\ fed[n].stamp.ts \in Int /\ last = fed[n].stamp.ts - base + skew
  <2>1. n \in Nat /\ n > 0
    BY <1>2 DEF Line, TimeTypeOK
  <2>2. fed[n] \in Timed
    BY <2>1 DEF TimeTypeOK
  <2> QED BY <1>2, <2>1, <2>2 DEF Line, Timed, Stamp
<1>3. s.ts \in Int
  BY DEF Stamp
<1>7. base \in Int /\ skew \in Int /\ last \in Int
  BY DEF TimeTypeOK
<1>4. CASE FirstFrame(s)
  <2>1. Positive(skew) = 0 /\ skew = 0 /\ ~started /\ Feed(s, 0)
    BY <1>4 DEF FirstFrame, Line, Positive
  <2>2. Line'
    <3>1. fed' # <<>> /\ fed'[Len(fed')].pts = 0 /\ fed'[Len(fed')].stamp.ts = s.ts
      BY <2>1, <1>1
    <3> QED BY <1>4, <2>1, <3>1, <1>3 DEF FirstFrame, Line
  <2>3. GoodLine'
    BY <1>4, <2>1, <1>0, <1>3, Extended DEF FirstFrame, TimeTypeOK
  <2> QED BY <2>2, <2>3
<1>5. CASE Continue(s)
  <2> DEFINE p == s.ts - base + skew
  <2>1. started /\ p - last > 0 /\ p - last <= MaxJump /\ p \in Int
    BY <1>5, <1>3 DEF Continue, Discontinuity, TimeTypeOK
  <2>2. p \in Nat /\ Positive(p) = p /\ last < p
    BY <2>1, PositiveNat DEF TimeTypeOK
  <2>3. Feed(s, p) /\ last' = p /\ UNCHANGED <<started, base, skew, rebases>>
    BY <1>5, <2>2 DEF Continue
  <2>4. Line'
    <3>1. fed' # <<>> /\ fed'[Len(fed')].pts = p /\ fed'[Len(fed')].stamp.ts = s.ts
      BY <2>2, <2>3, <1>1
    <3> QED BY <2>1, <2>3, <3>1 DEF Line
  <2>5. p - last = s.ts - fed[n].stamp.ts
    <3> DEFINE t == fed[n].stamp.ts
    <3>1. t \in Int /\ last = t - base + skew
      BY <2>1, <1>2
    <3> HIDE DEF t
    <3>2. p - last = s.ts - t
      BY <3>1, <1>3, <1>7
    <3> QED BY <3>2 DEF t
  <2>6. rebases' = 0 => p = s.ts - base'
    BY <2>3, <1>3 DEF Line, TimeTypeOK
  <2> HIDE DEF p
  <2>7. GoodLine'
    BY <2>1, <2>2, <2>3, <2>5, <2>6, <1>0, <1>2, <1>3, Extended DEF TimeTypeOK
  <2> QED BY <2>4, <2>7
<1>6. CASE Rebase(s)
  <2> DEFINE delta == s.ts - base + skew - last
             p == last + Interval
  <2>1. started /\ (delta <= 0 \/ delta > MaxJump) /\ delta \in Int
    BY <1>6, <1>3 DEF Rebase, Discontinuity, TimeTypeOK
  <2>2. p \in Nat /\ Positive(p) = p /\ last < p
    BY PositiveNat DEF TimeTypeOK
  <2>3. /\ Feed(s, p) /\ last' = p /\ UNCHANGED <<started, base>>
        /\ skew' = skew + (Interval - delta) /\ rebases' = rebases + 1
    BY <1>6, <2>2 DEF Rebase, Counted
  <2>4. Line'
    <3>1. fed' # <<>> /\ fed'[Len(fed')].pts = p /\ fed'[Len(fed')].stamp.ts = s.ts
      BY <2>2, <2>3, <1>1
    <3>2. last' = s.ts - base' + skew' /\ rebases' # 0
      BY <2>3, <1>3 DEF TimeTypeOK
    <3> QED BY <2>1, <2>3, <3>1, <3>2 DEF Line
  <2>5. delta = s.ts - fed[n].stamp.ts /\ p - last = Interval
    <3> DEFINE t == fed[n].stamp.ts
    <3>1. t \in Int /\ last = t - base + skew
      BY <2>1, <1>2
    <3> HIDE DEF t
    <3>2. delta = s.ts - t
      BY <3>1, <1>3, <1>7
    <3>3. p - last = Interval
      BY DEF TimeTypeOK
    <3> QED BY <3>2, <3>3 DEF t
  <2>6. rebases' # 0
    BY <2>3 DEF TimeTypeOK
  <2>7. base' \in Int /\ rebases' \in Nat
    BY <1>0 DEF TimeTypeOK
  <2> HIDE DEF p, delta
  <2>8. LET step == s.ts - fed[n].stamp.ts IN
        p - last = IF 0 < step /\ step <= MaxJump THEN step ELSE Interval
    <3>1. ~(0 < delta /\ delta <= MaxJump)
      BY <2>1
    <3> QED BY <2>5, <3>1
  <2>9. GoodLine'
    BY <2>2, <2>3, <2>6, <2>7, <2>8, Extended
  <2> QED BY <2>4, <2>9
<1> QED BY <1>4, <1>5, <1>6 DEF OwnPts, Recall

-----------------------------------------------------------------------------
(* The inductive invariant.                                                *)

TimelineInv == OwnBranch => MemoInv /\ Line /\ GoodLine

IInv == TypeOK /\ QueueInv /\ FedInv /\ RawLoss /\ CopyLoss /\ TimelineInv

LEMMA InitIInv == Init => IInv
<1> SUFFICES ASSUME Init PROVE IInv
  OBVIOUS
<1> USE TimelineAssumption DEF Init
<1>1. TypeOK
  <2>0. started \in BOOLEAN /\ recycled \in BOOLEAN
    BY Zenon
  <2>5. /\ memo \in Seq(Timed) /\ fed \in Seq(Timed) /\ shown \in Seq(Timed)
        /\ Len(memo) = 0 /\ Len(shown) = 0
    OBVIOUS
  <2>6. /\ base \in Int /\ skew \in Int /\ last \in Nat
        /\ rebases \in Nat /\ missing \in Nat /\ lost \in Nat
    OBVIOUS
  <2> HIDE DEF Init
  <2>1. TimeTypeOK
    BY <2>0, <2>5, <2>6 DEF TimeTypeOK
  <2>2. SourceTypeOK
    BY DEF SourceTypeOK, Init
  <2>3. DropTypeOK
    BY <2>0, <2>6 DEF DropTypeOK, Init
  <2>4. ShownTypeOK
    BY <2>5 DEF ShownTypeOK
  <2> QED BY <2>1, <2>2, <2>3, <2>4, TypeParts
<1>2. QueueInv /\ FedInv /\ RawLoss /\ CopyLoss
  BY DEF QueueInv, FedInv, RecordingKeepsIdentity, RawLoss, CopyLoss
<1>3. MemoInv /\ Line /\ GoodLine
  BY DEF MemoInv, Line, GoodLine, RecordedPtsIncrease, OutagesKept, RebaseAttested
<1> QED BY <1>1, <1>2, <1>3 DEF IInv, TimelineInv

(* An owning call on a frame that is new feeds and remembers the same pair.*)
LEMMA OwnExtends ==
  ASSUME TimeTypeOK, NEW s \in Stamp, OwnPts(s), ~Remembered(s)
  PROVE  \E p \in Nat : memo' = Memoize(memo, [stamp |-> s, pts |-> p]) /\ Feed(s, p)
<1>1. CASE FirstFrame(s)
  BY <1>1, PositiveNat DEF FirstFrame, TimeTypeOK
<1>2. CASE Continue(s)
  <2>1. s.ts - base + skew \in Int
    BY DEF TimeTypeOK, Stamp
  <2> QED BY <1>2, <2>1, PositiveNat DEF Continue
<1>3. CASE Rebase(s)
  <2>1. last + Interval \in Int
    BY TimelineAssumption DEF TimeTypeOK
  <2> QED BY <1>3, <2>1, PositiveNat DEF Rebase
<1> QED BY <1>1, <1>2, <1>3 DEF OwnPts, Recall

(* What it leaves in the memo.                                             *)
LEMMA OwnFeeds ==
  ASSUME TimeTypeOK, NEW s \in Stamp, OwnPts(s), ~Remembered(s)
  PROVE  /\ \A k \in 1..Len(memo') :
              memo'[k].stamp = s \/ \E j \in 1..Len(memo) : memo'[k] = memo[j]
         /\ \E p \in Nat : Feed(s, p)
<1>1. PICK p \in Nat : memo' = Memoize(memo, [stamp |-> s, pts |-> p]) /\ Feed(s, p)
  BY OwnExtends
<1>2. [stamp |-> s, pts |-> p] \in Timed
  BY DEF Timed
<1>3. \A k \in 1..Len(memo') :
        memo'[k] = [stamp |-> s, pts |-> p] \/ \E j \in 1..Len(memo) : memo'[k] = memo[j]
  BY <1>1, <1>2, Memoized DEF TimeTypeOK
<1> QED BY <1>1, <1>3

(* A raw frame is new: within one opening no id comes twice with one time. *)
LEMMA CaptureStep == IInv /\ CaptureRaw => IInv'
<1> SUFFICES ASSUME IInv, CaptureRaw PROVE IInv'
  OBVIOUS
<1> USE TimelineAssumption
<1>1. /\ TimeTypeOK /\ SourceTypeOK /\ DropTypeOK /\ ShownTypeOK
      /\ MemoInv /\ Line /\ GoodLine /\ mode = "raw" /\ OwnBranch
  BY TypeParts DEF IInv, TimelineInv, OwnBranch, CaptureRaw
<1>2. PICK ts \in 1..MaxTime, gap \in 0..MaxLoss, again \in BOOLEAN, cut \in BOOLEAN :
        LET s == [fid |-> NextFid(again, gap), ts |-> ts] IN
        /\ cut => again
        /\ s \notin SinceOpened
        /\ stamped' = Append(stamped, s)
        /\ lost' = lost + (IF cut \/ stamped = <<>> THEN 0 ELSE gap)
        /\ recycled' = (recycled \/ again)
        /\ OwnPts(s) /\ Account(s, cut)
  BY DEF CaptureRaw
<1> DEFINE s == [fid |-> NextFid(again, gap), ts |-> ts]
           n == Len(stamped)
<1>3. /\ s.fid = NextFid(again, gap) /\ NextFid(again, gap) \in Nat /\ s \in Stamp /\ n \in Nat
      /\ stamped # <<>> => n > 0 /\ stamped[n] \in Stamp /\ stamped[n].fid \in Nat
  <2>1. ASSUME stamped # <<>>
        PROVE  n > 0 /\ stamped[n] \in Stamp /\ stamped[n].fid \in Nat
    <3>1. n > 0 /\ stamped[n] \in Stamp
      BY <1>1, <2>1 DEF SourceTypeOK
    <3> QED BY <3>1 DEF Stamp
  <2>2. NextFid(again, gap) \in Nat
    BY <2>1 DEF NextFid
  <2> QED BY <1>1, <2>1, <2>2 DEF SourceTypeOK, Stamp
<1>4. /\ stamped' = Append(stamped, s) /\ OwnPts(s) /\ Account(s, cut) /\ s \notin SinceOpened
      /\ UNCHANGED <<mode, enc, dec, opened, reopens, shown>>
  BY <1>2 DEF CaptureRaw
<1>5. /\ Len(stamped') = n + 1 /\ stamped'[n + 1] = s /\ stamped' \in Seq(Stamp)
      /\ \A i \in 1..n : stamped'[i] = stamped[i]
  BY <1>1, <1>3, <1>4 DEF SourceTypeOK
<1>6. ~Remembered(s)
  BY <1>1, <1>4 DEF Remembered, MemoInv, SinceOpened, Passed
<1>7. TypeOK'
  <2>1. TimeTypeOK'
    BY <1>1, <1>3, <1>4, OwnTyped
  <2>2. SourceTypeOK'
    BY <1>1, <1>4, <1>5 DEF SourceTypeOK, CaptureRaw
  <2>3. DropTypeOK'
    BY <1>1, <1>2, <1>3, <1>4, AccountTyped DEF DropTypeOK
  <2>4. ShownTypeOK'
    BY <1>1, <1>4 DEF ShownTypeOK
  <2> QED BY <2>1, <2>2, <2>3, <2>4
          DEF TypeOK, TimeTypeOK, SourceTypeOK, DropTypeOK, ShownTypeOK
<1>8. QueueInv' /\ FedInv' /\ CopyLoss'
  BY <1>1, <1>4 DEF IInv, QueueInv, FedInv, RecordingKeepsIdentity, CopyLoss
<1>9. RawLoss'
  <2>1. /\ lastFid' = s.fid
        /\ missing' = missing + (IF ~cut /\ lastFid # NoFid /\ s.fid > lastFid + 1
                                 THEN s.fid - lastFid - 1 ELSE 0)
    BY <1>4 DEF Account, Observe
  <2>2. stamped' # <<>> /\ lastFid' = stamped'[Len(stamped')].fid
    BY <1>5, <2>1, <1>3
  <2>3. /\ lost' = lost + (IF cut \/ stamped = <<>> THEN 0 ELSE gap)
        /\ ~recycled' => ~recycled /\ ~again /\ ~cut
    BY <1>2
  <2>4. missing \in Nat /\ lost \in Nat /\ gap \in Nat /\ missing <= lost
        /\ (~recycled => missing = lost)
    BY <1>1 DEF DropTypeOK, IInv, RawLoss
  <2>5. CASE cut \/ stamped = <<>>
    <3>1. missing' = missing /\ lost' = lost
      BY <2>5, <2>1, <2>3, <2>4, <1>1 DEF IInv, RawLoss
    <3> QED BY <3>1, <2>2, <2>3, <2>4 DEF RawLoss
  <2>6. CASE ~cut /\ stamped # <<>>
    <3>1. lastFid = stamped[n].fid /\ lastFid \in Nat /\ lost' = lost + gap
      BY <2>6, <2>3, <1>1, <1>3 DEF IInv, RawLoss
    <3>2. s.fid = IF again THEN gap + 1 ELSE gap + (lastFid + 1)
      BY <2>6, <3>1, <1>3 DEF NextFid
    <3>3. missing' <= lost' /\ (~again => missing' = missing + gap)
      <4>1. lastFid # NoFid /\ s.fid \in Nat
        BY <3>1, <1>3 DEF NoFid
      <4> HIDE DEF s
      <4>2. missing' = missing + (IF s.fid > lastFid + 1 THEN s.fid - lastFid - 1 ELSE 0)
        BY <2>1, <2>6, <4>1
      <4>3. CASE again
        BY <4>1, <4>2, <4>3, <2>4, <3>1, <3>2
      <4>4. CASE ~again
        <5>1. s.fid - lastFid - 1 = gap /\ (s.fid > lastFid + 1 <=> gap > 0)
          BY <4>1, <4>4, <2>4, <3>1, <3>2
        <5>2. missing' = missing + gap
          BY <4>2, <5>1, <2>4
        <5> QED BY <5>2, <2>4, <3>1
      <4> QED BY <4>3, <4>4
    <3> QED BY <3>1, <3>3, <2>2, <2>3, <2>4 DEF RawLoss
  <2> QED BY <2>5, <2>6
<1>10. TimelineInv'
  <2>1. Line' /\ GoodLine'
    BY <1>1, <1>3, <1>4, <1>6, OwnKeepsLine
  <2>2. MemoInv'
    <3>1. ASSUME NEW k \in 1..Len(memo')
          PROVE  \E i \in opened' + 1..Passed' : memo'[k].stamp = stamped'[i]
      <4>1. Passed = n /\ Passed' = n + 1 /\ opened' = opened /\ opened \in 0..n
        BY <1>1, <1>4, <1>5 DEF Passed, SourceTypeOK
      <4>2. CASE memo'[k].stamp = s
        <5>1. n + 1 \in opened' + 1..Passed'
          BY <4>1
        <5> QED BY <4>2, <5>1, <1>5
      <4>3. CASE \E j \in 1..Len(memo) : memo'[k] = memo[j]
        <5>1. PICK i \in opened + 1..n : memo'[k].stamp = stamped[i]
          BY <4>3, <4>1, <1>1 DEF MemoInv
        <5>2. i \in opened' + 1..Passed' /\ i \in 1..n
          BY <4>1
        <5> QED BY <5>1, <5>2, <1>5
      <4> QED BY <4>2, <4>3, <1>1, <1>3, <1>4, <1>6, OwnFeeds
    <3> QED BY <3>1 DEF MemoInv
  <2> QED BY <2>1, <2>2 DEF TimelineInv
<1> QED BY <1>7, <1>8, <1>9, <1>10 DEF IInv

(* The probe makes a stamp that both branches are yet to pass.             *)
LEMMA ProbeStep == IInv /\ StampProbe => IInv'
<1> SUFFICES ASSUME IInv, StampProbe PROVE IInv'
  OBVIOUS
<1> USE TimelineAssumption
<1> DEFINE n == Len(stamped)
<1>1. /\ TimeTypeOK /\ SourceTypeOK /\ DropTypeOK /\ ShownTypeOK /\ n \in Nat
  BY TypeParts DEF IInv, SourceTypeOK
<1>2. PICK ts \in 1..MaxTime : stamped' = Append(stamped, [fid |-> n, ts |-> ts])
  BY DEF StampProbe
<1>3. /\ mode # "raw" /\ n < MaxFrames /\ n - enc < EncDepth
      /\ UNCHANGED <<mode, enc, dec, opened, reopens, timeVars, dropVars, fed, shown, lossVars>>
  BY DEF StampProbe
<1>4. /\ Len(stamped') = n + 1 /\ stamped'[n + 1].fid = n /\ stamped' \in Seq(Stamp)
      /\ \A i \in 1..n : stamped'[i] = stamped[i]
  <2>1. [fid |-> n, ts |-> ts] \in Stamp
    BY <1>1 DEF Stamp
  <2> QED BY <1>1, <1>2, <2>1 DEF SourceTypeOK
<1>5. TypeOK'
  <2>1. SourceTypeOK'
    BY <1>1, <1>3, <1>4 DEF SourceTypeOK
  <2>2. TimeTypeOK' /\ DropTypeOK' /\ ShownTypeOK'
    BY <1>1, <1>3 DEF TimeTypeOK, DropTypeOK, ShownTypeOK, timeVars, dropVars, lossVars
  <2> QED BY <2>1, <2>2 DEF TypeOK, TimeTypeOK, SourceTypeOK, DropTypeOK, ShownTypeOK
<1>6. QueueInv'
  <2>1. \A i \in 1..n : stamped[i].fid = i - 1
    BY <1>3 DEF IInv, QueueInv
  <2>2. ASSUME NEW i \in 1..Len(stamped') PROVE stamped'[i].fid = i - 1
    <3>1. CASE i = n + 1
      BY <3>1, <1>1, <1>4
    <3>2. CASE i # n + 1
      <4>1. i \in 1..n
        BY <3>2, <1>1, <1>4
      <4> QED BY <4>1, <2>1, <1>4
    <3> QED BY <3>1, <3>2
  <2>3. Len(stamped') - enc' <= EncDepth
    BY <1>1, <1>3, <1>4 DEF SourceTypeOK
  <2> QED BY <1>3, <2>2, <2>3 DEF IInv, QueueInv
<1>7. FedInv' /\ RawLoss' /\ CopyLoss'
  BY <1>3 DEF IInv, FedInv, RecordingKeepsIdentity, RawLoss, CopyLoss, dropVars, lossVars
<1>8. TimelineInv'
  <2>1. ASSUME OwnBranch PROVE MemoInv'
    <3>1. MemoInv /\ Passed = enc /\ Passed' = enc /\ opened' = opened /\ memo' = memo
      BY <2>1, <1>3 DEF IInv, TimelineInv, Passed, timeVars
    <3>2. \A i \in opened + 1..enc : stamped'[i] = stamped[i]
      BY <1>1, <1>4 DEF SourceTypeOK
    <3> QED BY <3>1, <3>2 DEF MemoInv
  <2>2. OwnBranch => Line' /\ GoodLine'
    BY <1>3 DEF IInv, TimelineInv, Line, GoodLine, RecordedPtsIncrease, OutagesKept,
                RebaseAttested, timeVars
  <2> QED BY <2>1, <2>2, <1>3 DEF TimelineInv, OwnBranch
<1> QED BY <1>5, <1>6, <1>7, <1>8 DEF IInv

(* The ids of the frames recorded are ids.                                 *)
LEMMA FidsTyped == TimeTypeOK => \A i \in 1..Len(fed) : fed[i].stamp.fid \in Nat
<1> SUFFICES ASSUME TimeTypeOK, NEW i \in 1..Len(fed) PROVE fed[i].stamp.fid \in Nat
  OBVIOUS
<1>1. fed[i] \in Timed
  BY DEF TimeTypeOK
<1>2. fed[i].stamp \in Stamp
  BY <1>1 DEF Timed
<1> QED BY <1>2 DEF Stamp

(* What a branch looks up is a stamp that was made; on the encoded branch, *)
(* which the window outlasts, the frame's own.                             *)
LEMMA Found ==
  ASSUME SourceTypeOK, NEW i \in 1..Len(stamped), NEW intact \in BOOLEAN
  PROVE  /\ StampFor(i, intact) \in Stamp
         /\ i > Len(stamped) - Window => StampFor(i, TRUE) = stamped[i]
<1>1. Len(stamped) \in 1..Len(stamped) /\ stamped[Len(stamped)] \in Stamp /\ stamped[i] \in Stamp
  BY DEF SourceTypeOK
<1> QED BY <1>1 DEF StampFor, Kept, Newest

(* The encoded branch delivers the next frame, or drains it.               *)
LEMMA EncodedStep == IInv /\ OnEncoded => IInv'
<1> SUFFICES ASSUME IInv, OnEncoded PROVE IInv'
  OBVIOUS
<1> USE TimelineAssumption
<1> DEFINE n == Len(stamped)
           s == stamped[enc + 1]
<1>1. /\ TimeTypeOK /\ SourceTypeOK /\ DropTypeOK /\ ShownTypeOK /\ QueueInv /\ FedInv
      /\ n \in Nat /\ enc \in Nat /\ opened \in Nat /\ opened <= enc
  BY TypeParts DEF IInv, SourceTypeOK, QueueInv
<1>2. /\ mode # "raw" /\ enc < n /\ enc' = enc + 1
      /\ UNCHANGED <<mode, stamped, dec, opened, reopens, shown, lossVars>>
  BY DEF OnEncoded
<1>3. enc + 1 \in 1..n /\ s \in Stamp /\ s.fid = enc /\ StampFor(enc + 1, TRUE) = s
  <2>1. enc + 1 \in 1..n /\ n - enc <= EncDepth /\ \A i \in 1..n : stamped[i].fid = i - 1
    BY <1>1, <1>2 DEF QueueInv
  <2>2. enc + 1 > n - Window
    BY <2>1, <1>1
  <2>3. s.fid = enc
    BY <2>1, <1>1
  <2>4. s \in Stamp /\ StampFor(enc + 1, TRUE) = s
    BY <2>1, <2>2, <1>1, Found DEF SourceTypeOK
  <2> QED BY <2>1, <2>3, <2>4
<1>4. SourceTypeOK' /\ ShownTypeOK' /\ QueueInv' /\ RawLoss'
  <2>1. SourceTypeOK' /\ ShownTypeOK'
    BY <1>1, <1>2 DEF SourceTypeOK, ShownTypeOK
  <2>2. QueueInv'
    <3>1. opened' <= enc' /\ (n - enc <= EncDepth => n - enc' <= EncDepth)
      BY <1>1, <1>2
    <3> QED BY <3>1, <1>1, <1>2 DEF QueueInv
  <2> QED BY <2>1, <2>2, <1>2 DEF RawLoss
<1>5. CASE mode = "copy"
  <2>1. OwnPts(s) /\ Account(s, FALSE) /\ OwnBranch /\ MemoInv /\ Line /\ GoodLine
    BY <1>2, <1>3, <1>5 DEF OnEncoded, IInv, TimelineInv, OwnBranch
  <2>2. ~Remembered(s)
    <3>1. ASSUME NEW k \in 1..Len(memo), memo[k].stamp = s PROVE FALSE
      <4>1. PICK i \in opened + 1..enc : memo[k].stamp = stamped[i]
        BY <2>1, <1>5 DEF MemoInv, Passed
      <4>2. i \in 1..n /\ stamped[i].fid = i - 1 /\ i - 1 # enc
        BY <1>1, <1>2 DEF QueueInv
      <4> QED BY <3>1, <4>1, <4>2, <1>3
    <3> QED BY <3>1 DEF Remembered
  <2>3. PICK p \in Nat : Feed(s, p)
    BY <2>1, <2>2, <1>1, <1>3, OwnFeeds
  <2> DEFINE m == Len(fed)
  <2>4. /\ m \in Nat /\ Len(fed') = m + 1 /\ fed' # <<>> /\ fed'[m + 1].stamp = s
        /\ \A i \in 1..m : fed'[i] = fed[i] /\ fed[i].stamp.fid \in Nat
    <3>1. fed' = Append(fed, [stamp |-> s, pts |-> p]) /\ fed \in Seq(Timed)
      BY <2>3, <1>1 DEF Feed, TimeTypeOK
    <3>2. [stamp |-> s, pts |-> p] \in Timed
      BY <1>3 DEF Timed
    <3>3. \A i \in 1..m : fed[i].stamp.fid \in Nat
      BY <1>1, FidsTyped
    <3> QED BY <3>1, <3>2, <3>3
  <2>5. TypeOK'
    <3>1. TimeTypeOK'
      BY <1>1, <1>3, <2>1, OwnTyped
    <3>2. DropTypeOK'
      BY <1>1, <1>2, <1>3, <2>1, AccountTyped DEF DropTypeOK, lossVars
    <3> QED BY <1>4, <3>1, <3>2 DEF TypeOK, TimeTypeOK, SourceTypeOK, DropTypeOK, ShownTypeOK
  <2>6. FedInv'
    <3>1. \A i \in 1..m : fed[i].stamp.fid < enc
      BY <1>1, <1>5 DEF FedInv
    <3>2. \A i \in 1..Len(fed') : fed'[i].stamp.fid < enc'
      <4>1. ASSUME NEW i \in 1..Len(fed') PROVE fed'[i].stamp.fid < enc'
        <5>1. CASE i = m + 1
          BY <5>1, <2>4, <1>1, <1>2, <1>3
        <5>2. CASE i # m + 1
          <6>1. i \in 1..m
            BY <5>2, <2>4
          <6> QED BY <6>1, <3>1, <2>4, <1>1, <1>2
        <5> QED BY <5>1, <5>2
      <4> QED BY <4>1
    <3>3. ASSUME NEW i \in 1..Len(fed') - 1
          PROVE  fed'[i].stamp.fid < fed'[i + 1].stamp.fid
      <4>1. CASE i = m
        <5>1. fed'[i].stamp.fid < enc /\ fed'[i + 1].stamp.fid = enc
          BY <4>1, <3>1, <2>4, <1>3
        <5> QED BY <5>1
      <4>2. CASE i # m
        <5>1. i \in 1..m - 1 /\ i \in 1..m /\ i + 1 \in 1..m
          BY <4>2, <2>4
        <5> QED BY <5>1, <2>4, <1>1, <1>5 DEF FedInv, RecordingKeepsIdentity
      <4> QED BY <4>1, <4>2
    <3> QED BY <3>2, <3>3 DEF FedInv, RecordingKeepsIdentity
  <2>7. CopyLoss'
    <3>1. /\ lastFid' = enc
          /\ missing' = missing + (IF lastFid # NoFid /\ enc > lastFid + 1
                                   THEN enc - lastFid - 1 ELSE 0)
      BY <2>1, <1>3 DEF Account, Observe
    <3>2. missing \in Nat /\ lost \in Nat /\ lost' = lost /\ reopens' = reopens /\ opened' = opened
      BY <1>1, <1>2 DEF DropTypeOK, lossVars
    <3>3. missing' = lost'
      <4>1. CASE fed = <<>>
        BY <4>1, <3>1, <3>2, <1>5 DEF IInv, CopyLoss
      <4>2. CASE fed # <<>>
        <5>1. lastFid \in Nat /\ lastFid < enc /\ missing + (enc - lastFid - 1) = lost
          BY <4>2, <1>5 DEF IInv, CopyLoss
        <5> QED BY <5>1, <3>1, <3>2, <1>1 DEF NoFid
      <4> QED BY <4>1, <4>2
    <3>4. /\ lastFid' \in Nat /\ lastFid' < enc' /\ lastFid' = enc' - 1
          /\ missing' + (enc' - lastFid' - 1) = lost'
      BY <3>1, <3>2, <3>3, <1>1, <1>2
    <3> QED BY <3>2, <3>4, <2>4, <1>2, <1>5 DEF IInv, CopyLoss
  <2>8. TimelineInv'
    <3>1. Line' /\ GoodLine'
      BY <1>1, <1>3, <2>1, <2>2, OwnKeepsLine
    <3>2. MemoInv'
      <4>1. ASSUME NEW k \in 1..Len(memo')
            PROVE  \E i \in opened' + 1..Passed' : memo'[k].stamp = stamped'[i]
        <5>1. Passed = enc /\ Passed' = enc + 1 /\ opened' = opened /\ stamped' = stamped
          BY <1>2, <1>5 DEF Passed
        <5>2. CASE memo'[k].stamp = s
          <6>1. enc + 1 \in opened' + 1..Passed'
            BY <5>1, <1>1
          <6> QED BY <5>1, <5>2, <6>1
        <5>3. CASE \E j \in 1..Len(memo) : memo'[k] = memo[j]
          <6>1. PICK i \in opened + 1..enc : memo'[k].stamp = stamped[i]
            BY <5>1, <5>3, <2>1 DEF MemoInv
          <6>2. i \in opened' + 1..Passed'
            BY <5>1, <1>1
          <6> QED BY <5>1, <6>1, <6>2
        <5> QED BY <5>2, <5>3, <1>1, <1>3, <2>1, <2>2, OwnFeeds
      <4> QED BY <4>1 DEF MemoInv
    <3> QED BY <3>1, <3>2 DEF TimelineInv
  <2> QED BY <2>5, <2>6, <2>7, <2>8, <1>4 DEF IInv
<1>6. CASE mode = "reencode"
  <2>1. UNCHANGED <<timeVars, fed, dropVars>>
    BY <1>6 DEF OnEncoded
  <2>2. TypeOK'
    BY <2>1, <1>1, <1>2, <1>4 DEF TypeOK, TimeTypeOK, SourceTypeOK, DropTypeOK, ShownTypeOK,
       timeVars, dropVars, lossVars
  <2>3. FedInv' /\ CopyLoss' /\ TimelineInv'
    BY <1>2, <1>6 DEF FedInv, RecordingKeepsIdentity, CopyLoss, TimelineInv, OwnBranch
  <2> QED BY <2>2, <2>3, <1>4 DEF IInv
<1> QED BY <1>2, <1>5, <1>6 DEF OnEncoded

(* The decode branch of a stream-copy source moves nothing but itself.     *)
LEMMA FrameStep == IInv /\ OnFrame => IInv'
<1> SUFFICES ASSUME IInv, OnFrame PROVE IInv'
  OBVIOUS
<1> USE TimelineAssumption
<1>1. /\ TimeTypeOK /\ SourceTypeOK /\ DropTypeOK /\ ShownTypeOK
  BY TypeParts DEF IInv
<1>2. PICK i \in dec + 1..Len(stamped), intact \in BOOLEAN :
        /\ dec' = i
        /\ \/ mode = "copy" /\ OnFrameCopy(StampFor(i, intact))
           \/ /\ mode = "reencode" /\ UNCHANGED shown
              /\ OwnPts(StampFor(i, intact)) /\ Account(StampFor(i, intact), FALSE)
  BY DEF OnFrame
<1> DEFINE s == StampFor(i, intact)
<1>3. mode # "raw" /\ UNCHANGED <<mode, stamped, enc, opened, reopens, lossVars>>
  BY DEF OnFrame
<1>4. i \in 1..Len(stamped) /\ s \in Stamp
  <2>1. i \in 1..Len(stamped)
    BY <1>1 DEF SourceTypeOK
  <2> QED BY <2>1, <1>1, Found
<1>5. SourceTypeOK' /\ QueueInv' /\ RawLoss'
  <2>1. SourceTypeOK'
    BY <1>1, <1>2, <1>3, <1>4 DEF SourceTypeOK
  <2> QED BY <2>1, <1>3 DEF IInv, QueueInv, RawLoss
<1> HIDE DEF s
<1>6. CASE mode = "copy"
  <2>1. shown' = <<[stamp |-> s, pts |-> View(s)]>> /\ UNCHANGED <<timeVars, fed, dropVars>>
    BY <1>2, <1>6 DEF OnFrameCopy, Show, s
  <2>2. TypeOK'
    <3>1. [stamp |-> s, pts |-> View(s)] \in Timed
      BY <1>1, <1>4, ViewTyped DEF Timed
    <3>2. ShownTypeOK'
      BY <2>1, <3>1 DEF ShownTypeOK
    <3>3. TimeTypeOK' /\ DropTypeOK'
      BY <2>1, <1>1, <1>3 DEF TimeTypeOK, DropTypeOK, timeVars, dropVars, lossVars
    <3> QED BY <3>2, <3>3, <1>5 DEF TypeOK, TimeTypeOK, SourceTypeOK, DropTypeOK, ShownTypeOK
  <2>3. FedInv' /\ CopyLoss'
    BY <2>1, <1>3 DEF IInv, FedInv, RecordingKeepsIdentity, CopyLoss, dropVars, lossVars
  <2>4. TimelineInv'
    BY <2>1, <1>3, <1>6 DEF IInv, TimelineInv, OwnBranch, MemoInv, Passed, Line, GoodLine,
       RecordedPtsIncrease, OutagesKept, RebaseAttested, timeVars
  <2> QED BY <2>2, <2>3, <2>4, <1>5 DEF IInv
<1>7. CASE mode = "reencode"
  <2>1. OwnPts(s) /\ Account(s, FALSE) /\ shown' = shown
    BY <1>2, <1>7 DEF s
  <2>2. TypeOK'
    <3>1. TimeTypeOK'
      BY <2>1, <1>1, <1>4, OwnTyped
    <3>2. DropTypeOK'
      BY <2>1, <1>1, <1>3, <1>4, AccountTyped DEF DropTypeOK, lossVars
    <3>3. ShownTypeOK'
      BY <2>1, <1>1 DEF ShownTypeOK
    <3> QED BY <3>1, <3>2, <3>3, <1>5
            DEF TypeOK, TimeTypeOK, SourceTypeOK, DropTypeOK, ShownTypeOK
  <2>3. FedInv' /\ CopyLoss' /\ TimelineInv'
    BY <1>3, <1>7 DEF FedInv, RecordingKeepsIdentity, CopyLoss, TimelineInv, OwnBranch
  <2> QED BY <2>2, <2>3, <1>5 DEF IInv
<1> QED BY <1>2, <1>6, <1>7

(* A reconnect forgets the memo and flushes both branches.                 *)
LEMMA ReopenStep == IInv /\ Reopen => IInv'
<1> SUFFICES ASSUME IInv, Reopen PROVE IInv'
  OBVIOUS
<1> USE TimelineAssumption
<1> DEFINE n == Len(stamped)
<1>1. /\ TimeTypeOK /\ SourceTypeOK /\ DropTypeOK /\ ShownTypeOK
      /\ n \in Nat /\ enc \in 0..n
  BY TypeParts DEF IInv, SourceTypeOK
<1>2. /\ reopens < MaxReopens /\ reopens' = reopens + 1 /\ memo' = <<>>
      /\ opened' = n /\ enc' = n /\ dec' = n
      /\ lost' = lost + (IF mode = "copy" /\ fed # <<>> THEN n - enc ELSE 0)
      /\ UNCHANGED <<mode, stamped, started, base, skew, last, rebases,
                     dropVars, fed, shown, recycled>>
  BY DEF Reopen, ClearMemo
<1>3. TypeOK'
  <2>1. TimeTypeOK'
    BY <1>1, <1>2 DEF TimeTypeOK
  <2>2. SourceTypeOK' /\ ShownTypeOK'
    BY <1>1, <1>2 DEF SourceTypeOK, ShownTypeOK
  <2>3. DropTypeOK'
    BY <1>1, <1>2 DEF DropTypeOK, dropVars
  <2> QED BY <2>1, <2>2, <2>3 DEF TypeOK, TimeTypeOK, SourceTypeOK, DropTypeOK, ShownTypeOK
<1>4. QueueInv'
  BY <1>1, <1>2 DEF IInv, QueueInv
<1>5. FedInv'
  <2>1. \A i \in 1..Len(fed) : fed[i].stamp.fid \in Nat
    BY <1>1, FidsTyped
  <2>2. mode = "copy" => \A i \in 1..Len(fed) : fed[i].stamp.fid < n
    BY <2>1, <1>1 DEF IInv, FedInv
  <2> QED BY <2>2, <1>2 DEF IInv, FedInv, RecordingKeepsIdentity
<1>6. RawLoss'
  <2>1. mode = "raw" => lost' = lost
    BY <1>1, <1>2 DEF DropTypeOK
  <2> QED BY <2>1, <1>2 DEF IInv, RawLoss, dropVars
<1>7. CopyLoss'
  <2> SUFFICES ASSUME mode = "copy" PROVE CopyLoss'
    BY <1>2 DEF CopyLoss
  <2>1. reopens' # 0 /\ lastFid' = lastFid /\ missing' = missing /\ fed' = fed /\ lost \in Nat
    BY <1>1, <1>2 DEF SourceTypeOK, dropVars, DropTypeOK
  <2>2. CASE fed = <<>>
    BY <2>1, <2>2, <1>2 DEF IInv, CopyLoss
  <2>3. CASE fed # <<>>
    <3>1. lastFid \in Nat /\ lastFid < enc /\ missing + (enc - lastFid - 1) = lost
      BY <2>3 DEF IInv, CopyLoss
    <3>2. lost' = lost + (n - enc) /\ missing \in Nat
      BY <2>3, <1>1, <1>2 DEF DropTypeOK
    <3>3. lastFid < n /\ missing + (n - lastFid - 1) = lost + (n - enc)
      BY <3>1, <3>2, <2>1, <1>1
    <3>4. ~(enc' > opened')
      BY <1>1, <1>2
    <3> QED BY <2>1, <2>3, <3>1, <3>2, <3>3, <3>4, <1>2 DEF CopyLoss
  <2> QED BY <2>2, <2>3
<1>8. TimelineInv'
  BY <1>2 DEF IInv, TimelineInv, OwnBranch, MemoInv, Line, GoodLine,
     RecordedPtsIncrease, OutagesKept, RebaseAttested
<1> QED BY <1>3, <1>4, <1>5, <1>6, <1>7, <1>8 DEF IInv

(* The invariant is inductive.                                             *)
LEMMA NextIInv == IInv /\ [Next]_vars => IInv'
<1>1. ASSUME IInv, UNCHANGED vars PROVE IInv'
  BY <1>1 DEF IInv, TypeOK, QueueInv, FedInv, RecordingKeepsIdentity, RawLoss, CopyLoss,
     TimelineInv, OwnBranch, MemoInv, Passed, Line, GoodLine, RecordedPtsIncrease, OutagesKept,
     RebaseAttested, vars, sourceVars, timeVars, dropVars, lossVars
<1> QED BY <1>1, CaptureStep, ProbeStep, EncodedStep, FrameStep, ReopenStep DEF Next

(* Every reachable state satisfies the invariant.                          *)
LEMMA Invariance == Spec => []IInv
BY InitIInv, NextIInv, PTL DEF Spec

-----------------------------------------------------------------------------
(* What the memo recalls.                                                  *)

(* Copy: the memo holds the last frames of this opening, each with the PTS *)
(* it was recorded with, and no frame was recorded twice.                  *)
RecallInv ==
  mode = "copy" =>
    /\ Len(memo) = IF enc - opened < MemoDepth THEN enc - opened ELSE MemoDepth
    /\ Len(memo) <= Len(fed)
    /\ \A k \in 1..Len(memo) :
         /\ memo[k] = fed[Len(fed) - Len(memo) + k]
         /\ memo[k].stamp = stamped[enc - Len(memo) + k]
    /\ \A i, j \in 1..Len(fed) : i < j => fed[i].stamp.fid < fed[j].stamp.fid

(* The recorded frame is the newest of the memo.                           *)
LEMMA RecallEncoded == IInv /\ RecallInv /\ OnEncoded => RecallInv'
<1> SUFFICES ASSUME IInv, RecallInv, OnEncoded, mode = "copy" PROVE RecallInv'
  BY DEF OnEncoded, RecallInv
<1> USE TimelineAssumption
<1> DEFINE s == stamped[enc + 1]  n == Len(memo)  m == Len(fed)
<1>1. /\ TimeTypeOK /\ SourceTypeOK /\ enc \in Nat /\ opened \in Nat /\ opened <= enc
      /\ Len(stamped) \in Nat /\ enc < Len(stamped) /\ enc' = enc + 1
      /\ MemoDepth \in Nat /\ MemoDepth >= 1
      /\ UNCHANGED <<mode, stamped, opened>> /\ memo \in Seq(Timed) /\ fed \in Seq(Timed)
      /\ n \in Nat /\ m \in Nat
  BY TypeParts DEF IInv, SourceTypeOK, TimeTypeOK, QueueInv, OnEncoded
<1>2. \A i \in 1..Len(stamped) : stamped[i].fid = i - 1
  BY DEF IInv, QueueInv
<1>3. s.fid = enc /\ s \in Stamp /\ StampFor(enc + 1, TRUE) = s
  <2>1. enc + 1 \in 1..Len(stamped) /\ enc + 1 > Len(stamped) - Window
    BY <1>1 DEF IInv, QueueInv
  <2>2. s.fid = enc
    <3> DEFINE x == enc + 1
    <3>1. x \in 1..Len(stamped) /\ x - 1 = enc
      BY <2>1, <1>1
    <3>2. s = stamped[x]
      OBVIOUS
    <3> HIDE DEF x, s
    <3> QED BY <3>1, <3>2, <1>2
  <2>3. s \in Stamp /\ StampFor(enc + 1, TRUE) = s
    BY <2>1, <1>1, Found DEF SourceTypeOK
  <2> QED BY <2>2, <2>3
<1>4. /\ n = IF enc - opened < MemoDepth THEN enc - opened ELSE MemoDepth
      /\ n <= m
      /\ \A k \in 1..n : memo[k] = fed[m - n + k] /\ memo[k].stamp = stamped[enc - n + k]
      /\ \A i, j \in 1..m : i < j => fed[i].stamp.fid < fed[j].stamp.fid
      /\ \A i \in 1..m : fed[i].stamp.fid < enc
  BY DEF RecallInv, IInv, FedInv
<1>5. ~Remembered(s)
  <2>1. ASSUME NEW k \in 1..n, memo[k].stamp = s PROVE FALSE
    <3>1. enc - n + k \in 1..Len(stamped) /\ enc - n + k <= enc
      BY <1>1, <1>4
    <3>2. memo[k].stamp = stamped[enc - n + k]
      BY <1>4
    <3> DEFINE x == enc - n + k
    <3> HIDE DEF x
    <3>3. x \in 1..Len(stamped) /\ x <= enc /\ s = stamped[x]
      BY <2>1, <3>1, <3>2 DEF x
    <3>4. s.fid = x - 1
      BY <3>3, <1>2
    <3> QED BY <3>3, <3>4, <1>1, <1>3
  <2> QED BY <2>1 DEF Remembered
<1>6. OwnPts(s)
  BY <1>3 DEF OnEncoded
<1>7. PICK p \in Nat : memo' = Memoize(memo, [stamp |-> s, pts |-> p]) /\ Feed(s, p)
  BY <1>1, <1>3, <1>5, <1>6, OwnExtends
<1> DEFINE e == [stamp |-> s, pts |-> p]
<1>8. e \in Timed
  BY <1>3 DEF Timed
<1>9. /\ Len(fed') = m + 1 /\ fed'[m + 1] = e
      /\ \A i \in 1..m : fed'[i] = fed[i]
  BY <1>1, <1>7, <1>8 DEF Feed
<1>10. /\ Len(memo') = IF n < MemoDepth THEN n + 1 ELSE n
       /\ n >= 0 /\ memo'[Len(memo')] = e
       /\ \A k \in 1..Len(memo') - 1 : k + n + 1 - Len(memo') \in 1..n
                                       /\ memo'[k] = memo[k + n + 1 - Len(memo')]
  <2>1. CASE n < MemoDepth
    <3>1. memo' = Append(memo, e)
      BY <2>1, <1>7 DEF Memoize
    <3>2. Len(memo') = n + 1 /\ memo'[n + 1] = e /\ \A k \in 1..n : memo'[k] = memo[k]
      BY <3>1, <1>1, <1>8
    <3> QED BY <2>1, <3>2, <1>1
  <2>2. CASE ~(n < MemoDepth)
    <3>1. memo' = Append(Tail(memo), e) /\ n >= 1 /\ memo # <<>>
      BY <2>2, <1>1, <1>7 DEF Memoize
    <3>2. /\ Tail(memo) \in Seq(Timed) /\ Len(Tail(memo)) = n - 1
          /\ \A k \in 1..n - 1 : Tail(memo)[k] = memo[k + 1]
      BY <3>1, <1>1
    <3>3. Len(memo') = n /\ memo'[n] = e /\ \A k \in 1..n - 1 : memo'[k] = memo[k + 1]
      BY <3>1, <3>2, <1>8
    <3>4. \A k \in 1..n - 1 : k + n + 1 - n = k + 1 /\ k + 1 \in 1..n
      BY <1>1
    <3> QED BY <2>2, <3>3, <3>4, <1>1
  <2> QED BY <2>1, <2>2
<1> HIDE DEF e, s, n, m
<1>11. /\ Len(memo') = IF enc' - opened' < MemoDepth THEN enc' - opened' ELSE MemoDepth
       /\ Len(memo') <= Len(fed')
  BY <1>1, <1>4, <1>9, <1>10
<1>12. ASSUME NEW k \in 1..Len(memo')
       PROVE  /\ memo'[k] = fed'[Len(fed') - Len(memo') + k]
              /\ memo'[k].stamp = stamped'[enc' - Len(memo') + k]
  <2>1. CASE k = Len(memo')
    <3>1. Len(fed') - Len(memo') + k = m + 1 /\ enc' - Len(memo') + k = enc + 1
      BY <2>1, <1>1, <1>9, <1>10
    <3>2. memo'[k] = e /\ e.stamp = s /\ stamped' = stamped
      BY <2>1, <1>1, <1>10 DEF e
    <3> QED BY <3>1, <3>2, <1>9 DEF s
  <2>2. CASE k # Len(memo')
    <3> DEFINE l == k + n + 1 - Len(memo')
    <3>1. Len(memo') \in Nat /\ k \in 1..Len(memo') - 1
      BY <2>2, <1>1, <1>10
    <3>2. l \in 1..n /\ memo'[k] = memo[l]
      BY <3>1, <1>10
    <3>a. n \in Nat /\ m \in Nat /\ n <= m
      BY <1>1, <1>4 DEF n, m
    <3>3. /\ Len(fed') - Len(memo') + k = m - n + l /\ enc' - Len(memo') + k = enc - n + l
          /\ m - n + l \in 1..m
      <4>1. k \in Nat /\ l \in 1..n /\ l = k + n + 1 - Len(memo') /\ Len(fed') = m + 1 /\ enc' = enc + 1
        BY <3>1, <3>2, <1>1, <1>9
      <4> HIDE DEF l
      <4>2. m - n + l \in 1..m
        BY <4>1, <3>a
      <4>3. Len(fed') - Len(memo') + k = m - n + l /\ enc' - Len(memo') + k = enc - n + l
        BY <4>1, <3>1, <3>a, <1>1
      <4> QED BY <4>2, <4>3
    <3>4. memo[l] = fed[m - n + l] /\ memo[l].stamp = stamped[enc - n + l]
      BY <3>2, <1>4
    <3>5. fed'[m - n + l] = fed[m - n + l] /\ stamped' = stamped
      BY <3>3, <1>1, <1>9
    <3> HIDE DEF l
    <3> QED BY <3>2, <3>3, <3>4, <3>5
  <2> QED BY <2>1, <2>2
<1>13. ASSUME NEW i \in 1..Len(fed'), NEW j \in 1..Len(fed'), i < j
       PROVE  fed'[i].stamp.fid < fed'[j].stamp.fid
  <2>1. i \in 1..m /\ fed'[i] = fed[i]
    BY <1>13, <1>1, <1>9
  <2>2. CASE j = m + 1
    <3>1. fed'[j].stamp.fid = enc
      BY <2>2, <1>3, <1>9 DEF e
    <3> QED BY <3>1, <2>1, <1>4
  <2>3. CASE j # m + 1
    <3>1. j \in 1..m /\ fed'[j] = fed[j]
      BY <2>3, <1>1, <1>9
    <3> QED BY <3>1, <2>1, <1>4, <1>13
  <2> QED BY <2>2, <2>3
<1> QED BY <1>11, <1>12, <1>13 DEF RecallInv

(* Nobody else touches the memo but a reconnect, which empties it.         *)
LEMMA RecallStep == IInv /\ RecallInv /\ [Next]_vars => RecallInv'
<1> SUFFICES ASSUME IInv, RecallInv, [Next]_vars, mode' = "copy" PROVE RecallInv'
  BY DEF RecallInv
<1>1. /\ TimeTypeOK /\ SourceTypeOK /\ enc \in Nat /\ opened \in Nat /\ opened <= enc
      /\ Len(stamped) \in Nat /\ enc <= Len(stamped) /\ stamped \in Seq(Stamp)
      /\ Len(memo) \in Nat
      /\ MemoDepth \in Nat /\ MemoDepth >= 1
  BY TypeParts, TimelineAssumption DEF IInv, SourceTypeOK, TimeTypeOK, QueueInv
<1>2. CASE CaptureRaw
  BY <1>2 DEF CaptureRaw
<1>3. CASE StampProbe
  <2>1. /\ UNCHANGED <<mode, enc, opened, memo, fed>>
        /\ \E t \in 1..MaxTime : stamped' = Append(stamped, [fid |-> Len(stamped), ts |-> t])
    BY <1>3 DEF StampProbe, timeVars
  <2>2. \A i \in 1..Len(stamped) : stamped'[i] = stamped[i]
    BY <1>1, <2>1 DEF Stamp
  <2>3. Len(memo) <= enc
    BY <1>1, <2>1 DEF RecallInv
  <2>4. \A k \in 1..Len(memo) : enc - Len(memo) + k \in 1..Len(stamped)
    BY <1>1, <2>3
  <2>5. \A k \in 1..Len(memo) : stamped'[enc - Len(memo) + k] = stamped[enc - Len(memo) + k]
    BY <2>2, <2>4
  <2> QED BY <2>1, <2>5 DEF RecallInv
<1>4. CASE OnFrame
  <2>1. UNCHANGED <<mode, enc, opened, memo, fed, stamped>>
    BY <1>4 DEF OnFrame, OnFrameCopy, Show, timeVars
  <2> QED BY <2>1 DEF RecallInv
<1>5. CASE Reopen
  <2>1. /\ UNCHANGED <<mode, fed, stamped>> /\ memo' = <<>>
        /\ enc' = Len(stamped) /\ opened' = Len(stamped)
    BY <1>5 DEF Reopen, ClearMemo
  <2>2. Len(memo') = 0 /\ enc' - opened' = 0 /\ Len(fed) \in Nat
    BY <1>1, <2>1 DEF TimeTypeOK
  <2>3. \A i, j \in 1..Len(fed) : i < j => fed[i].stamp.fid < fed[j].stamp.fid
    BY <2>1 DEF RecallInv
  <2> QED BY <1>1, <2>1, <2>2, <2>3 DEF RecallInv
<1>6. CASE UNCHANGED vars
  BY <1>6 DEF RecallInv, vars, timeVars, sourceVars
<1> QED BY <1>2, <1>3, <1>4, <1>5, <1>6, RecallEncoded DEF Next

(* What a consumer is given of a recorded frame is what was recorded.      *)
LEMMA ShownAsRecorded ==
  ASSUME IInv, RecallInv, OnFrame, shown' # shown,
         NEW j \in 1..Len(fed), fed[j].stamp = shown'[1].stamp, fed[j].stamp \in SinceOpened
  PROVE  fed[j].pts = shown'[1].pts
<1> USE TimelineAssumption
<1>0. PICK f \in dec + 1..Len(stamped), intact \in BOOLEAN :
        mode = "copy" /\ OnFrameCopy(StampFor(f, intact))
  BY Zenon DEF OnFrame
<1> DEFINE s == StampFor(f, intact)
           N == Len(stamped)
           n == Len(memo)
           m == Len(fed)
<1>1. shown' = <<[stamp |-> s, pts |-> View(s)]>>
  BY <1>0 DEF OnFrameCopy, Show
<1>2. shown'[1].stamp = s /\ shown'[1].pts = View(s) /\ fed[j].stamp = s /\ s \in SinceOpened
  BY <1>1
<1>3. /\ TimeTypeOK /\ SourceTypeOK /\ N \in Nat /\ f \in 1..N /\ enc \in 0..N /\ opened \in 0..N
      /\ n \in Nat /\ m \in Nat /\ opened <= enc /\ N - enc <= EncDepth
      /\ EncDepth <= Window /\ Window <= MemoDepth /\ MemoDepth >= 1
      /\ {EncDepth, Window, MemoDepth} \subseteq Nat
  BY <1>0, TypeParts DEF IInv, SourceTypeOK, TimeTypeOK, QueueInv
<1>4. \A i \in 1..N : stamped[i].fid = i - 1
  BY <1>0 DEF IInv, QueueInv
<1>5. PICK i \in 1..N : s = stamped[i] /\ (i > N - Window \/ i = N)
  <2>1. N \in 1..N
    BY <1>3
  <2> QED BY <2>1, <1>3 DEF StampFor, Kept, Newest
<1> HIDE DEF s
<1>6. PICK i2 \in opened + 1..N : s = stamped[i2]
  BY <1>2 DEF SinceOpened
<1>7. i = i2
  <2>1. i2 \in 1..N
    BY <1>3
  <2>2. stamped[i].fid = i - 1 /\ stamped[i2].fid = i2 - 1
    BY Zenon, <2>1, <1>4
  <2> QED BY <2>2, <1>3, <1>5, <1>6
<1>8. /\ n = IF enc - opened < MemoDepth THEN enc - opened ELSE MemoDepth
      /\ n <= m
      /\ \A k \in 1..n : memo[k] = fed[m - n + k] /\ memo[k].stamp = stamped[enc - n + k]
      /\ \A a, b \in 1..m : a < b => fed[a].stamp.fid < fed[b].stamp.fid
      /\ \A a \in 1..m : fed[a].stamp.fid < enc
  BY <1>0 DEF RecallInv, IInv, FedInv
<1> HIDE DEF n, m, N
<1>9. i <= enc
  <2>1. fed[j].stamp.fid < enc /\ fed[j].stamp.fid = i - 1
    BY <1>2, <1>4, <1>5, <1>8 DEF m
  <2> QED BY <2>1, <1>3
<1>10. i - enc + n \in 1..n
  <2>1. n \in Nat /\ N \in Nat /\ enc \in Nat /\ opened \in Nat /\ enc <= N /\ i \in Nat
    BY <1>3 DEF n, N
  <2>2. i > opened /\ N - enc <= EncDepth /\ i <= enc
    BY <1>3, <1>6, <1>7, <1>9 DEF N
  <2>3. i > N - MemoDepth
    BY <1>3, <1>5, <2>1
  <2>4. i > enc - n
    BY <1>3, <1>8, <2>1, <2>2, <2>3
  <2> QED BY <2>1, <2>2, <2>4
<1>11. memo[i - enc + n].stamp = s
  <2>1. enc - n + (i - enc + n) = i
    BY <1>3
  <2> QED BY <2>1, <1>5, <1>8, <1>10
<1>12. Remembered(s)
  BY <1>10, <1>11 DEF Remembered, n
<1> DEFINE at == CHOOSE k \in 1..Len(memo) : memo[k].stamp = s
<1>13. at \in 1..n /\ memo[at].stamp = s
  <2>1. \E k \in 1..Len(memo) : memo[k].stamp = s
    BY <1>12 DEF Remembered
  <2> QED BY <2>1, Zenon DEF n
<1>14. View(s) = memo[at].pts
  BY <1>12 DEF View, MemoPts
<1> HIDE DEF at
<1>15. m - n + at = j
  <2> DEFINE a == m - n + at
  <2>0. n \in Nat /\ m \in Nat /\ n <= m
    BY <1>3, <1>8 DEF n, m
  <2>1. a \in 1..m /\ memo[at] = fed[a]
    BY <2>0, <1>8, <1>13
  <2>2. fed[a].stamp.fid = i - 1 /\ fed[j].stamp.fid = i - 1
    BY <2>1, <1>2, <1>4, <1>5, <1>13
  <2> HIDE DEF a
  <2>3. ~(a < j) /\ ~(j < a)
    <3>1. j \in 1..m /\ i \in Nat
      BY <1>5 DEF m
    <3>2. a < j => fed[a].stamp.fid < fed[j].stamp.fid
      BY <3>1, <2>1, <1>8
    <3>3. j < a => fed[j].stamp.fid < fed[a].stamp.fid
      BY <3>1, <2>1, <1>8
    <3> QED BY <3>1, <3>2, <3>3, <2>2
  <2>4. a = j
    BY <2>1, <2>3, <1>3 DEF m
  <2> QED BY <2>4 DEF a
<1> QED BY <1>2, <1>8, <1>13, <1>14, <1>15

-----------------------------------------------------------------------------
(* The theorems.                                                           *)

(* The timeline's state is what pipeline.py and dropstats.py say it is:    *)
(* the memo stays within its bound, the last PTS is never negative.        *)
THEOREM TypeCorrect == Spec => []TypeOK
<1>1. IInv => TypeOK
  BY DEF IInv
<1> QED BY <1>1, Invariance, PTL

(* No stamps a source can make give the muxer a PTS it cannot use, as long *)
(* as the recording rides its own branch.                                  *)
THEOREM MuxerGetsUsablePts == Spec => [](OwnBranch => RecordedPtsIncrease)
<1>1. IInv => (OwnBranch => RecordedPtsIncrease)
  BY DEF IInv, TimelineInv, GoodLine
<1> QED BY <1>1, Invariance, PTL

(* Outages shorter than the jump keep their length in the recording and    *)
(* nothing else shifts it.                                                 *)
THEOREM TimelineIsHonest == Spec => [](OwnBranch => OutagesKept)
<1>1. IInv => (OwnBranch => OutagesKept)
  BY DEF IInv, TimelineInv, GoodLine
<1> QED BY <1>1, Invariance, PTL

(* A recording whose sidecar counts no rebase maps back to absolute time.  *)
THEOREM RebasesAreCounted == Spec => [](OwnBranch => RebaseAttested)
<1>1. IInv => (OwnBranch => RebaseAttested)
  BY DEF IInv, TimelineInv, GoodLine
<1> QED BY <1>1, Invariance, PTL

(* A window that outlasts the encoded branch's queue is enough for every   *)
(* recorded frame to keep its own stamp.                                   *)
THEOREM StampsStayWithFrames == Spec => []RecordingKeepsIdentity
<1>1. IInv => RecordingKeepsIdentity
  BY DEF IInv, FedInv
<1> QED BY <1>1, Invariance, PTL

(* The drop counter never reports a frame that was not lost, and reports   *)
(* every one while the ids run on.                                         *)
THEOREM DropsAreHonest == Spec => [](OwnBranch => LossAttested)
<1>1. IInv => (OwnBranch => LossAttested)
  <2> SUFFICES ASSUME IInv, OwnBranch PROVE LossAttested
    OBVIOUS
  <2>1. /\ mode \in {"raw", "copy"} /\ missing \in Nat /\ lost \in Nat
        /\ enc \in Nat /\ opened \in Nat
    <3>1. SourceTypeOK /\ DropTypeOK
      BY TypeParts DEF IInv
    <3>2. mode \in {"raw", "copy"}
      BY <3>1, TimelineAssumption DEF OwnBranch, SourceTypeOK
    <3>3. enc \in Nat /\ opened \in Nat
      BY <3>1 DEF SourceTypeOK
    <3> QED BY <3>1, <3>2, <3>3 DEF DropTypeOK
  <2>2. CASE mode = "raw"
    BY <2>2 DEF IInv, RawLoss, LossAttested
  <2>3. CASE mode = "copy"
    <3>1. CASE fed = <<>>
      BY <2>3, <3>1 DEF IInv, CopyLoss, LossAttested
    <3>2. CASE fed # <<>>
      <4>1. /\ lastFid \in Nat /\ lastFid < enc /\ missing + (enc - lastFid - 1) = lost
            /\ enc > opened => lastFid = enc - 1
            /\ reopens = 0 => opened = 0
        BY <2>3, <3>2 DEF IInv, CopyLoss
      <4>2. missing <= lost
        BY <4>1, <2>1
      <4>3. enc > opened \/ reopens = 0 => missing = lost
        BY <4>1, <2>1
      <4> QED BY <2>3, <4>2, <4>3 DEF LossAttested
    <3> QED BY <3>1, <3>2
  <2> QED BY <2>1, <2>2, <2>3
<1> QED BY <1>1, Invariance, PTL

(* The three as the runs state them: the recording's time stamps are       *)
(* usable, ...                                                             *)
THEOREM PtsAreUsable == Spec => []MuxerPtsIncrease
<1>1. (OwnBranch => RecordedPtsIncrease) => MuxerPtsIncrease
  BY DEF MuxerPtsIncrease
<1> QED BY <1>1, MuxerGetsUsablePts, PTL

(* ... tell the sensor's time or are counted as corrected, ...             *)
THEOREM TimeIsAttested == Spec => []TimelineIsAttested
<1>1. (OwnBranch => OutagesKept) /\ (OwnBranch => RebaseAttested) => TimelineIsAttested
  BY DEF TimelineIsAttested
<1> QED BY <1>1, TimelineIsHonest, RebasesAreCounted, PTL

(* ... and belong to the frames that were delivered.                       *)
THEOREM IdentityIsAttested == Spec => []FramesAreAttested
<1>1. RecordingKeepsIdentity /\ (OwnBranch => LossAttested) => FramesAreAttested
  BY DEF FramesAreAttested
<1> QED BY <1>1, StampsStayWithFrames, DropsAreHonest, PTL

(* A consumer of a stream-copy source and its recording agree on the time  *)
(* of every frame both get, however far the decode branch is behind and    *)
(* whatever identity it has lost (pipeline.py:500-560, gstbase.py:195-240).*)
THEOREM ConsumersAgree == Spec => BranchesAgree
<1>1. Init => RecallInv
  BY TimelineAssumption DEF Init, RecallInv
<1>2. IInv /\ RecallInv /\ [Next]_vars => RecallInv'
  BY RecallStep
<1>3. IInv /\ RecallInv /\ [Next]_vars =>
        [shown' # shown =>
           \A i \in 1..Len(fed) :
             fed[i].stamp = shown'[1].stamp /\ fed[i].stamp \in SinceOpened
               => fed[i].pts = shown'[1].pts]_vars
  <2> SUFFICES ASSUME IInv, RecallInv, [Next]_vars, shown' # shown, NEW i \in 1..Len(fed),
                      fed[i].stamp = shown'[1].stamp, fed[i].stamp \in SinceOpened
               PROVE  fed[i].pts = shown'[1].pts
    OBVIOUS
  <2>1. OnFrame
    BY DEF Next, CaptureRaw, StampProbe, OnEncoded, Reopen, vars
  <2> QED BY <2>1, ShownAsRecorded
<1> QED BY <1>1, <1>2, <1>3, Invariance, PTL DEF Spec, BranchesAgree
=============================================================================
