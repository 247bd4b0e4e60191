----------------------------- MODULE Bridge_proofs -----------------------------
(***************************************************************************)
(* The bridge for every environment, all sizes and any traffic between the *)
(* threads.  Until the format changes, everything behind the source has been *)
(* configured from the one format there is (Fitted), so nothing in front of *)
(* the encoder can refuse a frame or take it for another; and the token is  *)
(* only ever added where the queryable is (Presented).  What viewers are    *)
(* told is derived from that format, too, and scaling only ever makes it    *)
(* smaller (Promised).                                                      *)
(***************************************************************************)
EXTENDS Bridge, SequenceTheorems, WellFoundedInduction, TLAPS

Frame == Formats \cup {Eos}

QueueTypeOK == queue \in Seq(Frame) /\ Len(queue) <= Depth

StreamTypeOK ==
  /\ conf \in ConfType /\ format \in Formats /\ srcCaps \in Formats \cup {None}
  /\ seam \in Seams /\ norm \in Norms
  /\ encoded \in Sizes \cup {Bound, None}

Presented ==
  /\ "token" \in presence => "queryable" \in presence
  /\ main = "done" => presence = {}
  /\ main = "token" => "queryable" \in presence

TheFormat == Caps(format)
TheNorm == IF TheFormat.kind = "mono16" THEN [how |-> "cut", size |-> Scaled(TheFormat.size)]
           ELSE [how |-> "pass", size |-> 0]

Fitted ==
  changes = 0 =>
    /\ srcCaps \in {None, TheFormat}
    /\ \A i \in DOMAIN queue : queue[i] \in {TheFormat, Eos}
    /\ seam.how = "open" \/ seam = Adapt(TheFormat)
    /\ norm.how = "new" \/ norm = TheNorm
    /\ encoded \in {None, Scaled(TheFormat.size)}
    /\ "error" \notin posted

Unbroken == changes = 0 => ~error /\ ~wrong

TypeInv == QueueTypeOK /\ StreamTypeOK /\ changes \in Nat

IInv == TypeInv /\ Presented /\ Fitted /\ Unbroken

LEMMA InitIInv == Init => IInv
<1> SUFFICES ASSUME Init PROVE IInv
  OBVIOUS
<1>1. QueueTypeOK /\ changes \in Nat
  BY BridgeAssumption DEF Init, QueueTypeOK
<1>2. StreamTypeOK
  BY BridgeAssumption DEF Init, StreamTypeOK, Seams, Norms
<1>3. Presented
  BY DEF Init, Presented
<1>4. Fitted
  BY DEF Init, Fitted
<1>5. Unbroken
  BY Zenon DEF Init, Unbroken
<1> QED BY <1>1, <1>2, <1>3, <1>4, <1>5 DEF IInv, TypeInv

LEMMA CapsType == ASSUME NEW f \in Formats, conf \in ConfType PROVE Caps(f) \in Formats /\ Caps(f).size = f.size
BY DEF Formats, Kinds, Caps, Label

LEMMA ScaledType == ASSUME NEW n \in Sizes PROVE Scaled(n) \in Sizes \cup {Bound} /\ Scaled(n) \in Nat
BY BridgeAssumption DEF Scaled, Target

(* Presence is the main loop's.                                            *)
LEMMA PresentedStep == IInv /\ [Next]_vars => Presented'
<1> SUFFICES ASSUME IInv, [Next]_vars PROVE Presented'
  OBVIOUS
<1> USE DEF IInv, Presented, MainOnly, advertVars, mainVars, vars
<1>1. CASE SourcePlays \/ Receive \/ Core \/ Flow \/ Pin \/ Flip
  BY <1>1 DEF SourcePlays, Receive, Core, Change, SourceEnds, Flow, FlowFrame, FlowEos, Pin, Flip
<1>2. CASE Main
  BY <1>2 DEF Main, Dispatch, Advertise, Retry, OnEos, OnError, AdvertFails, OpenSession, Serve,
      DeclareToken, Teardown
<1>3. CASE Signal
  BY <1>3 DEF Signal
<1>4. CASE UNCHANGED vars
  BY <1>4
<1> QED BY <1>1, <1>2, <1>3, <1>4 DEF Next

(* What a frame meets, and what becomes of it.                             *)
LEMMA FrameStep ==
  ASSUME IInv, FlowFrame
  PROVE  /\ QueueTypeOK' /\ StreamTypeOK' /\ changes' = changes
         /\ Fitted' /\ (changes = 0 => ~wrong')
<1> DEFINE c == Head(queue)
<1>1. /\ queue # <<>> /\ c \in Formats /\ Tail(queue) \in Seq(Frame) /\ Len(Tail(queue)) <= Depth
      /\ \E i \in DOMAIN queue : c = queue[i]
      /\ \A i \in DOMAIN Tail(queue) : \E j \in DOMAIN queue : Tail(queue)[i] = queue[j]
  <2>1. queue # <<>> /\ c # Eos
    BY DEF FlowFrame
  <2>2. queue \in Seq(Frame)
    BY DEF IInv, TypeInv, QueueTypeOK
  <2>3. c \in Frame /\ c = queue[1] /\ 1 \in DOMAIN queue /\ Tail(queue) \in Seq(Frame)
        /\ Len(Tail(queue)) = Len(queue) - 1
        /\ \A i \in DOMAIN Tail(queue) : i + 1 \in DOMAIN queue /\ Tail(queue)[i] = queue[i + 1]
    BY <2>1, <2>2, HeadTailProperties
  <2> HIDE DEF c
  <2> QED BY <2>1, <2>2, <2>3, BridgeAssumption DEF Frame, IInv, TypeInv, QueueTypeOK
<1> HIDE DEF c
<1>2. /\ UNCHANGED <<conf, format, changes, srcCaps>> /\ seam' = SeamOf(c)
      /\ \/ ~Passes(c) \/ Mismatch(c)
         \/ ~(~Passes(c) \/ Mismatch(c))
      /\ ~Passes(c) \/ Mismatch(c) => FlowFails
      /\ ~(~Passes(c) \/ Mismatch(c)) =>
           /\ queue' = Tail(queue) /\ UNCHANGED posted
           /\ norm' = IF conf.normalize THEN Configured(c) ELSE norm
           /\ encoded' = IF TooShort(c) THEN encoded ELSE FedSize(c)
           /\ wrong' = (wrong \/ (~TooShort(c) /\ FedSize(c) # Scaled(c.size)))
  BY Zenon DEF FlowFrame, c, sourceVars
<1>3. c.kind \in Kinds /\ c.size \in Sizes /\ Scaled(c.size) \in Sizes \cup {Bound} /\ Scaled(c.size) \in Nat
  BY <1>1, ScaledType DEF Formats
<1>4. SeamOf(c) \in Seams
  BY <1>1, <1>3 DEF SeamOf, Adapt, Seams, IInv, TypeInv, StreamTypeOK
<1>5. Configured(c) \in Norms
  BY <1>1, <1>3 DEF Configured, Norms, IInv, TypeInv, StreamTypeOK
<1>6. Sixteen(c) => Configured(c).size \in Sizes \cup {Bound}
  BY <1>5 DEF Norms, Sixteen
<1>7. FedSize(c) \in Sizes \cup {Bound}
  BY <1>3, <1>6 DEF FedSize
<1>8. QueueTypeOK'
  <2>1. queue' = <<>> \/ queue' = Tail(queue)
    BY <1>2 DEF FlowFails
  <2>2. CASE queue' = <<>>
    <3>1. Depth \in Nat
      BY BridgeAssumption
    <3> QED BY <2>2, <3>1 DEF QueueTypeOK
  <2>3. CASE queue' = Tail(queue)
    BY <1>1, <2>3 DEF QueueTypeOK
  <2> QED BY <2>1, <2>2, <2>3
<1>9. StreamTypeOK'
  BY <1>2, <1>4, <1>5, <1>7 DEF FlowFails, StreamTypeOK, IInv, TypeInv
<1>10. ASSUME changes = 0
       PROVE  /\ c = TheFormat /\ Passes(c) /\ ~Mismatch(c) /\ SeamOf(c) = Adapt(c)
              /\ Configured(c) = TheNorm /\ ~TooShort(c) /\ FedSize(c) = Scaled(c.size)
  <2>1. c = TheFormat
    <3>1. c # Eos
      BY DEF FlowFrame, c
    <3> QED BY <1>1, <1>10, <3>1 DEF IInv, Fitted
  <2>2. SeamOf(c) = Adapt(c)
    BY <1>10, <2>1 DEF SeamOf, IInv, Fitted
  <2>3. Passes(c)
    <3>1. CASE c.kind # "bayer8"
      <4>1. Adapt(c) = [how |-> "straight", size |-> 0]
        BY <3>1 DEF Adapt
      <4> QED BY <3>1, <4>1, <2>2 DEF Passes
    <3>2. CASE c.kind = "bayer8" /\ conf.debayer
      BY <3>2, <2>2 DEF Passes, Adapt
    <3>3. CASE c.kind = "bayer8" /\ ~conf.debayer
      <4>1. Adapt(c) = [how |-> "relabel", size |-> c.size]
        BY <3>3 DEF Adapt
      <4> QED BY <4>1, <2>2 DEF Passes
    <3> QED BY <3>1, <3>2, <3>3
  <2>4. Configured(c) = TheNorm
    BY <1>10, <2>1 DEF Configured, TheNorm, IInv, Fitted
  <2>5. Sixteen(c) => c.kind = "mono16" /\ Configured(c).size = Scaled(c.size)
    BY <2>1, <2>4 DEF Sixteen, TheNorm
  <2>6. ~TooShort(c)
    BY <1>3, <2>5 DEF TooShort, Bytes
  <2>7. FedSize(c) = Scaled(c.size)
    BY <2>5 DEF FedSize
  <2>8. ~Mismatch(c)
    BY <1>10, <2>1 DEF Mismatch, IInv, Fitted
  <2> QED BY <2>1, <2>2, <2>3, <2>4, <2>6, <2>7, <2>8
<1>11. TheFormat' = TheFormat /\ TheNorm' = TheNorm /\ Adapt(TheFormat)' = Adapt(TheFormat)
       /\ Scaled(TheFormat.size)' = Scaled(TheFormat.size)
  BY <1>2 DEF TheFormat, TheNorm, Caps, Label, Adapt, Scaled, Target
<1>12. Fitted'
  <2> SUFFICES ASSUME changes = 0 PROVE Fitted'
    BY <1>2 DEF Fitted
  <2> HIDE DEF TheFormat, TheNorm, Eos
  <2>1. /\ queue' = Tail(queue) /\ UNCHANGED posted /\ seam' = Adapt(TheFormat)
        /\ norm' \in {norm, TheNorm} /\ encoded' = Scaled(TheFormat.size)
    BY <1>2, <1>10
  <2>2. \A i \in DOMAIN queue' : queue'[i] \in {TheFormat, Eos}
    BY <1>1, <2>1 DEF IInv, Fitted
  <2> QED BY <1>2, <1>11, <2>1, <2>2 DEF IInv, Fitted
<1>13. changes = 0 => ~wrong'
  BY Zenon, <1>2, <1>10 DEF IInv, Unbroken
<1> QED BY <1>2, <1>8, <1>9, <1>12, <1>13

LEMMA StreamStep == IInv /\ [Next]_vars => (TypeInv /\ Fitted /\ Unbroken)'
<1> DEFINE Goal == TypeInv' /\ Fitted' /\ Unbroken'
<1> SUFFICES ASSUME IInv, [Next]_vars PROVE Goal
  OBVIOUS
<1>0. /\ queue \in Seq(Frame) /\ Len(queue) \in Nat /\ Depth \in Nat /\ Caps(format) \in Formats
      /\ changes \in Nat
  BY CapsType, BridgeAssumption DEF IInv, TypeInv, QueueTypeOK, StreamTypeOK
<1>1. ASSUME UNCHANGED <<conf, format, changes, srcCaps, queue, flowVars, wrong, error>>, posted' \ posted \subseteq {"playing"}
      PROVE  Goal
  <2>1. TypeInv'
    BY <1>1 DEF IInv, TypeInv, QueueTypeOK, StreamTypeOK, flowVars
  <2>2. TheFormat' = TheFormat /\ TheNorm' = TheNorm /\ Adapt(TheFormat)' = Adapt(TheFormat)
         /\ Scaled(TheFormat.size)' = Scaled(TheFormat.size)
    BY <1>1 DEF TheFormat, TheNorm, Caps, Label, Adapt, Scaled, Target
  <2>3. Fitted'
    BY <1>1, <2>2 DEF IInv, Fitted, flowVars
  <2>4. Unbroken'
    BY Zenon, <1>1 DEF IInv, Unbroken
  <2> QED BY <2>1, <2>3, <2>4
<1>2. CASE Receive
  <2>1. /\ srcCaps' = TheFormat /\ queue' = Append(queue, TheFormat) /\ Len(queue) < Depth
        /\ posted' \ posted \subseteq {"first"}
        /\ UNCHANGED <<conf, format, changes, seam, norm, encoded, scale, wrong, error>>
    BY <1>2 DEF Receive, TheFormat, flowVars, mainVars
  <2>2. TypeInv'
    BY <1>0, <2>1 DEF IInv, TypeInv, QueueTypeOK, StreamTypeOK, TheFormat, Frame
  <2>3. TheFormat' = TheFormat /\ TheNorm' = TheNorm /\ Adapt(TheFormat)' = Adapt(TheFormat)
         /\ Scaled(TheFormat.size)' = Scaled(TheFormat.size)
    BY <2>1 DEF TheFormat, TheNorm, Caps, Label, Adapt, Scaled, Target
  <2>4. \A i \in DOMAIN queue' : (i \in DOMAIN queue /\ queue'[i] = queue[i]) \/ queue'[i] = TheFormat
    BY <1>0, <2>1, AppendProperties DEF TheFormat, Frame
  <2>5. Fitted'
    BY <2>1, <2>3, <2>4 DEF IInv, Fitted
  <2>6. Unbroken'
    BY Zenon, <2>1 DEF IInv, Unbroken
  <2> QED BY <2>2, <2>5, <2>6
<1>3. CASE Change
  <2>1. changes' = changes + 1 /\ format' \in Formats /\ UNCHANGED <<conf, queue, srcCaps, flowVars>>
    BY <1>3 DEF Change
  <2> QED BY <1>0, <2>1 DEF IInv, TypeInv, QueueTypeOK, StreamTypeOK, Fitted, Unbroken, flowVars
<1>4. CASE SourceEnds
  <2>1. /\ queue' = Append(queue, Eos) /\ Len(queue) < Depth
        /\ UNCHANGED <<conf, posted, format, srcCaps, changes, seam, norm, encoded, wrong, error>>
    BY <1>4 DEF SourceEnds, flowVars, mainVars
  <2>2. TypeInv'
    BY <1>0, <2>1 DEF IInv, TypeInv, QueueTypeOK, StreamTypeOK, Frame
  <2>3. TheFormat' = TheFormat /\ TheNorm' = TheNorm /\ Adapt(TheFormat)' = Adapt(TheFormat)
         /\ Scaled(TheFormat.size)' = Scaled(TheFormat.size)
    BY <2>1 DEF TheFormat, TheNorm, Caps, Label, Adapt, Scaled, Target
  <2>4. \A i \in DOMAIN queue' : (i \in DOMAIN queue /\ queue'[i] = queue[i]) \/ queue'[i] = Eos
    BY <1>0, <2>1, AppendProperties DEF Frame
  <2>5. Fitted'
    BY <2>1, <2>3, <2>4 DEF IInv, Fitted
  <2>6. Unbroken'
    BY Zenon, <2>1 DEF IInv, Unbroken
  <2> QED BY <2>2, <2>5, <2>6
<1>5. CASE FlowFrame
  <2>1. UNCHANGED error
    BY <1>5 DEF FlowFrame, mainVars
  <2> QED BY <1>0, <1>5, <2>1, FrameStep DEF TypeInv, IInv, Unbroken
<1>6. CASE FlowEos
  <2>1. /\ queue # <<>> /\ queue' = Tail(queue) /\ posted' = posted \cup {"eos"}
        /\ UNCHANGED <<conf, format, srcCaps, changes, seam, norm, encoded, wrong, error>>
    BY <1>6 DEF FlowEos, flowVars, mainVars, sourceVars
  <2>2. /\ queue' \in Seq(Frame) /\ Len(queue') <= Depth
        /\ \A i \in DOMAIN queue' : \E j \in DOMAIN queue : queue'[i] = queue[j]
    <3>1. /\ Tail(queue) \in Seq(Frame) /\ Len(Tail(queue)) = Len(queue) - 1
          /\ \A i \in DOMAIN Tail(queue) : i + 1 \in DOMAIN queue /\ Tail(queue)[i] = queue[i + 1]
      BY <1>0, <2>1, HeadTailProperties
    <3> QED BY <1>0, <2>1, <3>1 DEF IInv, TypeInv, QueueTypeOK
  <2>3. TypeInv'
    BY <1>0, <2>1, <2>2 DEF IInv, TypeInv, QueueTypeOK, StreamTypeOK
  <2>4. TheFormat' = TheFormat /\ TheNorm' = TheNorm /\ Adapt(TheFormat)' = Adapt(TheFormat)
         /\ Scaled(TheFormat.size)' = Scaled(TheFormat.size)
    BY <2>1 DEF TheFormat, TheNorm, Caps, Label, Adapt, Scaled, Target
  <2>5. Fitted'
    BY <2>1, <2>2, <2>4 DEF IInv, Fitted
  <2>6. Unbroken'
    BY Zenon, <2>1 DEF IInv, Unbroken
  <2> QED BY <2>3, <2>5, <2>6
<1>7. CASE OnError
  <2>1. /\ UNCHANGED <<conf, format, changes, srcCaps, queue, flowVars, wrong, posted>>
        /\ changes # 0
    BY <1>7 DEF OnError, MainOnly, sourceVars, IInv, Fitted
  <2> QED BY <1>0, <2>1 DEF IInv, TypeInv, QueueTypeOK, StreamTypeOK, Fitted, Unbroken, flowVars
<1> HIDE DEF Goal
<1>8. CASE SourcePlays \/ Pin \/ Signal \/ Flip \/ UNCHANGED vars
  BY <1>1, <1>8 DEF SourcePlays, Pin, Signal, Flip, MainOnly, sourceVars, mainVars, vars
<1>9. CASE Main /\ ~OnError
  BY <1>1, <1>9 DEF Main, Dispatch, Advertise, Retry, OnEos, AdvertFails, OpenSession, Serve,
      DeclareToken, Teardown, MainOnly, sourceVars, mainVars
<1> QED
  BY <1>2, <1>3, <1>4, <1>5, <1>6, <1>7, <1>8, <1>9 DEF Next, Core, Flow, Main, Dispatch

(* Every set of naturals has a least element.                              *)
LEMMA LeastOf ==
  ASSUME NEW S \in SUBSET Nat, S # {}
  PROVE  \E m \in S : \A n \in S : m <= n
<1> DEFINE R == {ss \in Nat \X Nat : ss[1] < ss[2]}
<1>0. IsWellFoundedOn(R, Nat)
  BY NatLessThanWellFounded DEF OpToRel
<1>1. PICK m \in S : \A n \in S : ~ (<<n, m>> \in R)
  <2> HIDE DEF R
  <2> QED BY <1>0, WFMin
<1>2. \A n \in S : n \in Nat /\ m \in Nat /\ (n < m => <<n, m>> \in R)
  OBVIOUS
<1> HIDE DEF R
<1>3. \A n \in S : ~(n < m)
  BY Zenon, <1>1, <1>2
<1>4. \A n \in S : m <= n
  BY <1>2, <1>3
<1> QED BY <1>4

(* A level that is asked for is there: the least that covers the size, or  *)
(* the highest of all.                                                     *)
LEMMA LevelForIsThere ==
  ASSUME NEW size \in Nat
  PROVE  /\ LevelFor(size) \in Levels
         /\ size <= LevelFor(size) \/ \A k \in Levels : k <= LevelFor(size)
<1> DEFINE Fits(l) == /\ size <= l \/ \A k \in Levels : k <= l
                      /\ \A k \in Levels : size <= k => l <= k
<1>1. Levels \subseteq Nat /\ Levels # {}
  BY BridgeAssumption
<1>2. CASE \E k \in Levels : size <= k
  <2> DEFINE S == {k \in Levels : size <= k}
  <2>1. S \in SUBSET Nat /\ S # {}
    BY <1>1, <1>2
  <2> HIDE DEF S
  <2>2. PICK m \in S : \A n \in S : m <= n
    BY <2>1, LeastOf
  <2>3. m \in Levels /\ size <= m /\ \A k \in Levels : size <= k => m <= k
    BY <2>2 DEF S
  <2>4. \E l \in Levels : Fits(l)
    BY <2>3
  <2> QED BY <2>4 DEF LevelFor
<1>3. CASE \A k \in Levels : ~(size <= k)
  <2> DEFINE S == {n \in Nat : \E k \in Levels : n = size - k}
  <2>1. S \in SUBSET Nat
    OBVIOUS
  <2>2. S # {}
    <3>1. PICK k \in Levels : TRUE
      BY <1>1
    <3>2. size - k \in Nat
      BY <1>1, <1>3
    <3> QED BY <3>2
  <2>3. \A k \in Levels : size - k \in S
    BY <1>1, <1>3
  <2>4. PICK m \in S : \A n \in S : m <= n
    <3> HIDE DEF S
    <3> QED BY <2>1, <2>2, LeastOf
  <2>5. PICK l \in Levels : m = size - l
    OBVIOUS
  <2>6. \A k \in Levels : size - l <= size - k
    BY <2>3, <2>4, <2>5
  <2>7. \A k \in Levels : k <= l
    BY <2>6, <1>1
  <2>8. \E x \in Levels : Fits(x)
    BY <2>7, <1>3
  <2> QED BY <2>8 DEF LevelFor
<1> QED BY <1>2, <1>3

(* What has been promised, while the format is still the first one.        *)
Promised ==
  changes = 0 =>
    /\ descr # None /\ ~blind => descr = Scaled(TheFormat.size)
    /\ level # None => Scaled(TheFormat.size) <= level \/ \A l \in Levels : l < Scaled(TheFormat.size)

(* The bound is kept for all formats, and the header's path never          *)
(* advertises blindly.                                                     *)
Bounded ==
  /\ conf.bounded /\ encoded # None => encoded <= Bound
  /\ conf.bounded /\ norm.how = "cut" => norm.size <= Bound
  /\ "first" \in posted => srcCaps # None
  /\ conf.transport = "shm" => ~blind

(* Every variable keeps its type.                                          *)
LEMMA TypeStep == IInv /\ IInv' /\ TypeOK /\ [Next]_vars => TypeOK'
<1> SUFFICES ASSUME IInv, IInv', TypeOK, [Next]_vars PROVE TypeOK'
  OBVIOUS
<1> DEFINE Adverts == /\ presence \subseteq {"session", "queryable", "token"}
                      /\ descr \in Sizes \cup {Bound, None}
                      /\ main \in {"idle", "open", "serve", "token", "close", "done"}
                      /\ posted \subseteq {"playing", "first", "eos", "error"}
           Flags == /\ played \in BOOLEAN /\ stopping \in BOOLEAN /\ error \in BOOLEAN
                    /\ advertised \in BOOLEAN /\ retry \in BOOLEAN /\ blind \in BOOLEAN
                    /\ router \in BOOLEAN /\ ended \in BOOLEAN /\ wrong \in BOOLEAN
           Counters == flips \in 0..MaxFlips /\ changes \in 0..MaxChanges
           Fits == scale \in {Bound, None} /\ level \in Levels \cup {None}
<1>a. conf \in ConfType /\ srcCaps \in Formats \cup {None} /\ None \notin Nat
      /\ Sizes \subseteq Nat /\ Bound \in Nat /\ encoded \in Sizes \cup {Bound, None}
  BY BridgeAssumption DEF IInv, TypeInv, StreamTypeOK
<1>b. srcCaps # None => srcCaps.size \in Sizes
  BY <1>a DEF Formats
<1>c. Adverts /\ Flags /\ Counters /\ Fits
  BY Zenon DEF TypeOK
<1>1. Adverts'
  <2>1. CASE \E m \in {"playing", "first"} : Advertise(m)
    <3>1. Described \in Sizes \cup {None}
      BY <1>a, <1>b DEF Described, ConfType
    <3>2. Described # None => Scaled(Described) \in Sizes \cup {Bound}
      BY <3>1, ScaledType
    <3>3. PICK m \in {"playing", "first"} : Advertise(m)
      BY <2>1
    <3>4. descr' \in Sizes \cup {Bound, None}
      BY <3>2, <3>3, <1>c DEF Advertise
    <3> QED BY <3>3, <3>4, <1>c DEF Advertise
  <2>2. CASE SourcePlays \/ Receive \/ Core \/ Flow \/ Pin \/ Flip
    BY <2>2, <1>c DEF SourcePlays, Receive, Core, Change, SourceEnds, Flow, FlowFrame, FlowFails, FlowEos,
        Pin, Flip, advertVars, mainVars
  <2>3. CASE Retry \/ OnEos \/ OnError \/ AdvertFails \/ OpenSession \/ Serve \/ DeclareToken \/ Teardown
    BY <2>3, <1>c DEF Retry, OnEos, OnError, AdvertFails, OpenSession, Serve, DeclareToken, Teardown,
        MainOnly, advertVars
  <2>4. CASE Signal \/ UNCHANGED vars
    BY <2>4, <1>c DEF Signal, MainOnly, advertVars, mainVars, vars
  <2> QED BY <2>1, <2>2, <2>3, <2>4 DEF Next, Main, Dispatch
<1>2. Flags'
  <2>1. CASE \E m \in {"playing", "first"} : Advertise(m)
    BY Zenon, <2>1, <1>c DEF Advertise, MainOnly, routerVars, sourceVars
  <2>2. CASE SourcePlays \/ Receive \/ Core
    BY Zenon, <2>2, <1>c DEF SourcePlays, Receive, Core, Change, SourceEnds, advertVars, mainVars,
        routerVars, sourceVars
  <2>3. CASE Flow
    BY Zenon, <2>3, <1>c DEF Flow, FlowFrame, FlowFails, FlowEos, advertVars, mainVars,
        routerVars, sourceVars
  <2>4. CASE Pin \/ Flip \/ Signal \/ UNCHANGED vars
    BY Zenon, <2>4, <1>c DEF Pin, Flip, Signal, MainOnly, advertVars, mainVars, routerVars,
        sourceVars, vars
  <2>5. CASE Retry \/ OnEos \/ OnError \/ AdvertFails
    BY Zenon, <2>5, <1>c DEF Retry, OnEos, OnError, AdvertFails, MainOnly, advertVars, routerVars, sourceVars
  <2>6. CASE OpenSession \/ Serve \/ DeclareToken \/ Teardown
    BY Zenon, <2>6, <1>c DEF OpenSession, Serve, DeclareToken, Teardown, MainOnly, routerVars, sourceVars
  <2> QED BY <2>1, <2>2, <2>3, <2>4, <2>5, <2>6 DEF Next, Main, Dispatch
<1>3. Counters' /\ Fits'
  <2>0. MaxFlips \in Nat /\ MaxChanges \in Nat
    BY BridgeAssumption
  <2>1. CASE FlowFrame
    BY <2>1, <1>c DEF FlowFrame, FlowFails, Target, routerVars, sourceVars
  <2>2. CASE Pin
    <3>1. srcCaps # None /\ srcCaps.size \in Nat /\ srcCaps.size \in Sizes
      BY <2>2, <1>a, <1>b DEF Pin
    <3>2. EncodeGeometry \in Nat
      BY <3>1, <1>a DEF EncodeGeometry
    <3>3. LevelFor(EncodeGeometry) \in Levels
      BY <3>2, LevelForIsThere
    <3> QED BY <2>2, <3>3, <1>c DEF Pin, flowVars, routerVars, sourceVars
  <2>3. CASE Change \/ Flip
    BY <2>3, <2>0, <1>c DEF Change, Flip, flowVars, routerVars, sourceVars
  <2>4. CASE SourcePlays \/ Receive \/ SourceEnds \/ FlowEos
    BY <2>4, <1>c DEF SourcePlays, Receive, SourceEnds, FlowEos, flowVars, routerVars, sourceVars
  <2>5. CASE Main \/ Signal
    BY <2>5, <1>c DEF Main, Dispatch, Advertise, Retry, OnEos, OnError, AdvertFails, OpenSession, Serve,
        DeclareToken, Teardown, Signal, MainOnly, flowVars, routerVars, sourceVars
  <2>6. CASE UNCHANGED vars
    BY <2>6, <1>c DEF flowVars, routerVars, sourceVars, vars
  <2> QED BY <2>1, <2>2, <2>3, <2>4, <2>5, <2>6 DEF Next, Core, Flow
<1>4. conf' \in Confs
  <2>1. conf' = conf
    BY DEF Next, SourcePlays, Receive, Core, Change, SourceEnds, Flow, FlowFrame, FlowEos, Pin, Flip,
        Main, Dispatch, Advertise, Retry, OnEos, OnError, AdvertFails, OpenSession, Serve,
        DeclareToken, Teardown, Signal, MainOnly, vars
  <2> QED BY <2>1 DEF TypeOK
<1>5. QueueTypeOK' /\ StreamTypeOK'
  BY DEF IInv, TypeInv
<1> QED BY Zenon, <1>1, <1>2, <1>3, <1>4, <1>5 DEF TypeOK, QueueTypeOK, StreamTypeOK, Frame

(* A frame is never scaled up, and never past the bound.                   *)
LEMMA ScaledDown ==
  ASSUME NEW n \in Nat
  PROVE  Scaled(n) \in Nat /\ Scaled(n) <= n /\ (conf.bounded => Scaled(n) <= Bound)
BY BridgeAssumption DEF Scaled, Target

(* What the bridge has said stays true of what it sends.                   *)
LEMMA PromisedStep == IInv /\ Promised /\ [Next]_vars => Promised'
<1> SUFFICES ASSUME IInv, Promised, [Next]_vars, changes' = 0 PROVE Promised'
  BY DEF Promised
<1> DEFINE size == Scaled(TheFormat.size)
           Kept == /\ descr # None /\ ~blind => descr = size
                   /\ level # None => size <= level \/ \A l \in Levels : l < size
<1>a. /\ conf \in ConfType /\ format \in Formats /\ None \notin Nat /\ Levels \subseteq Nat
      /\ TheFormat.size \in Sizes /\ TheFormat.size \in Nat
      /\ size \in Nat /\ size <= TheFormat.size
  <2>1. conf \in ConfType /\ format \in Formats /\ Sizes \subseteq Nat /\ Bound \in Nat
        /\ None \notin Nat /\ Levels \subseteq Nat
    BY BridgeAssumption DEF IInv, TypeInv, StreamTypeOK
  <2>2. TheFormat.size \in Sizes
    BY <2>1, CapsType DEF TheFormat, Formats
  <2>3. TheFormat.size \in Nat
    BY <2>1, <2>2
  <2>4. size \in Nat /\ size <= TheFormat.size
    BY <2>3, ScaledDown
  <2> QED BY <2>1, <2>2, <2>3, <2>4
<1>b. changes = 0 /\ UNCHANGED <<conf, format>>
  <2>1. CASE Change
    BY <2>1 DEF Change, IInv, TypeInv
  <2>2. CASE ~Change
    BY <2>2 DEF Next, SourcePlays, Receive, Core, SourceEnds, Flow, FlowFrame, FlowEos, Pin, Flip,
        Main, Dispatch, Advertise, Retry, OnEos, OnError, AdvertFails, OpenSession, Serve,
        DeclareToken, Teardown, Signal, MainOnly, sourceVars, vars
  <2> QED BY <2>1, <2>2
<1>c. size' = size
  BY <1>b DEF TheFormat, Caps, Label, Scaled, Target
<1>d. Kept /\ srcCaps \in {None, TheFormat} /\ encoded \in {None, size}
  BY <1>b DEF IInv, Fitted, Promised
<1> HIDE DEF size
<1> SUFFICES Kept'
  BY <1>c DEF Promised, size
<1>1. CASE \E m \in {"playing", "first"} : Advertise(m)
  <2>1. PICK m \in {"playing", "first"} : Advertise(m)
    BY <1>1
  <2>2. level' = level
    BY <2>1 DEF Advertise, MainOnly
  <2>3. srcCaps # None => Described # None /\ Scaled(Described) = size
    BY <1>a, <1>d DEF Described, size
  <2>4. WantsAdvert(m) /\ descr' # None /\ ~blind' => descr' = size
    BY <2>1, <2>3 DEF Advertise
  <2>5. ~WantsAdvert(m) => UNCHANGED <<descr, blind>>
    BY <2>1 DEF Advertise
  <2> QED BY <2>2, <2>4, <2>5, <1>c, <1>d
<1>2. CASE Pin
  <2>1. srcCaps = TheFormat /\ UNCHANGED <<descr, blind>>
        /\ level' = IF level = None THEN LevelFor(EncodeGeometry) ELSE level
    BY <1>2, <1>d DEF Pin, advertVars
  <2>2. EncodeGeometry \in {size, TheFormat.size}
    BY <2>1, <1>d DEF EncodeGeometry
  <2>3. EncodeGeometry \in Nat /\ size <= EncodeGeometry
    BY <2>2, <1>a
  <2>4. /\ LevelFor(EncodeGeometry) \in Nat
        /\ EncodeGeometry <= LevelFor(EncodeGeometry)
           \/ \A k \in Levels : k \in Nat /\ k <= LevelFor(EncodeGeometry)
    BY <2>3, <1>a, LevelForIsThere
  <2>5. size <= LevelFor(EncodeGeometry) \/ \A l \in Levels : l < size
    <3> DEFINE L == LevelFor(EncodeGeometry)  G == EncodeGeometry
    <3> HIDE DEF L, G
    <3>1. L \in Nat /\ G \in Nat /\ size \in Nat /\ size <= G
          /\ (G <= L \/ \A k \in Levels : k \in Nat /\ k <= L)
      BY <2>3, <2>4, <1>a DEF L, G
    <3>2. size <= L \/ \A l \in Levels : l < size
      BY <3>1
    <3> QED BY <3>2 DEF L
  <2> QED BY <2>1, <2>5, <1>c, <1>d
<1>3. CASE ~Pin /\ ~\E m \in {"playing", "first"} : Advertise(m)
  <2>1. UNCHANGED <<descr, blind, level>>
    BY <1>3 DEF Next, SourcePlays, Receive, Core, Change, SourceEnds, Flow, FlowFrame, FlowEos, Flip,
        Main, Dispatch, Retry, OnEos, OnError, AdvertFails, OpenSession, Serve,
        DeclareToken, Teardown, Signal, MainOnly, advertVars, vars
  <2> QED BY <2>1, <1>c, <1>d
<1> QED BY <1>1, <1>2, <1>3

(* No frame is larger than the bound, in front of the encoder or in it.    *)
LEMMA BoundedStep == IInv /\ Bounded /\ [Next]_vars => Bounded'
<1> SUFFICES ASSUME IInv, Bounded, [Next]_vars PROVE Bounded'
  OBVIOUS
<1>a. conf' = conf
  BY DEF Next, SourcePlays, Receive, Core, Change, SourceEnds, Flow, FlowFrame, FlowEos, Pin, Flip,
      Main, Dispatch, Advertise, Retry, OnEos, OnError, AdvertFails, OpenSession, Serve,
      DeclareToken, Teardown, Signal, MainOnly, vars
<1>b. None \notin Nat /\ None \notin Formats
  BY BridgeAssumption
<1> USE <1>a DEF Bounded
<1>1. CASE FlowFrame
  <2> DEFINE c == Head(queue)
  <2>1. c \in Formats
    <3>1. queue \in Seq(Frame) /\ queue # <<>> /\ c # Eos
      BY <1>1 DEF FlowFrame, IInv, TypeInv, QueueTypeOK
    <3>2. c \in Frame
      BY <3>1, HeadTailProperties
    <3> QED BY <3>1, <3>2 DEF Frame
  <2> HIDE DEF c
  <2>2. c.size \in Nat
    BY <2>1, BridgeAssumption DEF Formats
  <2>3. /\ UNCHANGED <<srcCaps, blind>> /\ ("first" \in posted' => "first" \in posted)
        /\ norm' \in {norm, Configured(c)} /\ encoded' \in {encoded, FedSize(c)}
    BY <1>1 DEF FlowFrame, FlowFails, c, sourceVars, advertVars
  <2>4. conf.bounded => Scaled(c.size) <= Bound
    BY <2>2, ScaledDown
  <2>5. conf.bounded /\ Configured(c).how = "cut" => Configured(c).size <= Bound
    BY <2>4 DEF Configured
  <2>6. conf.bounded => FedSize(c) <= Bound
    BY <2>4, <2>5 DEF FedSize, Sixteen
  <2> QED BY <2>3, <2>5, <2>6
<1>2. CASE Receive
  <2>1. srcCaps' # None /\ UNCHANGED <<encoded, norm, blind>>
    <3>1. format \in Formats /\ conf \in ConfType
      BY DEF IInv, TypeInv, StreamTypeOK
    <3>2. Caps(format) # None
      <4>1. Caps(format) \in Formats
        BY <3>1, CapsType
      <4> QED BY <4>1, <1>b
    <3> QED BY <1>2, <3>2 DEF Receive, flowVars, advertVars
  <2> QED BY <2>1
<1>3. CASE \E m \in {"playing", "first"} : Advertise(m)
  <2>1. PICK m \in {"playing", "first"} : Advertise(m)
    BY <1>3
  <2>2. UNCHANGED <<encoded, norm, srcCaps>> /\ posted' \subseteq posted
    BY <2>1 DEF Advertise, MainOnly, flowVars, sourceVars
  <2>3. conf.transport = "shm" /\ WantsAdvert(m) => srcCaps # None
    BY <2>1 DEF WantsAdvert, Advertise
  <2>4. conf.transport = "shm" => ~blind'
    BY <2>1, <2>3 DEF Advertise
  <2> QED BY <2>2, <2>4
<1>4. CASE SourcePlays \/ Core \/ FlowEos \/ Pin \/ Flip \/ Signal \/ UNCHANGED vars
  BY <1>4 DEF SourcePlays, Core, Change, SourceEnds, FlowEos, Pin, Flip, Signal, MainOnly,
      flowVars, sourceVars, advertVars, vars
<1>5. CASE Retry \/ OnEos \/ OnError \/ AdvertFails \/ OpenSession \/ Serve \/ DeclareToken \/ Teardown
  BY <1>5 DEF Retry, OnEos, OnError, AdvertFails, OpenSession, Serve, DeclareToken, Teardown,
      MainOnly, flowVars, sourceVars, advertVars
<1> QED BY <1>1, <1>2, <1>3, <1>4, <1>5 DEF Next, Flow, Main, Dispatch

LEMMA Invariance == Spec => []IInv
<1>1. IInv /\ [Next]_vars => IInv'
  BY PresentedStep, StreamStep DEF IInv
<1> QED BY InitIInv, <1>1, PTL DEF Spec

(* No prediction of the environment can break the stream on its first      *)
(* format, whatever that is, nor is a frame encoded with another one's     *)
(* layout (bridge_stream.py: the format seam and both pumps).              *)
THEOREM AnyFirstFormatPlays == Spec => []FirstFormatPlays
<1>1. IInv => FirstFormatPlays
  BY DEF IInv, Fitted, Unbroken, FirstFormatPlays
<1> QED BY <1>1, Invariance, PTL

(* A dashboard that sees the stream can ask for its descriptor, and the    *)
(* end leaves neither (bridge_stream.py: the advertiser).                  *)
THEOREM TokensAreServed == Spec => []PresenceIsServed
<1>1. IInv => PresenceIsServed
  BY DEF IInv, Presented, PresenceIsServed
<1> QED BY <1>1, Invariance, PTL

(* What a viewer is told before it connects is what it gets, on any first  *)
(* format: the descriptor tells the size that is encoded, the bound is     *)
(* kept, and the level covers it (bridge_stream.py:640-800).               *)
THEOREM ViewersGetWhatIsPromised == Spec => []PromisesHold
<1>1. Init => TypeOK /\ Promised /\ Bounded
  <2> SUFFICES ASSUME Init PROVE TypeOK /\ Promised /\ Bounded
    OBVIOUS
  <2>1. /\ played \in BOOLEAN /\ stopping \in BOOLEAN /\ error \in BOOLEAN
        /\ advertised \in BOOLEAN /\ retry \in BOOLEAN /\ blind \in BOOLEAN
        /\ router \in BOOLEAN /\ ended \in BOOLEAN /\ wrong \in BOOLEAN
    BY Zenon DEF Init
  <2>2. QueueTypeOK /\ StreamTypeOK
    BY InitIInv DEF IInv, TypeInv
  <2>3. /\ conf \in Confs /\ scale = None /\ level = None /\ posted = {} /\ main = "idle"
        /\ presence = {} /\ descr = None /\ flips = 0 /\ changes = 0
        /\ MaxFlips \in Nat /\ MaxChanges \in Nat
    BY BridgeAssumption DEF Init
  <2>4. flips \in 0..MaxFlips /\ changes \in 0..MaxChanges
    BY <2>3
  <2>5. TypeOK
    BY <2>1, <2>2, <2>3, <2>4 DEF TypeOK, QueueTypeOK, StreamTypeOK, Frame
  <2>6. Promised /\ Bounded
    BY DEF Init, Promised, Bounded
  <2> QED BY <2>5, <2>6
<1>2. /\ IInv /\ IInv' /\ TypeOK /\ [Next]_vars => TypeOK'
      /\ IInv /\ Promised /\ [Next]_vars => Promised'
      /\ IInv /\ Bounded /\ [Next]_vars => Bounded'
  BY TypeStep, PromisedStep, BoundedStep
<1>3. IInv /\ TypeOK /\ Promised /\ Bounded => PromisesHold
  <2> SUFFICES ASSUME IInv, TypeOK, Promised, Bounded PROVE PromisesHold
    OBVIOUS
  <2>1. changes = 0 /\ encoded # None => encoded = Scaled(TheFormat.size)
    BY DEF IInv, Fitted
  <2>2. DescriptorIsTrue
    BY <2>1 DEF Promised, Bounded, DescriptorIsTrue
  <2>3. LevelCovers
    BY <2>1 DEF Promised, LevelCovers
  <2> QED BY <2>2, <2>3 DEF PromisesHold
<1> QED BY <1>1, <1>2, <1>3, Invariance, PTL DEF Spec
=============================================================================
