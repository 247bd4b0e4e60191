------------------------------- MODULE UvcFrames -------------------------------
(***************************************************************************)
(* Camera frames out of a USB capture (uvcpcap.UvcFrameExtractor).  A camera *)
(* cuts its frames into payloads with a header each, and a bulk endpoint      *)
(* cuts these into URBs; the capture may begin and end anywhere, and loses    *)
(* records.  The extractor puts the payloads together and then the frames.    *)
(* Data is told apart as the pieces <<frame, payload, piece>> that one URB or *)
(* iso packet carries; a payload that is read from its middle has a header    *)
(* of garbage, which may look like any, and its first piece is maimed.        *)
(***************************************************************************)
EXTENDS Integers, Sequences

CONSTANTS CamFrames,   \* bound: camera frames 1..CamFrames
          Payloads,    \* payloads of a frame
          Pieces,      \* URBs of a bulk payload
          MaxPending,  \* the 64 MiB of a payload that never ends, in pieces
          MaxFaults    \* bound: losses

ASSUME UvcAssumption ==
  /\ {CamFrames, Payloads, Pieces} \subseteq Nat \ {0}
  /\ MaxPending \in Nat /\ MaxPending > Pieces /\ MaxFaults \in Nat

VARIABLES
  stream,   \* [mjpeg, bulk, ends]: what is captured; a payload of whole URBs ends with an
            \* empty one or at the negotiated size, others with a short one
  sent,     \* the piece the camera sends next
  asm,      \* frame assembly: state, fid, buf, start, and the frames that came out
  bulk,     \* payload assembly: pending, cont, ts, and whether the request's length is known
  owed,     \* the camera still owes the empty URB
  faults,   \* losses so far
  hurt,     \* history: frames that were not captured as sent
  seen,     \* history: frames of which a header, or what follows one, was captured
  untold,   \* history: part of a frame was lost that left no trace in the capture
  urbFailed \* history: a bulk URB ended with an error

told == <<hurt, seen, untold, urbFailed>>
uvcVars == <<stream, sent, asm, bulk, owed, faults, told>>

NoFid == 2
Piece == (1..(CamFrames + 1)) \X (1..Payloads) \X (0..Pieces)

Assembly ==
  [state : {"AWAIT", "ACCUM", "SKIP"}, fid : {0, 1, NoFid}, buf : Seq(Piece),
   start : Piece \cup {<<>>}, out : Seq([start : Piece, data : Seq(Piece)])]

UvcTypeOK ==
  /\ stream \in [mjpeg : BOOLEAN, bulk : BOOLEAN, ends : {"short", "empty", "size"}]
  /\ sent \in Piece
  /\ asm \in Assembly
  /\ bulk \in [pending : Seq(Piece), cont : BOOLEAN, ts : Piece \cup {<<>>}, req : BOOLEAN]
  /\ Len(bulk.pending) <= MaxPending
  /\ owed \in BOOLEAN /\ faults \in 0..MaxFaults
  /\ hurt \subseteq 1..CamFrames /\ seen \subseteq 1..CamFrames
  /\ untold \in BOOLEAN /\ urbFailed \in BOOLEAN

Last == IF stream.bulk THEN Pieces ELSE 1
First(f) == <<f, 1, 1>>
IsFirst(q) == q[2] = 1 /\ q[3] = 1
IsLast(q) == q[2] = Payloads /\ q[3] = Last
Whole(f) == [n \in 1..(Payloads * Last) |-> <<f, (n - 1) \div Last + 1, ((n - 1) % Last) + 1>>]

UvcInit ==
  /\ stream \in [mjpeg : BOOLEAN, bulk : BOOLEAN, ends : {"short", "empty", "size"}]
  /\ ~stream.bulk => stream.ends = "short"
  /\ sent \in {<<1, p, c>> : p \in 1..Payloads, c \in 1..Last}
  /\ asm = [state |-> "AWAIT", fid |-> NoFid, buf |-> <<>>, start |-> <<>>, out |-> <<>>]
  /\ bulk = [pending |-> <<>>, cont |-> FALSE, ts |-> <<>>, req |-> FALSE]
  /\ owed = FALSE /\ faults = 0
  /\ hurt = (IF sent = First(1) THEN {} ELSE {1}) /\ seen = {} /\ untold = FALSE /\ urbFailed = FALSE

-----------------------------------------------------------------------------
(* Frame assembly, one payload at a time.                                    *)

\* Raw frames by their size; a JPEG begins and ends as one, whatever is between.
Valid(buf) ==
  IF stream.mjpeg THEN buf # <<>> /\ IsFirst(buf[1]) /\ IsLast(buf[Len(buf)])
  ELSE Len(buf) = Payloads * Last /\ \A n \in DOMAIN buf : buf[n][3] # 0

Finalize(s) ==
  [s EXCEPT !.buf = <<>>,
            !.out = IF Valid(s.buf) THEN Append(@, [start |-> s.start, data |-> s.buf]) ELSE @]

Begin(s, fid, ts) == [s EXCEPT !.state = "ACCUM", !.fid = fid, !.start = ts, !.buf = <<>>]

\* Fault: only a frame that had an error is skipped, one with a hole is not.
PoisonNot(s) == s

\* A hole in the frame being assembled: the rest of it is skipped.
Poison(s) == IF s.state = "ACCUM" THEN [s EXCEPT !.buf = <<>>, !.state = "SKIP"] ELSE s

Accumulate(s, h, data, ts) ==
  IF h.err THEN [s EXCEPT !.buf = <<>>, !.state = "SKIP"]
  ELSE LET t == IF h.fid # s.fid THEN Begin(Finalize(s), h.fid, ts) ELSE s
           u == [t EXCEPT !.buf = @ \o data]
       IN IF h.eof THEN [Finalize(u) EXCEPT !.state = "AWAIT"] ELSE u

\* Fault: whatever has the FID of the finished frame is taken for a keepalive.
FeedTrailing(s, h, data, ts) ==
  CASE ~h.sane -> Poison(s)
    [] h.sane /\ s.state \in {"AWAIT", "SKIP"} /\ h.fid = s.fid -> s
    [] h.sane /\ s.state # "ACCUM" /\ h.fid # s.fid -> Accumulate(Begin(s, h.fid, ts), h, data, ts)
    [] h.sane /\ s.state = "ACCUM" -> Accumulate(s, h, data, ts)

\* A header of the finished frame without data is a keepalive, one with data a new frame
\* whose predecessor was lost.
Feed(s, h, data, ts) ==
  CASE ~h.sane -> Poison(s)
    [] h.sane /\ s.state = "AWAIT" /\ h.fid = s.fid /\ data = <<>> -> s
    [] h.sane /\ s.state = "SKIP" /\ h.fid = s.fid -> s
    [] h.sane /\ s.state = "ACCUM" -> Accumulate(s, h, data, ts)
    [] OTHER -> Accumulate(Begin(s, h.fid, ts), h, data, ts)

\* The header, and the data after it, that a payload shows.
Sane == [sane : {TRUE}, fid : 0..1, eof : BOOLEAN, err : BOOLEAN]
Insane == [sane |-> FALSE, fid |-> 0, eof |-> FALSE, err |-> FALSE]

Headers(p) ==
  IF p[1][3] = 1
  THEN {[sane |-> TRUE, fid |-> p[1][1] % 2, eof |-> p[1][2] = Payloads, err |-> FALSE]}
  ELSE Sane \cup {Insane}

DataOf(p) == IF p[1][3] = 1 THEN p ELSE <<<<p[1][1], p[1][2], 0>>>> \o Tail(p)

\* The states a payload may lead to; nothing is fed for none.
Fed(s, p, ts) == IF p = <<>> THEN {s} ELSE {Feed(s, h, DataOf(p), ts) : h \in Headers(p)}

-----------------------------------------------------------------------------
(* Payload assembly on a bulk endpoint, one URB at a time.                    *)

Dropped(req) == [pending |-> <<>>, cont |-> FALSE, ts |-> <<>>, req |-> req]

\* An empty URB ends a payload of whole URBs.
FeedEmpty ==
  /\ asm' \in Fed(asm, IF bulk.cont THEN bulk.pending ELSE <<>>, bulk.ts)
  /\ bulk' = Dropped(FALSE)

\* Its bytes are not in the capture; what is known of the request stays if some are.
FeedCut(some, req) ==
  /\ asm' = Poison(asm)
  /\ bulk' = Dropped(some /\ req)

\* Appended to what is pending; fed at the negotiated size, at a short URB, or, with no
\* request to compare, at once.
FeedUrb(piece, isShort, req) ==
  LET p == (IF bulk.cont THEN bulk.pending ELSE <<>>) \o <<piece>>
      ts == IF bulk.cont THEN bulk.ts ELSE piece
      full == Len(p) >= Pieces /\ stream.ends = "size"
      over == (req /\ isShort) \/ ~req
  IN IF Len(p) > MaxPending THEN bulk' = Dropped(FALSE) /\ UNCHANGED asm
     ELSE /\ asm' \in Fed(asm, IF full \/ over THEN p ELSE <<>>, ts)
          /\ bulk' = IF full \/ over THEN Dropped(FALSE)
                     ELSE [pending |-> p, cont |-> TRUE, ts |-> ts, req |-> FALSE]

-----------------------------------------------------------------------------
(* The camera and the capture.                                               *)

Camera == sent[1]
EndOfPayload == sent[3] = Last
EndOfFrame == EndOfPayload /\ sent[2] = Payloads

Sent ==
  sent' = CASE EndOfFrame -> First(Camera + 1)
            [] ~EndOfFrame /\ EndOfPayload -> <<Camera, sent[2] + 1, 1>>
            [] OTHER -> <<Camera, sent[2], sent[3] + 1>>

Sending == Camera <= CamFrames /\ ~owed
Sees == seen' = seen \cup {Camera}
Hurts == hurt' = hurt \cup {Camera}
Faulty == faults < MaxFaults /\ faults' = faults + 1

\* Payloads of the negotiated size end with a shorter one, frame by frame.
IsShort == EndOfPayload /\ (stream.ends = "short" \/ (stream.ends = "size" /\ EndOfFrame))
Owes == owed' = (stream.bulk /\ EndOfPayload /\ stream.ends = "empty")

IsoPacket ==
  /\ Sending /\ ~stream.bulk
  /\ asm' \in Fed(asm, <<sent>>, sent)
  /\ Sent /\ Sees
  /\ UNCHANGED <<stream, bulk, owed, faults, hurt, untold, urbFailed>>

\* Errored, missed or cut: the descriptor tells.
IsoLost ==
  /\ Sending /\ ~stream.bulk /\ Faulty
  /\ asm' = Poison(asm)
  /\ Sent /\ Hurts
  /\ UNCHANGED <<stream, bulk, owed, seen, untold, urbFailed>>

\* The camera flags an error, or the header is damaged.
IsoBad ==
  /\ Sending /\ ~stream.bulk /\ Faulty
  /\ \E h \in {Insane, [sane |-> TRUE, fid |-> Camera % 2, eof |-> EndOfFrame, err |-> TRUE]} :
       /\ asm' = Feed(asm, h, <<sent>>, sent)
       /\ seen' = IF h.sane THEN seen \cup {Camera} ELSE seen
  /\ Sent /\ Hurts
  /\ UNCHANGED <<stream, bulk, owed, untold, urbFailed>>

\* The submission tells the requested length; without it a payload of several URBs is
\* read as several.
Urb ==
  /\ Sending /\ stream.bulk
  /\ FeedUrb(sent, IsShort, TRUE)
  /\ Sent /\ Sees /\ Owes
  /\ UNCHANGED <<stream, faults, hurt, untold, urbFailed>>

UrbUnasked ==
  /\ Sending /\ stream.bulk /\ Faulty
  /\ FeedUrb(sent, IsShort, bulk.req)
  /\ untold' = (untold \/ Pieces > 1)
  /\ Sent /\ Sees /\ Owes /\ Hurts
  /\ UNCHANGED <<stream, urbFailed>>

UrbCut ==
  /\ Sending /\ stream.bulk /\ Faulty
  /\ \E some \in BOOLEAN : FeedCut(some, TRUE)
  /\ Sent /\ Hurts /\ Owes
  /\ UNCHANGED <<stream, seen, untold, urbFailed>>

\* A URB that failed has no length, as an empty one.
UrbFails ==
  /\ Sending /\ stream.bulk /\ Faulty
  /\ FeedEmpty
  /\ urbFailed' = TRUE
  /\ Sent /\ Hurts /\ Owes
  /\ UNCHANGED <<stream, seen, untold>>

EmptyUrb ==
  /\ owed /\ owed' = FALSE
  /\ FeedEmpty
  /\ UNCHANGED <<stream, sent, faults, told>>

\* A header-only payload of the frame that ended.
Keepalive ==
  /\ Sending /\ sent = First(Camera) /\ Camera > 1 /\ bulk.pending = <<>>
  /\ asm' = Feed(asm, [sane |-> TRUE, fid |-> (Camera - 1) % 2, eof |-> TRUE, err |-> FALSE], <<>>, sent)
  /\ UNCHANGED <<stream, sent, bulk, owed, faults, told>>

\* The capture's ring overflows: a whole frame, or a piece of one, is just not there.
FrameUncaptured ==
  /\ Sending /\ Faulty /\ sent = First(Camera)
  /\ sent' = First(Camera + 1)
  /\ Hurts
  /\ UNCHANGED <<stream, asm, bulk, owed, seen, untold, urbFailed>>

Uncaptured ==
  /\ Sending /\ Faulty
  /\ untold' = TRUE
  /\ Sent /\ Hurts /\ Owes
  /\ UNCHANGED <<stream, asm, bulk, seen, urbFailed>>

\* The pass ends with the file; with no frame at all it is an error, and every pass reads
\* the same.
EndOfCapture == Camera > CamFrames /\ ~owed /\ UNCHANGED uvcVars

Capture == IsoPacket \/ Urb \/ EmptyUrb
Losses == IsoLost \/ IsoBad \/ UrbUnasked \/ UrbCut \/ UrbFails \/ FrameUncaptured \/ Uncaptured

UvcNext == Capture \/ Losses \/ Keepalive \/ EndOfCapture

UvcSpec == UvcInit /\ [][UvcNext]_uvcVars

-----------------------------------------------------------------------------
(* Properties.                                                               *)

Out == asm.out
FrameOf(n) == Out[n].start[1]

Intact(n) == Out[n].data = Whole(FrameOf(n)) /\ Out[n].start = First(FrameOf(n))

\* What comes out is a camera frame without a hole, stamped with the arrival of its first
\* byte, once and in order, wherever the capture begins and whatever it cut or the camera
\* flagged; only what left no trace in the capture can go unnoticed.
FramesInOrder ==
  \/ untold \/ urbFailed
  \/ /\ \A n \in DOMAIN Out : Intact(n)
     /\ \A n \in DOMAIN Out \ {1} : FrameOf(n - 1) < FrameOf(n)

\* uvcpcap.py:436-692: the extractor's frames are the camera's.
OneFrameEach == UvcTypeOK /\ FramesInOrder

\* A frame that was captured as sent comes out, too, if the last one seen before it did,
\* though others between were lost as a whole and the FID repeats; where a payload is one
\* packet, also after a frame that was hurt, if the FID differs.
CameOut(f) == \E n \in DOMAIN Out : FrameOf(n) = f
Predecessor(f) == {g \in seen : g < f /\ \A h \in seen : h < f => h <= g}
Readable(f) ==
  /\ f \in seen \ hurt /\ f < Camera /\ ~untold /\ ~urbFailed
  /\ \A g \in Predecessor(f) : CameOut(g) \/ (Last = 1 /\ g % 2 # f % 2)

IntactKept == ~owed => \A f \in 1..CamFrames : Readable(f) => CameOut(f)
=============================================================================
