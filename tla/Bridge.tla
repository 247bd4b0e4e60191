-------------------------------- MODULE Bridge --------------------------------
(***************************************************************************)
(* The WebRTC bridge (plugins/webrtc-bridge): a stream that describes      *)
(* itself, which no configuration predicts, is fitted to an encoder and    *)
(* advertised to dashboards.                                               *)
(*                                                                         *)
(* core    the camera service: sends frames of some format, may change it  *)
(* source  the thread that receives them; on "shm" it strips their header  *)
(*         (the header pump), on "unixfd" caps come with them              *)
(* flow    the thread behind it: format seam, scaler, normalize pump, sink *)
(* main    the main loop: bus, idle callbacks, retry timer, signal         *)
(*                                                                         *)
(* A format is the kind of the pixels and the size of the frame.  A level  *)
(* of H.264 is the largest size it covers.  The aspect ratio is left out.  *)
(***************************************************************************)
EXTENDS Naturals, Sequences

CONSTANTS
  Confs,       \* environments, see ConfType
  Sizes,       \* frame sizes
  Bound,       \* CAM_WEBRTC_MAX_SIZE, where it is set
  Levels,      \* H.264 levels up to CAM_WEBRTC_MAX_LEVEL
  Depth,       \* frames between the threads
  MaxChanges,  \* bound: changes of the format
  MaxFlips,    \* bound: ups and downs of the router
  None         \* no format, no caps

ConfType ==
  [transport : {"unixfd", "shm"}, bayer : BOOLEAN, debayer : BOOLEAN, normalize : BOOLEAN,
   bounded : BOOLEAN, advertise : BOOLEAN, env : Sizes \cup {None}]

Kinds == {"bayer8", "mono8", "mono16"}
Formats == [kind : Kinds, size : Sizes]

ASSUME BridgeAssumption ==
  /\ Confs \subseteq ConfType
  /\ Sizes \subseteq Nat \ {0} /\ Bound \in Nat \ {0} /\ None \notin Nat \cup Formats
  /\ Levels \subseteq Nat /\ Levels # {}
  /\ Depth \in Nat \ {0} /\ MaxChanges \in Nat /\ MaxFlips \in Nat

VARIABLES
  conf,       \* the environment and run.sh
  format,     \* what the core sends
  queue,      \* formats of the frames between source and flow, and Eos
  srcCaps,    \* [label, size] on hdr_out or on the source's pad
  seam,       \* fmt_tap: open, or what was spliced in; relabelled to a size
  scale,      \* what scale_caps pins, or None
  norm,       \* the normalize pump: new, or what its first sample has made it
  encoded,    \* the size on the sink's pad
  level,      \* _h264_caps_str, what every consumer is promised
  posted,     \* messages on the bus, and the idle callback "first"
  played,     \* the source element has told it is PLAYING
  main, stopping, error,
  advertised, presence, descr, retry,
  router, flips, changes,
  ended,      \* history: the core has ended the stream
  blind,      \* history: the descriptor was made before there were caps
  wrong       \* history: a frame was encoded with another one's layout

sourceVars == <<format, srcCaps, changes, ended>>
flowVars == <<seam, scale, norm, encoded>>
mainVars == <<main, stopping, error>>
advertVars == <<advertised, presence, descr, retry, blind>>
routerVars == <<router, flips>>
vars == <<conf, queue, posted, played, sourceVars, flowVars, level, mainVars, advertVars, routerVars, wrong>>

Eos == [kind |-> "eos", size |-> 0]
Seams == [how : {"open", "debayer", "straight"}, size : {0}] \cup [how : {"relabel"}, size : Sizes]
Norms == [how : {"new", "pass"}, size : {0}] \cup [how : {"cut"}, size : Sizes \cup {Bound}]

TypeOK ==
  /\ conf \in Confs /\ format \in Formats
  /\ queue \in Seq(Formats \cup {Eos}) /\ Len(queue) <= Depth
  /\ srcCaps \in Formats \cup {None}
  /\ seam \in Seams
  /\ scale \in {Bound, None} /\ norm \in Norms
  /\ encoded \in Sizes \cup {Bound, None}
  /\ level \in Levels \cup {None}
  /\ posted \subseteq {"playing", "first", "eos", "error"} /\ played \in BOOLEAN
  /\ main \in {"idle", "open", "serve", "token", "close", "done"}
  /\ stopping \in BOOLEAN /\ error \in BOOLEAN
  /\ advertised \in BOOLEAN /\ retry \in BOOLEAN /\ blind \in BOOLEAN
  /\ presence \subseteq {"session", "queryable", "token"} /\ descr \in Sizes \cup {Bound, None}
  /\ router \in BOOLEAN /\ flips \in 0..MaxFlips
  /\ changes \in 0..MaxChanges
  /\ ended \in BOOLEAN /\ wrong \in BOOLEAN

Init ==
  /\ conf \in Confs /\ format \in Formats
  /\ queue = <<>> /\ srcCaps = None
  /\ seam = [how |-> "open", size |-> 0] /\ norm = [how |-> "new", size |-> 0]
  /\ scale = None /\ encoded = None
  /\ level = None
  /\ posted = {} /\ played = FALSE
  /\ main = "idle" /\ stopping = FALSE /\ error = FALSE
  /\ advertised = FALSE /\ presence = {} /\ descr = None /\ retry = FALSE /\ blind = FALSE
  /\ router \in BOOLEAN /\ flips = 0 /\ changes = 0
  /\ ended = FALSE /\ wrong = FALSE

Running == main \notin {"close", "done"} /\ "error" \notin posted /\ ~error

-------------------------------------------------------------------------------
(* The core, and the source thread. *)

\* The header tells a mosaic from a plane no more than the environment does.
Label(f) ==
  IF conf.transport = "unixfd" THEN f.kind
  ELSE IF f.kind = "mono16" THEN "mono16"
  ELSE IF conf.bayer /\ conf.debayer THEN "bayer8" ELSE "mono8"

Caps(f) == [kind |-> Label(f), size |-> f.size]

\* The source element is PLAYING before or after it has caps.
SourcePlays ==
  /\ Running /\ ~played
  /\ played' = TRUE /\ posted' = posted \cup {"playing"}
  /\ UNCHANGED <<conf, queue, sourceVars, flowVars, level, mainVars, advertVars, routerVars, wrong>>

\* A frame comes in with its format; one with a damaged header is dropped, and nothing
\* else happens.  The pump's first one triggers the advert.
Receive ==
  /\ Running /\ ~ended /\ Len(queue) < Depth
  /\ srcCaps' = Caps(format)
  /\ queue' = Append(queue, Caps(format))
  /\ posted' = IF conf.transport = "shm" /\ srcCaps = None /\ ~advertised
               THEN posted \cup {"first"} ELSE posted
  /\ UNCHANGED <<conf, played, format, changes, ended, flowVars, level, mainVars,
                 advertVars, routerVars, wrong>>

Change ==
  /\ Running /\ ~ended /\ changes < MaxChanges /\ srcCaps # None
  /\ changes' = changes + 1
  /\ format' \in Formats \ {format}
  /\ UNCHANGED <<conf, played, queue, posted, srcCaps, ended, flowVars, level, mainVars,
                 advertVars, routerVars, wrong>>

\* The core is gone; the pump hands the end on.
SourceEnds ==
  /\ Running /\ ~ended /\ Len(queue) < Depth
  /\ ended' = TRUE
  /\ queue' = Append(queue, Eos)
  /\ UNCHANGED <<conf, played, posted, format, srcCaps, changes, flowVars, level, mainVars,
                 advertVars, routerVars, wrong>>

-------------------------------------------------------------------------------
(* The flow: what happens to a frame with caps c. *)

\* Fault: the front end is what the environment predicts.
AdaptAsPredicted(c) ==
  [how |-> IF conf.bayer /\ conf.debayer THEN "debayer" ELSE "straight", size |-> 0]

\* What the seam becomes on the first caps.
Adapt(c) ==
  CASE c.kind # "bayer8" -> [how |-> "straight", size |-> 0]
    [] c.kind = "bayer8" /\ conf.debayer -> [how |-> "debayer", size |-> 0]
    [] OTHER -> [how |-> "relabel", size |-> c.size]

SeamOf(c) == IF seam.how = "open" THEN Adapt(c) ELSE seam

\* bayer2rgb takes a mosaic only, what follows none; a relabelled frame must have the
\* size it is relabelled to.
Passes(c) ==
  /\ SeamOf(c).how = "debayer" => c.kind = "bayer8"
  /\ SeamOf(c).how = "straight" => c.kind # "bayer8"
  /\ SeamOf(c).how = "relabel" => c.size = SeamOf(c).size

\* fit_within, applied to all caps: the same aspect, never more than the bound.
Target(size) == IF conf.bounded /\ size > Bound THEN Bound ELSE None

Scaled(size) == IF Target(size) = None THEN size ELSE Target(size)

\* The normalize pump is configured by its first sample.  A 16-bit one then cuts frames
\* of its size out of whatever comes, and drops what is shorter.
Configured(c) ==
  CASE norm.how # "new" -> norm
    [] norm.how = "new" /\ c.kind = "mono16" -> [how |-> "cut", size |-> Scaled(c.size)]
    [] OTHER -> [how |-> "pass", size |-> 0]

Sixteen(c) == conf.normalize /\ Configured(c).how = "cut"
Bytes(c) == IF c.kind = "mono16" THEN 2 * Scaled(c.size) ELSE Scaled(c.size)
TooShort(c) == Sixteen(c) /\ Bytes(c) < 2 * Configured(c).size

\* The size on the sink's pad; caps the pump has set stay.
FedSize(c) == IF Sixteen(c) THEN Configured(c).size ELSE Scaled(c.size)

\* Another size under the caps of the first: the conversion behind the pump fails.
Mismatch(c) == conf.normalize /\ ~Sixteen(c) /\ encoded # None /\ Scaled(c.size) # encoded

FlowFails ==
  /\ posted' = posted \cup {"error"}
  /\ queue' = <<>>
  /\ UNCHANGED <<encoded, norm, scale, wrong>>

FlowFrame ==
  /\ Running /\ queue # <<>> /\ Head(queue) # Eos
  /\ LET c == Head(queue)
     IN /\ seam' = SeamOf(c)
        /\ IF ~Passes(c) \/ Mismatch(c) THEN FlowFails
           ELSE /\ queue' = Tail(queue)
                /\ scale' = Target(c.size)
                /\ norm' = IF conf.normalize THEN Configured(c) ELSE norm
                /\ encoded' = IF TooShort(c) THEN encoded ELSE FedSize(c)
                /\ wrong' = (wrong \/ (~TooShort(c) /\ FedSize(c) # Scaled(c.size)))
                /\ UNCHANGED posted
  /\ UNCHANGED <<conf, played, sourceVars, level, mainVars, advertVars, routerVars>>

\* Through both pumps and the sink, to the bus.
FlowEos ==
  /\ Running /\ queue # <<>> /\ Head(queue) = Eos
  /\ queue' = Tail(queue)
  /\ posted' = posted \cup {"eos"}
  /\ UNCHANGED <<conf, played, sourceVars, flowVars, level, mainVars, advertVars, routerVars, wrong>>

\* The lowest level that covers the size, or the highest allowed.
LevelFor(size) ==
  CHOOSE l \in Levels :
    /\ size <= l \/ \A k \in Levels : k <= l
    /\ \A k \in Levels : size <= k => l <= k

\* Fault: the environment's geometry goes first.
EncodeGeometryOfEnv ==
  CASE conf.env # None -> conf.env
    [] conf.env = None /\ encoded # None -> encoded
    [] OTHER -> srcCaps.size

\* What the sink's pad shows, or the source's until it does.
EncodeGeometry == IF encoded # None THEN encoded ELSE srcCaps.size

\* Discovery, or a consumer: the level is derived once.
Pin ==
  /\ Running /\ srcCaps # None
  /\ level' = IF level = None THEN LevelFor(EncodeGeometry) ELSE level
  /\ UNCHANGED <<conf, played, queue, posted, sourceVars, flowVars, mainVars, advertVars, routerVars, wrong>>

-------------------------------------------------------------------------------
(* The main loop. *)

MainOnly == UNCHANGED <<conf, played, queue, sourceVars, flowVars, level, routerVars, wrong>>

\* The source's PLAYING, or on the header's path the first frame.
WantsAdvert(m) == ~advertised /\ (m = "playing" => conf.transport # "shm")

\* The size on the source's pad, or the environment's before it has one.
Described == IF srcCaps # None THEN srcCaps.size ELSE conf.env

\* Once: what the viewers will get, as far as caps or environment tell.
Advertise(m) ==
  /\ main = "idle" /\ m \in posted \cap {"playing", "first"}
  /\ posted' = posted \ {m}
  /\ IF WantsAdvert(m)
     THEN /\ advertised' = TRUE
          /\ descr' = IF ~conf.advertise \/ Described = None THEN None ELSE Scaled(Described)
          /\ blind' = (srcCaps = None)
          /\ main' = IF conf.advertise THEN "open" ELSE "idle"
     ELSE UNCHANGED <<advertised, descr, blind, main>>
  /\ UNCHANGED <<stopping, error, presence, retry>> /\ MainOnly

AdvertFails ==
  /\ main \in {"open", "serve", "token"} /\ ~router
  /\ presence' = {} /\ retry' = TRUE
  /\ main' = "idle"
  /\ UNCHANGED <<posted, stopping, error, advertised, descr, blind>> /\ MainOnly

OpenSession ==
  /\ main = "open" /\ router
  /\ presence' = {"session"} /\ main' = "serve"
  /\ UNCHANGED <<posted, stopping, error, advertised, descr, blind, retry>> /\ MainOnly

\* Fault: presence is declared before there is anybody to ask.
TokenFirst ==
  /\ main = "serve" /\ router
  /\ presence' = presence \cup {"token"} /\ main' = "token"
  /\ UNCHANGED <<posted, stopping, error, advertised, descr, blind, retry>> /\ MainOnly

Serve ==
  /\ main = "serve" /\ router
  /\ presence' = presence \cup {"queryable"} /\ main' = "token"
  /\ UNCHANGED <<posted, stopping, error, advertised, descr, blind, retry>> /\ MainOnly

DeclareToken ==
  /\ main = "token" /\ router
  /\ presence' = presence \cup {"token"} /\ main' = "idle" /\ retry' = FALSE
  /\ UNCHANGED <<posted, stopping, error, advertised, descr, blind>> /\ MainOnly

\* Fault: one attempt is all.
RetryNever ==
  /\ main = "idle" /\ retry
  /\ retry' = FALSE
  /\ UNCHANGED <<posted, mainVars, advertised, presence, descr, blind>> /\ MainOnly

\* Every five seconds until the token is there.
Retry ==
  /\ main = "idle" /\ retry
  /\ main' = "open"
  /\ UNCHANGED <<posted, stopping, error, advertVars>> /\ MainOnly

OnEos ==
  /\ main = "idle" /\ "eos" \in posted
  /\ main' = "close"
  /\ UNCHANGED <<posted, stopping, error, advertVars>> /\ MainOnly

OnError ==
  /\ main = "idle" /\ "error" \in posted
  /\ error' = TRUE /\ main' = "close"
  /\ UNCHANGED <<posted, stopping, advertVars>> /\ MainOnly

Signal ==
  /\ main = "idle" /\ ~stopping
  /\ stopping' = TRUE /\ main' = "close"
  /\ UNCHANGED <<posted, error, advertVars>> /\ MainOnly

Teardown ==
  /\ main = "close" /\ main' = "done"
  /\ presence' = {}
  /\ UNCHANGED <<posted, stopping, error, advertised, descr, retry, blind>> /\ MainOnly

Flip ==
  /\ main # "done" /\ flips < MaxFlips
  /\ flips' = flips + 1 /\ router' = ~router
  /\ UNCHANGED <<conf, played, queue, posted, sourceVars, flowVars, level, mainVars, advertVars, wrong>>

Core == Change \/ SourceEnds
Flow == FlowFrame \/ FlowEos
Dispatch == (\E m \in {"playing", "first"} : Advertise(m)) \/ Retry \/ OnEos \/ OnError
Main == Dispatch \/ AdvertFails \/ OpenSession \/ Serve \/ DeclareToken \/ Teardown

Next == SourcePlays \/ Receive \/ Core \/ Flow \/ Pin \/ Main \/ Signal \/ Flip

Spec == Init /\ [][Next]_vars

\* The main loop serves what is ready: a bus message and the timer in turn.
FairSpec ==
  /\ Spec
  /\ WF_vars(SourcePlays) /\ WF_vars(Receive) /\ WF_vars(Flow) /\ WF_vars(Main)
  /\ SF_vars(OnEos \/ OnError)

-------------------------------------------------------------------------------
(* Properties. *)

\* The descriptor tells a viewer the size it will receive, downscaled if it is bounded,
\* unless it was made before the source had caps or the format has changed since; and the
\* bound is kept throughout.
DescriptorIsTrue ==
  /\ descr # None /\ encoded # None /\ ~blind /\ changes = 0 => descr = encoded
  /\ conf.bounded /\ encoded # None => encoded <= Bound
  /\ conf.transport = "shm" => ~blind

\* The level consumers are promised covers what is encoded, downscaled or not, unless the
\* format has changed since or no level allowed does.
LevelCovers ==
  level # None /\ encoded # None /\ changes = 0 =>
    encoded <= level \/ \A l \in Levels : l < encoded

\* bridge_stream.py:640-800: what a viewer is told before it connects is what it gets.
PromisesHold == TypeOK /\ DescriptorIsTrue /\ LevelCovers

\* No prediction of the environment can break the stream on its first format, whatever
\* that is, nor is a frame encoded with another one's layout; a change of the format may.
FirstFormatPlays == changes = 0 => ~error /\ "error" \notin posted /\ ~wrong

\* A dashboard that sees the stream can ask for its descriptor, and nothing is left of
\* either when the bridge has ended.
PresenceIsServed ==
  /\ "token" \in presence => "queryable" \in presence
  /\ main = "done" => presence = {}

\* A stream that flows is discovered once the router stays, and a bridge without its core
\* ends, through both pumps.
ComesAndGoes ==
  /\ <>[]router => (conf.advertise /\ srcCaps # None ~> "token" \in presence \/ main = "done")
  /\ ended ~> main = "done"
===============================================================================
