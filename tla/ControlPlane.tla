----------------------------- MODULE ControlPlane -----------------------------
(***************************************************************************)
(* The zenoh control plane (control_zenoh.py) around the recording settings: *)
(* the main thread declares presence, retries it on a timer and runs the     *)
(* requests that zenoh's threads queue for it; a stop signal withdraws the   *)
(* presence between any two steps of the main thread; dashboards look, ask,  *)
(* give up and ask again.  The code's own micro-steps are told apart where    *)
(* the signal handler can run between them: a declaration that has returned  *)
(* is not known to the object until it is assigned.                          *)
(***************************************************************************)
EXTENDS RecordingSettings, Sequences, FiniteSets

CONSTANTS Planes,      \* 1..Planes: lifecycle, then playback or health
          Dashboards,
          MaxRequests, \* bound: requests on their way to the main loop
          MaxFlips     \* bound: how often the router comes or goes

ASSUME PlanesAssumption == Planes \in 1..3 /\ {MaxFlips, MaxRequests} \subseteq Nat

VARIABLES
  main,       \* "boot", "advertise", "install", "loop", "down", "done"
  step,       \* how far advertise() is: 0 open, 1 assign, then three per plane
  zsession,   \* _session: "none", "loose" (opened, not assigned), "held"
  tokens,     \* planes whose token the object holds
  presence,   \* planes that zenoh knows as present
  served,     \* planes whose queryables and publisher are declared
  closed,     \* _closed
  retry,      \* the retry timer is armed
  stopping,   \* CamPipeline._stopping
  signalled,  \* history: where the main thread was when the signal came
  reachable,  \* the router answers
  flips,
  queue,      \* requests on the main loop
  seen        \* per dashboard: the settings it looks at

plane == <<step, zsession, tokens, presence, served, closed, retry>>
router == <<reachable, flips>>
clients == <<queue, seen>>
vars == <<main, plane, stopping, signalled, router, clients, settings>>

AllPlanes == 1..Planes

\* A request's expectation carries, for the properties, the settings looked at.
Requests == [from : Dashboards, kind : {"configure"}, expect : Views, set : Settings]
       \cup [from : Dashboards, kind : {"activate"}, expect : Views \cup {None}, set : {Deployed}]
       \cup [from : Dashboards, kind : {"deactivate"}, expect : {None}, set : {Deployed}]

PlaneTypeOK ==
  /\ main \in {"boot", "advertise", "install", "loop", "down", "done"}
  /\ step \in 0..(3 * Planes + 1)
  /\ zsession \in {"none", "loose", "held"}
  /\ tokens \subseteq AllPlanes /\ presence \subseteq AllPlanes /\ served \subseteq AllPlanes
  /\ signalled \in {"no", "boot", "advertise", "install", "loop"} /\ flips \in 0..MaxFlips

FlagsTypeOK ==
  /\ closed \in BOOLEAN /\ retry \in BOOLEAN /\ stopping \in BOOLEAN /\ reachable \in BOOLEAN

ClientsTypeOK ==
  /\ queue \in Seq(Requests) /\ Len(queue) <= MaxRequests
  /\ seen \in [Dashboards -> Views \cup {None}]

TypeOK == PlaneTypeOK /\ FlagsTypeOK /\ ClientsTypeOK /\ SettingsTypeOK

Init ==
  /\ main = "boot" /\ step = 0 /\ zsession = "none"
  /\ tokens = {} /\ presence = {} /\ served = {}
  /\ closed = FALSE /\ retry = FALSE /\ stopping = FALSE /\ signalled = "no"
  /\ reachable \in BOOLEAN /\ flips = 0
  /\ queue = <<>> /\ seen = [d \in Dashboards |-> None]
  /\ SettingsInit

-----------------------------------------------------------------------------
(* Declaring presence, on the main thread.                                   *)

\* _safe_close: a session that is not assigned yet is not closed.
SafeClose ==
  /\ tokens' = {}
  /\ zsession' = IF zsession = "held" THEN "none" ELSE zsession
  /\ presence' = IF zsession = "held" THEN {} ELSE presence \ tokens
  /\ served' = IF zsession = "held" THEN {} ELSE served

\* lifecycle.boot: into a session, or not; if it cannot open there is no service.
Boot ==
  /\ main = "boot"
  /\ \/ /\ UNCHANGED settings
        /\ main' \in {"advertise", "down"}
     \/ /\ MayActivate(None, stopping) /\ Activate(None)
        /\ main' = IF session' = None THEN "down" ELSE "advertise"
  /\ step' = 0
  /\ UNCHANGED <<zsession, tokens, presence, served, closed, retry, stopping, signalled, router,
                 clients>>

PlaneOf == (step - 2) \div 3 + 1
PartOf == (step - 2) % 3

Advertising == main = "advertise"
Go == step' = step + 1 /\ UNCHANGED <<main, closed, retry>>
KeepRest == UNCHANGED <<stopping, signalled, router, clients, settings>>

OpenSession ==
  /\ Advertising /\ step = 0 /\ reachable
  /\ zsession' = "loose"
  /\ Go /\ KeepRest /\ UNCHANGED <<tokens, presence, served>>

AssignSession ==
  /\ Advertising /\ step = 1
  /\ zsession' = "held"
  /\ Go /\ KeepRest /\ UNCHANGED <<tokens, presence, served>>

\* Queryables and publisher first ...
Serve ==
  /\ Advertising /\ step > 1 /\ step < 3 * Planes + 2 /\ PartOf = 0 /\ zsession = "held"
  /\ served' = served \cup {PlaneOf}
  /\ Go /\ KeepRest /\ UNCHANGED <<zsession, tokens, presence>>

\* ... the token last.
DeclareToken ==
  /\ Advertising /\ step > 1 /\ PartOf = 1 /\ zsession = "held"
  /\ presence' = presence \cup {PlaneOf}
  /\ Go /\ KeepRest /\ UNCHANGED <<zsession, tokens, served>>

\* Of the last plane, presence is complete.
AssignToken ==
  /\ Advertising /\ step > 1 /\ PartOf = 2
  /\ tokens' = tokens \cup {PlaneOf}
  /\ IF step = 3 * Planes + 1 THEN main' = "loop" /\ step' = 0 /\ retry' = FALSE
     ELSE step' = step + 1 /\ UNCHANGED <<main, retry>>
  /\ KeepRest /\ UNCHANGED <<zsession, presence, served, closed>>

\* The router does not answer, or a stop has closed the session under it: given up as a
\* whole, to be retried.
AdvertiseFails ==
  /\ Advertising
  /\ \/ step # 1 /\ PartOf # 2 /\ ~reachable
     \/ step > 1 /\ PartOf # 2 /\ zsession = "none"
  /\ SafeClose
  /\ main' = "loop" /\ step' = 0 /\ retry' = TRUE
  /\ KeepRest /\ UNCHANGED closed

\* Fault: the timer does not look whether the service stops.
RetryAnyway ==
  /\ main = "loop" /\ retry
  /\ main' = "advertise"
  /\ KeepRest /\ UNCHANGED plane

\* Fault: a start that failed is not retried.
RetryNever ==
  /\ main = "loop" /\ retry
  /\ retry' = FALSE
  /\ KeepRest /\ UNCHANGED <<main, step, zsession, tokens, presence, served, closed>>

Retry ==
  /\ main = "loop" /\ retry
  /\ IF closed THEN retry' = FALSE /\ UNCHANGED main ELSE main' = "advertise" /\ UNCHANGED retry
  /\ KeepRest /\ UNCHANGED <<step, zsession, tokens, presence, served, closed>>

\* The signal handler, on the main thread.
Signal ==
  /\ main \in {"boot", "advertise", "install", "loop"} /\ signalled = "no"
  /\ signalled' = main
  /\ closed' = TRUE /\ SafeClose
  /\ stopping' = TRUE
  /\ UNCHANGED <<main, step, retry, router, clients, settings>>

\* The loop ends once it is stopped, or by itself, and what was queued on it is dropped.
LoopEnds ==
  /\ main = "loop"
  /\ main' = "down" /\ queue' = <<>>
  /\ CloseSession
  /\ UNCHANGED <<plane, stopping, signalled, router, seen>>

Close ==
  /\ main = "down"
  /\ main' = "done" /\ closed' = TRUE /\ SafeClose
  /\ UNCHANGED <<step, retry, stopping, signalled, router, clients, settings>>

-----------------------------------------------------------------------------
(* Requests.                                                                 *)

\* A look at the descriptor is answered by zenoh's thread.
Look(d) ==
  /\ 1 \in served
  /\ seen' = [seen EXCEPT ![d] = view]
  /\ UNCHANGED <<main, plane, stopping, signalled, router, queue, settings>>

\* A request is queued for the main loop; a dashboard that timed out sends another.
Ask(d) ==
  /\ 1 \in served /\ Len(queue) < MaxRequests
  /\ \E q \in [from : {d}, kind : {"configure"}, expect : {seen[d]} \ {None}, set : Settings]
           \cup [from : {d}, kind : {"activate"}, expect : {seen[d], None}, set : {Deployed}]
           \cup [from : {d}, kind : {"deactivate"}, expect : {None}, set : {Deployed}] :
       queue' = Append(queue, q)
  /\ UNCHANGED <<main, plane, stopping, signalled, router, seen, settings>>

\* The reply carries the descriptor, and may be lost.
Reply(q) ==
  /\ queue' = Tail(queue)
  /\ seen' = [seen EXCEPT ![q.from] = view'] \/ UNCHANGED seen

Pending(kind) == main = "loop" /\ queue # <<>> /\ Head(queue).kind = kind

\* Fault: the counter goes into what is shown before the settings do.
ShowRevisionFirst ==
  /\ Pending("configure")
  /\ LET q == Head(queue) IN
       /\ Accepted(q.expect, stopping) /\ q.set # current /\ revision < MaxRevision
       /\ revision' = revision + 1 /\ current' = q.set
       /\ view' = [view EXCEPT !.rev = revision + 1]
       /\ main' = "install"
  /\ UNCHANGED <<generation, session, audit, blind, plane, stopping, signalled, router, clients>>

Configure ==
  /\ Pending("configure")
  /\ LET q == Head(queue) IN
       /\ Change(q.expect, q.set, stopping)
       /\ main' = "install"
  /\ UNCHANGED <<plane, stopping, signalled, router, clients>>

Install ==
  /\ main = "install"
  /\ ShowChange
  /\ Reply(Head(queue))
  /\ main' = "loop"
  /\ UNCHANGED <<plane, stopping, signalled, router>>

\* Locked, stale, unfit, or no change.
RefuseConfigure ==
  /\ Pending("configure")
  /\ UNCHANGED settings
  /\ Reply(Head(queue))
  /\ UNCHANGED <<main, plane, stopping, signalled, router>>

HandleActivate ==
  /\ Pending("activate")
  /\ LET q == Head(queue) IN
       /\ IF MayActivate(q.expect, stopping) THEN Activate(q.expect) ELSE UNCHANGED settings
       /\ Reply(q)
  /\ UNCHANGED <<main, plane, stopping, signalled, router>>

HandleDeactivate ==
  /\ Pending("deactivate")
  /\ CloseSession
  /\ Reply(Head(queue))
  /\ UNCHANGED <<main, plane, stopping, signalled, router>>

-----------------------------------------------------------------------------
\* The router comes and goes.
Flip ==
  /\ flips < MaxFlips /\ main # "done"
  /\ reachable' = ~reachable /\ flips' = flips + 1
  /\ UNCHANGED <<main, plane, stopping, signalled, clients, settings>>

\* The process is gone, by its own end or a crash; zenoh withdraws what it declared.
Restart ==
  /\ NewProcess
  /\ main' = "boot" /\ step' = 0 /\ zsession' = "none"
  /\ tokens' = {} /\ presence' = {} /\ served' = {}
  /\ closed' = FALSE /\ retry' = FALSE /\ stopping' = FALSE /\ signalled' = "no"
  /\ queue' = <<>>
  /\ UNCHANGED <<router, seen>>

Ended == main = "done" /\ UNCHANGED vars

Advertise ==
  \/ OpenSession \/ AssignSession \/ Serve \/ DeclareToken \/ AssignToken
  \/ AdvertiseFails \/ Retry

Handle == Configure \/ Install \/ RefuseConfigure \/ HandleActivate \/ HandleDeactivate

Next ==
  \/ Boot \/ Advertise \/ Handle \/ LoopEnds \/ Close \/ Signal
  \/ (\E d \in Dashboards : Look(d) \/ Ask(d))
  \/ Flip \/ Restart \/ Ended

\* The main thread goes on, and the loop ends after a stop.
Spec == Init /\ [][Next]_vars /\ WF_vars(Boot) /\ WF_vars(Advertise) /\ WF_vars(Handle)
             /\ WF_vars(stopping /\ LoopEnds) /\ WF_vars(Close)

-----------------------------------------------------------------------------
(* Properties.                                                               *)

\* Whoever reacts to the presence of a plane finds something to query there.
PresenceIsServed == presence \subseteq served

\* A stop of the running service withdraws its presence for good, not after the drain;
\* whenever the signal came, none is left at the end.
Withdrawn ==
  /\ signalled = "loop" => presence = {}
  /\ main = "done" => presence = {} /\ served = {}

\* No change is applied, and no session opened, on settings other than those its author
\* looked at, by whichever dashboard, request sent again or process they were replaced.
NothingUnreviewed == ~blind

\* A generation and a revision name the same settings wherever they are told: to a
\* dashboard on zenoh's thread, or in the files of the sessions.
RevisionsAgree ==
  \A v, w \in ({audit, view} \cup {seen[d] : d \in Dashboards}) \ {None} :
    v.gen = w.gen /\ v.rev = w.rev => v.set = w.set

\* What an open session records with does not change under it.
LockedWhileOpen == [][session # None /\ session' # None => current' = current]_vars

\* Once the router answers and goes on answering, the service becomes controllable.
BecomesControllable ==
  (main = "loop" /\ reachable)
    ~> (presence = AllPlanes \/ ~reachable \/ stopping \/ main \in {"down", "done", "boot"})

\* control_zenoh.py:199-307: presence means a service that answers and goes on running.
PresenceIsTrue == TypeOK /\ PresenceIsServed /\ Withdrawn

\* pipeline.py:827-960: nothing is recorded with settings nobody has seen, neither from
\* the start of a session nor from within one.
NothingUnseen == []NothingUnreviewed /\ LockedWhileOpen
=============================================================================
