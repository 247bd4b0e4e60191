-------------------------- MODULE ControlPlane_proofs --------------------------
(***************************************************************************)
(* The control plane for any number of planes, dashboards, requests and     *)
(* processes.  Presence is honest because only a session that the object    *)
(* holds is ever declared into (Declared), and a stop that finds the loop    *)
(* leaves none to be declared into (Withdrawing).  Reviews are sound because *)
(* whatever a dashboard was told, however long ago, is at most as new as the *)
(* settings, and the same settings if it is as new (Knows).                  *)
(***************************************************************************)
EXTENDS ControlPlane, SequenceTheorems, TLAPS

Told == ({audit, view} \cup {seen[d] : d \in Dashboards}) \ {None}
Asked == {queue[i].expect : i \in DOMAIN queue} \ {None}

Knows(v) ==
  /\ v.gen <= generation
  /\ v.gen = generation => v.rev <= revision /\ (v.rev = revision => v.set = current)

Declared ==
  /\ presence \subseteq served
  /\ zsession # "held" => presence = {} /\ served = {}
  /\ zsession = "loose" => main = "advertise" /\ step = 1
  /\ main = "boot" \/ (main = "advertise" /\ step = 0) \/ (main \in {"loop", "install"} /\ retry) =>
       zsession = "none"
  /\ main = "advertise" /\ step > 1 /\ PartOf = 1 /\ zsession = "held" => PlaneOf \in served

Withdrawing ==
  /\ signalled = "loop" => closed /\ zsession = "none" /\ main \notin {"boot", "advertise"}
  /\ main = "done" => zsession = "none"

Current == main # "install" => view = Snapshot

Installing == main = "install" => queue # <<>>

Known == \A v \in Told \cup Asked : Knows(v)

IInv == TypeOK /\ Declared /\ Withdrawing /\ Current /\ Installing /\ Known /\ RevisionsAgree /\ NothingUnreviewed

(* Three micro-steps a plane, counted from the second.                     *)
LEMMA Parts ==
  ASSUME NEW n \in 2..(3 * Planes + 1)
  PROVE  /\ (n - 2) \div 3 + 1 \in AllPlanes
         /\ n = 3 * Planes + 1 => (n - 2) % 3 = 2
         /\ (n - 2) % 3 = 0 => (n + 1 - 2) \div 3 = (n - 2) \div 3
         /\ (n + 1 - 2) % 3 = 1 => (n - 2) % 3 = 0
<1>1. CASE Planes = 1
  BY <1>1 DEF AllPlanes
<1>2. CASE Planes = 2
  BY <1>2 DEF AllPlanes
<1>3. CASE Planes = 3
  BY <1>3 DEF AllPlanes
<1> QED BY <1>1, <1>2, <1>3, PlanesAssumption

LEMMA InitIInv == Init => IInv
<1> SUFFICES ASSUME Init PROVE IInv
  OBVIOUS
<1>1. FlagsTypeOK
  BY Zenon DEF Init, FlagsTypeOK
<1>2. PlaneTypeOK /\ Declared /\ Withdrawing
  BY PlanesAssumption DEF Init, PlaneTypeOK, AllPlanes, Declared, Withdrawing
<1>3. ClientsTypeOK
  BY PlanesAssumption DEF Init, ClientsTypeOK
<1>4. view \in Views /\ generation \in 1..MaxGeneration /\ revision \in 0..MaxRevision
  BY SettingsAssumption DEF Init, SettingsInit, Views
<1>5. blind \in BOOLEAN /\ NothingUnreviewed
  BY Zenon DEF Init, SettingsInit, NothingUnreviewed
<1>6. SettingsTypeOK
  BY SettingsAssumption, <1>4, <1>5 DEF Init, SettingsInit, SettingsTypeOK
<1>7. Current
  BY DEF Init, SettingsInit, Current, Snapshot
<1>8. Told \subseteq {view} /\ Asked = {}
  BY DEF Init, SettingsInit, Told, Asked
<1>9. Known
  BY <1>8 DEF Init, SettingsInit, Known, Knows
<1>10. RevisionsAgree
  BY <1>8 DEF RevisionsAgree, Told
<1>11. Installing
  BY DEF Init, Installing
<1> QED BY <1>1, <1>2, <1>3, <1>5, <1>6, <1>7, <1>9, <1>10, <1>11 DEF IInv, TypeOK

-----------------------------------------------------------------------------
(* Presence.                                                               *)

LEMMA PlaneStep == IInv /\ [Next]_vars => (PlaneTypeOK /\ Declared /\ Withdrawing)'
<1> SUFFICES ASSUME IInv, [Next]_vars PROVE (PlaneTypeOK /\ Declared /\ Withdrawing)'
  OBVIOUS
<1> USE PlanesAssumption DEF IInv, TypeOK, PlaneTypeOK, Declared, Withdrawing, SafeClose, Go, KeepRest,
      Advertising, PartOf, PlaneOf, plane, router, clients, settings, vars
<1>1. CASE Boot
  BY <1>1 DEF Boot
<1>2. CASE OpenSession
  BY <1>2 DEF OpenSession
<1>3. CASE AssignSession
  BY <1>3 DEF AssignSession
<1>4. CASE Serve
  BY <1>4, Parts DEF Serve
<1>5. CASE DeclareToken
  BY <1>5, Parts DEF DeclareToken
<1>6. CASE AssignToken
  BY <1>6, Parts DEF AssignToken
<1>7. CASE AdvertiseFails
  BY <1>7 DEF AdvertiseFails
<1>8. CASE Retry
  BY <1>8 DEF Retry
<1>9. CASE Configure \/ Install \/ RefuseConfigure \/ HandleActivate \/ HandleDeactivate
  BY <1>9 DEF Configure, Install, RefuseConfigure, HandleActivate, HandleDeactivate, Pending
<1>10. CASE LoopEnds \/ Close
  BY <1>10 DEF LoopEnds, Close
<1>11. CASE Signal
  BY <1>11 DEF Signal
<1>12. ASSUME NEW d \in Dashboards, Look(d) \/ Ask(d)
       PROVE  (PlaneTypeOK /\ Declared /\ Withdrawing)'
  BY <1>12 DEF Look, Ask
<1>13. CASE Flip
  BY <1>13 DEF Flip
<1>14. CASE Restart
  BY <1>14 DEF Restart
<1>15. CASE UNCHANGED vars
  BY <1>15
<1> HIDE DEF PlaneTypeOK, Declared, Withdrawing
<1> QED
  BY <1>1, <1>2, <1>3, <1>4, <1>5, <1>6, <1>7, <1>8, <1>9, <1>10, <1>11, <1>12, <1>13,
      <1>14, <1>15 DEF Next, Advertise, Handle, Ended

LEMMA FlagsStep == IInv /\ [Next]_vars => FlagsTypeOK'
<1> SUFFICES ASSUME IInv, [Next]_vars PROVE FlagsTypeOK'
  OBVIOUS
<1> USE DEF Next, Advertise, Handle, Ended, Boot, OpenSession, AssignSession, Serve, DeclareToken,
      AssignToken, AdvertiseFails, Retry, Configure, Install, RefuseConfigure, HandleActivate,
      HandleDeactivate, LoopEnds, Close, Signal, Look, Ask, Flip, Restart, SafeClose, Go, KeepRest,
      plane, router, clients, settings, vars
<1>1. closed' \in {closed, TRUE, FALSE}
  OBVIOUS
<1>2. retry' \in {retry, TRUE, FALSE}
  OBVIOUS
<1>3. stopping' \in {stopping, TRUE, FALSE}
  OBVIOUS
<1>4. reachable' \in {reachable, ~reachable}
  OBVIOUS
<1> HIDE DEF Next
<1> QED BY Zenon, <1>1, <1>2, <1>3, <1>4 DEF IInv, TypeOK, FlagsTypeOK

-----------------------------------------------------------------------------
(* Settings.                                                               *)

LEMMA SettingsTypeStep == IInv /\ [Next]_vars => SettingsTypeOK'
<1> SUFFICES ASSUME IInv, [Next]_vars PROVE SettingsTypeOK'
  OBVIOUS
<1> USE SettingsAssumption DEF IInv, TypeOK, SettingsTypeOK
<1>1. CASE UNCHANGED settings
  BY <1>1 DEF settings
<1>2. ASSUME NEW q, Activate(q) PROVE SettingsTypeOK'
  <2>1. Snapshot \in Views
    BY DEF Snapshot, Views
  <2>2. blind' \in BOOLEAN
    BY Zenon, <1>2 DEF Activate
  <2> QED BY <1>2, <2>1, <2>2 DEF Activate
<1>3. CASE CloseSession
  BY <1>3 DEF CloseSession
<1>4. ASSUME NEW q \in Requests, Change(q.expect, q.set, stopping) PROVE SettingsTypeOK'
  <2>1. q.set \in Settings
    BY DEF Requests
  <2>2. blind' \in BOOLEAN
    BY Zenon, <1>4 DEF Change
  <2> QED BY <1>4, <2>1, <2>2 DEF Change
<1>5. CASE ShowChange
  BY <1>5 DEF ShowChange, Views
<1>6. CASE NewProcess
  BY <1>6 DEF NewProcess, Views
<1>7. ASSUME NEW k, Pending(k) PROVE Head(queue) \in Requests
  BY <1>7 DEF Pending, ClientsTypeOK
<1> HIDE DEF SettingsTypeOK, TypeOK, IInv
<1> QED
  BY <1>1, <1>2, <1>3, <1>4, <1>5, <1>6, <1>7
     DEF Next, Advertise, Handle, Ended, Boot, OpenSession, AssignSession, Serve, DeclareToken,
      AssignToken, AdvertiseFails, Retry, Configure, Install, RefuseConfigure, HandleActivate,
      HandleDeactivate, LoopEnds, Close, Signal, Look, Ask, Flip, Restart, KeepRest, vars

(* What is left of a queue, and what a reply tells.                        *)
LEMMA QueueSteps ==
  ASSUME ClientsTypeOK, queue # <<>>
  PROVE  /\ Tail(queue) \in Seq(Requests) /\ Len(Tail(queue)) <= MaxRequests
         /\ Head(queue) \in Requests /\ 1 \in DOMAIN queue /\ Head(queue) = queue[1]
         /\ \A i \in DOMAIN Tail(queue) : i + 1 \in DOMAIN queue /\ Tail(queue)[i] = queue[i + 1]
BY PlanesAssumption, HeadTailProperties DEF ClientsTypeOK

LEMMA ClientsStep == IInv /\ [Next]_vars => ClientsTypeOK'
<1> SUFFICES ASSUME IInv, [Next]_vars PROVE ClientsTypeOK'
  OBVIOUS
<1>0. MaxRequests \in Nat /\ ClientsTypeOK /\ view \in Views
  BY PlanesAssumption DEF IInv, TypeOK, SettingsTypeOK
<1>a. view' \in Views
  BY SettingsTypeStep DEF SettingsTypeOK
<1>1. CASE UNCHANGED clients
  BY <1>0, <1>1 DEF clients, ClientsTypeOK
<1>2. CASE queue' = <<>> /\ UNCHANGED seen
  BY <1>0, <1>2 DEF ClientsTypeOK
<1>3. ASSUME NEW d \in Dashboards, Look(d) PROVE ClientsTypeOK'
  BY <1>0, <1>3 DEF Look, ClientsTypeOK
<1>4. ASSUME NEW d \in Dashboards, Ask(d) PROVE ClientsTypeOK'
  <2>1. PICK q : /\ q \in [from : {d}, kind : {"configure"}, expect : {seen[d]} \ {None}, set : Settings]
                        \cup [from : {d}, kind : {"activate"}, expect : {seen[d], None}, set : {Deployed}]
                        \cup [from : {d}, kind : {"deactivate"}, expect : {None}, set : {Deployed}]
                 /\ queue' = Append(queue, q)
    BY <1>4 DEF Ask
  <2>2. seen[d] \in Views \cup {None}
    BY <1>0 DEF ClientsTypeOK
  <2>3. q \in Requests
    BY <2>1, <2>2 DEF Requests
  <2> HIDE DEF Requests
  <2>4. UNCHANGED seen /\ Len(queue) < MaxRequests
    BY <1>4 DEF Ask
  <2> QED BY <1>0, <2>1, <2>3, <2>4 DEF ClientsTypeOK
<1>5. ASSUME queue # <<>>, Reply(Head(queue)) PROVE ClientsTypeOK'
  <2>1. Tail(queue) \in Seq(Requests) /\ Len(Tail(queue)) <= MaxRequests
    BY <1>0, <1>5, QueueSteps
  <2>2. queue' = Tail(queue)
    BY <1>5 DEF Reply
  <2>3. seen' = seen \/ \E d : seen' = [seen EXCEPT ![d] = view']
    BY <1>5 DEF Reply
  <2>4. seen' \in [Dashboards -> Views \cup {None}]
    BY <1>0, <1>a, <2>3 DEF ClientsTypeOK
  <2> QED BY <2>1, <2>2, <2>4 DEF ClientsTypeOK
<1> HIDE DEF ClientsTypeOK, IInv, TypeOK
<1>6. CASE Install
  <2>1. queue # <<>>
    BY <1>6 DEF Install, IInv, Installing
  <2> QED BY <1>5, <1>6, <2>1 DEF Install
<1> QED
  BY <1>1, <1>2, <1>3, <1>4, <1>5, <1>6
     DEF Next, Advertise, Handle, Ended, Boot, OpenSession, AssignSession, Serve, DeclareToken,
      AssignToken, AdvertiseFails, Retry, Configure, RefuseConfigure, HandleActivate,
      HandleDeactivate, LoopEnds, Close, Signal, Flip, Restart, KeepRest, Pending, vars

LEMMA InstallingStep == IInv /\ [Next]_vars => Installing'
<1> SUFFICES ASSUME IInv, [Next]_vars PROVE Installing'
  OBVIOUS
<1>1. main' # "install" \/ (UNCHANGED <<main, queue>>) \/ Configure \/ \E d \in Dashboards : Ask(d)
  BY DEF Next, Advertise, Handle, Ended, Boot, OpenSession, AssignSession, Serve, DeclareToken,
      AssignToken, AdvertiseFails, Retry, Install, RefuseConfigure, HandleActivate, Advertising,
      HandleDeactivate, LoopEnds, Close, Signal, Look, Flip, Restart, KeepRest, Pending, Go, clients, vars
<1>2. CASE UNCHANGED <<main, queue>>
  BY <1>2 DEF IInv, Installing
<1>3. CASE Configure
  BY <1>3 DEF Configure, Pending, Installing, clients
<1>4. ASSUME NEW d \in Dashboards, Ask(d) PROVE Installing'
  <2>1. \E q : queue' = Append(queue, q)
    BY <1>4 DEF Ask
  <2> QED BY <2>1 DEF Installing, IInv, TypeOK, ClientsTypeOK
<1> QED BY <1>1, <1>2, <1>3, <1>4 DEF Installing

(* As long as the settings stay, nothing is told but them or what was told  *)
(* before.                                                                 *)
LEMMA ToldOnly ==
  ASSUME IInv, UNCHANGED <<generation, revision, current>>,
         Told' \subseteq Told \cup {Snapshot}, Asked' \subseteq Told \cup Asked
  PROVE  Known' /\ RevisionsAgree'
<1>1. \A v : Knows(v)' = Knows(v)
  BY DEF Knows
<1>2. Snapshot.gen = generation /\ Snapshot.rev = revision /\ Snapshot.set = current
  BY DEF Snapshot
<1>3. generation \in Nat /\ revision \in Nat
  BY DEF IInv, TypeOK, SettingsTypeOK
<1>4. Knows(Snapshot)
  BY <1>2, <1>3 DEF Knows
<1>5. \A v \in Told \cup Asked : Knows(v)
  BY DEF IInv, Known
<1>6. Known'
  BY <1>1, <1>4, <1>5 DEF Known
<1>7. \A v, w \in Told : v.gen = w.gen /\ v.rev = w.rev => v.set = w.set
  BY Zenon DEF IInv, RevisionsAgree, Told
<1>8. \A v \in Told : v.gen = generation /\ v.rev = revision => v.set = current
  BY <1>5 DEF Knows
<1>9. \A v, w \in Told' : v.gen = w.gen /\ v.rev = w.rev => v.set = w.set
  <2> HIDE DEF Told, Snapshot
  <2> QED BY <1>2, <1>7, <1>8
<1>10. RevisionsAgree'
  BY Zenon, <1>9 DEF RevisionsAgree, Told
<1> QED BY <1>6, <1>10

(* An action that touches neither.                                         *)
LEMMA Untouched ==
  ASSUME IInv, UNCHANGED <<generation, revision, current, view, audit, blind>>, UNCHANGED clients,
         main' # "install" => main # "install"
  PROVE  Current' /\ Known' /\ RevisionsAgree' /\ NothingUnreviewed'
<1>1. Told' = Told /\ Asked' = Asked
  BY DEF Told, Asked, clients
<1>2. Known' /\ RevisionsAgree'
  BY <1>1, ToldOnly
<1>3. Current'
  BY DEF IInv, Current, Snapshot
<1>4. NothingUnreviewed'
  BY Zenon DEF IInv, NothingUnreviewed
<1> QED BY <1>2, <1>3, <1>4

(* A reply tells the settings there are.                                   *)
LEMMA ReplyTells ==
  ASSUME IInv, queue # <<>>, Reply(Head(queue)), view' = Snapshot, audit' \in {audit, Snapshot}
  PROVE  Told' \subseteq Told \cup {Snapshot} /\ Asked' \subseteq Asked
<1>1. \A d \in Dashboards : seen'[d] \in {seen[d], view'}
  BY DEF Reply, IInv, TypeOK, ClientsTypeOK
<1>2. \A d \in Dashboards : seen'[d] # None => seen'[d] \in Told \cup {Snapshot}
  BY <1>1 DEF Told
<1>3. Told' \subseteq Told \cup {Snapshot}
  BY <1>2 DEF Told
<1>4. \A i \in DOMAIN queue' : \E j \in DOMAIN queue : queue'[i] = queue[j]
  BY QueueSteps DEF Reply, IInv, TypeOK
<1>5. Asked' \subseteq Asked
  BY <1>4 DEF Asked
<1> QED BY <1>3, <1>5

LEMMA KnownStep ==
  IInv /\ [Next]_vars => (Current /\ Known /\ RevisionsAgree /\ NothingUnreviewed)'
<1> DEFINE Goal == Current' /\ Known' /\ RevisionsAgree' /\ NothingUnreviewed'
<1> SUFFICES ASSUME IInv, [Next]_vars PROVE Goal
  OBVIOUS
<1>0. /\ main # "install" => view = Snapshot
      /\ generation \in Nat /\ revision \in Nat
      /\ ClientsTypeOK
  BY DEF IInv, Current, TypeOK, SettingsTypeOK
<1>1. CASE /\ UNCHANGED <<generation, revision, current, view, audit, blind>> /\ UNCHANGED clients
           /\ main' # "install" => main # "install"
  BY <1>1, Untouched
<1>2. CASE Boot
  <2>1. CASE UNCHANGED settings
    BY <1>2, <2>1, Untouched DEF Boot, settings
  <2>2. CASE Activate(None)
    <3>1. /\ UNCHANGED <<generation, revision, current, view, clients>> /\ audit' \in {audit, Snapshot}
          /\ main = "boot" /\ main' # "install"
      BY <1>2, <2>2 DEF Boot, Activate, Snapshot
    <3>2. Told' \subseteq Told \cup {Snapshot} /\ Asked' = Asked
      BY <3>1 DEF Told, Asked, clients
    <3>3. NothingUnreviewed'
      BY Zenon, <2>2 DEF Activate, IInv, NothingUnreviewed
    <3>4. Current'
      BY <1>0, <3>1 DEF Current, Snapshot
    <3> QED BY <3>1, <3>2, <3>3, <3>4, ToldOnly
  <2> QED BY <1>2, <2>1, <2>2 DEF Boot
<1>3. CASE LoopEnds
  <2>1. /\ UNCHANGED <<generation, revision, current, view, audit, blind, seen>> /\ queue' = <<>>
        /\ main = "loop"
    BY <1>3 DEF LoopEnds, CloseSession
  <2>2. Told' = Told /\ Asked' = {}
    BY <2>1 DEF Told, Asked
  <2>3. Current'
    BY <1>0, <2>1 DEF Current, Snapshot
  <2>4. NothingUnreviewed'
    BY Zenon, <2>1 DEF IInv, NothingUnreviewed
  <2> QED BY <2>1, <2>2, <2>3, <2>4, ToldOnly
<1>4. ASSUME NEW d \in Dashboards, Look(d) PROVE Goal
  <2>1. /\ UNCHANGED <<main, queue, settings>>
        /\ \A e \in Dashboards : seen'[e] \in {seen[e], view}
    BY <1>0, <1>4 DEF Look, ClientsTypeOK
  <2>2. UNCHANGED <<generation, revision, current, view, audit, blind>>
    BY <2>1 DEF settings
  <2>3. view # None
    BY SettingsAssumption DEF IInv, TypeOK, SettingsTypeOK
  <2>4. Told' \subseteq Told /\ Asked' = Asked
    BY <2>1, <2>2, <2>3 DEF Told, Asked
  <2>5. Current' 
    BY <1>0, <2>1, <2>2 DEF Current, Snapshot
  <2>6. NothingUnreviewed'
    BY Zenon, <2>2 DEF IInv, NothingUnreviewed
  <2> QED BY <2>2, <2>4, <2>5, <2>6, ToldOnly
<1>5. ASSUME NEW d \in Dashboards, Ask(d) PROVE Goal
  <2>1. PICK q : q.expect \in {seen[d], None} /\ queue' = Append(queue, q)
    BY <1>5 DEF Ask
  <2>2. UNCHANGED <<main, seen, generation, revision, current, view, audit, blind>>
    BY <1>5 DEF Ask, settings
  <2>3. \A i \in DOMAIN queue' : (i \in DOMAIN queue /\ queue'[i] = queue[i]) \/ queue'[i] = q
    BY <1>0, <2>1, AppendProperties DEF ClientsTypeOK
  <2>4. Asked' \subseteq Asked \cup Told /\ Told' = Told
    BY <2>1, <2>2, <2>3 DEF Told, Asked
  <2>5. Current'
    BY <1>0, <2>2 DEF Current, Snapshot
  <2>6. NothingUnreviewed'
    BY Zenon, <2>2 DEF IInv, NothingUnreviewed
  <2> QED BY <2>2, <2>4, <2>5, <2>6, ToldOnly
<1>6. CASE Configure
  <2>1. PICK q \in Requests : q = Head(queue) /\ q.kind = "configure" /\ Change(q.expect, q.set, stopping)
    BY <1>0, <1>6, QueueSteps DEF Configure, Pending
  <2>2. main = "loop" /\ main' = "install" /\ UNCHANGED clients /\ queue # <<>>
    BY <1>6 DEF Configure, Pending
  <2>3. revision' = revision + 1 /\ UNCHANGED <<generation, view, audit>>
    BY <2>1 DEF Change
  <2>4. Told' = Told /\ Asked' = Asked
    BY <2>2, <2>3 DEF Told, Asked, clients
  <2>5. \A v \in Told \cup Asked : v.gen <= generation /\ (v.gen = generation => v.rev <= revision)
    BY DEF IInv, Known, Knows
  <2>6. \A v \in Told \cup Asked : Knows(v)'
    <3> SUFFICES ASSUME NEW v \in Told \cup Asked PROVE Knows(v)'
      OBVIOUS
    <3>1. v \in Views
      BY DEF Told, Asked, IInv, TypeOK, ClientsTypeOK, SettingsTypeOK, Requests
    <3>2. v.rev \in Int
      BY <3>1 DEF Views
    <3> QED BY <1>0, <2>3, <2>5, <3>2 DEF Knows
  <2>7. Known'
    BY <2>4, <2>6 DEF Known
  <2>8. RevisionsAgree'
    BY <2>2, <2>3 DEF IInv, RevisionsAgree, clients
  <2>9. NothingUnreviewed'
    <3>1. q.expect \in Asked /\ q.expect \in Views
      BY <1>0, <2>1, <2>2, QueueSteps, SettingsAssumption DEF Asked, Requests
    <3>2. q.expect.gen = generation /\ q.expect.rev = revision
      BY <1>0, <2>1, <2>2 DEF Change, Accepted, Reviewed, Snapshot
    <3>3. q.expect.set = current
      BY <3>1, <3>2 DEF IInv, Known, Knows
    <3>4. blind' = (blind \/ q.expect.set # current)
      BY Zenon, <2>1 DEF Change
    <3> QED BY Zenon, <3>3, <3>4 DEF IInv, NothingUnreviewed
  <2>10. Current'
    BY <2>2 DEF Current
  <2> QED BY <2>7, <2>8, <2>9, <2>10
<1>7. CASE Install
  <2>1. queue # <<>> /\ Reply(Head(queue)) /\ view' = Snapshot /\ audit' = audit
        /\ UNCHANGED <<generation, revision, current, blind>>
    BY <1>7 DEF Install, ShowChange, Snapshot, IInv, Installing
  <2>2. Known' /\ RevisionsAgree'
    BY <2>1, ReplyTells, ToldOnly
  <2>3. Current'
    BY <2>1 DEF Current, Snapshot
  <2>4. NothingUnreviewed'
    BY Zenon, <2>1 DEF IInv, NothingUnreviewed
  <2> QED BY <2>2, <2>3, <2>4
<1>8. CASE RefuseConfigure \/ HandleDeactivate
  <2>1. /\ queue # <<>> /\ Reply(Head(queue)) /\ main = "loop"
        /\ UNCHANGED <<generation, revision, current, blind, view, audit>>
    BY <1>8 DEF RefuseConfigure, HandleDeactivate, CloseSession, settings, Pending
  <2>2. view' = Snapshot
    BY <1>0, <2>1
  <2>3. Known' /\ RevisionsAgree'
    BY <2>1, <2>2, ReplyTells, ToldOnly
  <2>4. Current'
    BY <2>1, <2>2 DEF Current, Snapshot
  <2>5. NothingUnreviewed'
    BY Zenon, <2>1 DEF IInv, NothingUnreviewed
  <2> QED BY <2>3, <2>4, <2>5
<1>9. CASE HandleActivate
  <2>1. /\ queue # <<>> /\ Reply(Head(queue)) /\ main = "loop"
        /\ UNCHANGED <<generation, revision, current, view>> /\ audit' \in {audit, Snapshot}
    BY <1>9 DEF HandleActivate, Activate, settings, Pending
  <2>2. view' = Snapshot
    BY <1>0, <2>1
  <2>3. Known' /\ RevisionsAgree'
    BY <2>1, <2>2, ReplyTells, ToldOnly
  <2>4. Current'
    BY <2>1, <2>2 DEF Current, Snapshot
  <2>5. NothingUnreviewed'
    <3>1. CASE UNCHANGED settings
      BY Zenon, <3>1 DEF IInv, NothingUnreviewed, settings
    <3>2. CASE MayActivate(Head(queue).expect, stopping) /\ Activate(Head(queue).expect)
      <4> DEFINE e == Head(queue).expect
      <4>1. e = None \/ e \in Asked
        BY <1>0, <2>1, QueueSteps DEF Asked
      <4>2. e # None => e.gen = generation /\ e.rev = revision
        BY <1>0, <2>1, <3>2 DEF MayActivate, Reviewed, Snapshot
      <4>3. e # None => e.set = current
        BY <4>1, <4>2 DEF IInv, Known, Knows
      <4>4. blind' = (blind \/ (session' # None /\ e # None /\ e.set # current))
        BY Zenon, <3>2 DEF Activate
      <4> HIDE DEF e
      <4> QED BY Zenon, <4>3, <4>4 DEF IInv, NothingUnreviewed
    <3> QED BY <1>9, <3>1, <3>2 DEF HandleActivate
  <2> QED BY <2>3, <2>4, <2>5
<1>10. CASE Restart
  <2>1. /\ generation' = generation + 1 /\ revision' = 0 /\ current' = Deployed
        /\ view' = [gen |-> generation + 1, rev |-> 0, set |-> Deployed]
        /\ UNCHANGED <<audit, seen>> /\ queue' = <<>>
    BY <1>10 DEF Restart, NewProcess
  <2>2. blind' = blind
    BY Zenon, <1>10 DEF Restart, NewProcess
  <2>3. Told' \subseteq Told \cup {view'} /\ Asked' = {}
    BY <2>1 DEF Told, Asked
  <2>4. \A v \in Told : v.gen <= generation /\ v \in Views
    BY DEF IInv, Known, Knows, Told, TypeOK, ClientsTypeOK, SettingsTypeOK
  <2>5. \A v \in Told : v.gen < generation + 1
    BY <1>0, <2>4 DEF Views
  <2>6. \A v \in Told : Knows(v)'
    BY <1>0, <2>1, <2>5, <2>4 DEF Knows, Views
  <2>7. Knows(view)'
    BY <1>0, <2>1 DEF Knows
  <2>8. Known'
    BY <2>3, <2>6, <2>7 DEF Known
  <2>9. \A v, w \in Told : v.gen = w.gen /\ v.rev = w.rev => v.set = w.set
    BY Zenon DEF IInv, RevisionsAgree, Told
  <2>10. \A v, w \in Told' : v.gen = w.gen /\ v.rev = w.rev => v.set = w.set
    <3>1. view'.gen = generation + 1
      BY <2>1
    <3>2. \A v \in Told : v.gen # view'.gen
      BY <1>0, <2>4, <2>5, <3>1 DEF Views
    <3> HIDE DEF Told
    <3> QED BY <2>3, <2>9, <3>2
  <2>11. RevisionsAgree'
    BY Zenon, <2>10 DEF RevisionsAgree, Told
  <2>12. Current'
    BY <2>1 DEF Current, Snapshot
  <2>13. NothingUnreviewed'
    BY Zenon, <2>2 DEF IInv, NothingUnreviewed
  <2> QED BY <2>8, <2>11, <2>12, <2>13
<1> HIDE DEF Goal
<1>11. CASE LoopEnds \/ Close \/ Signal \/ Flip \/ Ended
  BY <1>1, <1>3, <1>11 DEF Close, Signal, Flip, Ended, clients, settings, vars
<1>12. CASE Advertise
  BY <1>1, <1>12 DEF Advertise, OpenSession, AssignSession, Serve, DeclareToken, AssignToken,
      AdvertiseFails, Retry, Advertising, Go, KeepRest, clients, settings
<1>13. CASE UNCHANGED vars
  BY <1>1, <1>13 DEF vars, clients, settings
<1> QED
  BY <1>2, <1>4, <1>5, <1>6, <1>7, <1>8, <1>9, <1>10, <1>11, <1>12, <1>13 DEF Next, Handle

LEMMA Invariance == Spec => []IInv
<1>1. IInv /\ [Next]_vars => IInv'
  BY PlaneStep, FlagsStep, ClientsStep, SettingsTypeStep, InstallingStep, KnownStep DEF IInv, TypeOK
<1> QED BY InitIInv, <1>1, PTL DEF Spec

-----------------------------------------------------------------------------
(* The theorems.                                                           *)

(* Whoever reacts to the presence of a plane finds something to query, and *)
(* a stop withdraws it, wherever it hits the declarations                  *)
(* (control_zenoh.py:199-307); and every variable keeps its type.          *)
THEOREM PresenceIsHonest == Spec => []PresenceIsTrue
<1>1. IInv => PresenceIsTrue
  BY DEF IInv, Declared, Withdrawing, PresenceIsTrue, PresenceIsServed, Withdrawn
<1> QED BY <1>1, Invariance, PTL

(* A generation and a revision name the same settings to all dashboards    *)
(* and in all files, across restarts (pipeline.py:827-960).                *)
THEOREM RevisionsAreNames == Spec => []RevisionsAgree
<1>1. IInv => RevisionsAgree
  BY DEF IInv
<1> QED BY <1>1, Invariance, PTL

(* No change is applied, and no session opened, on settings other than     *)
(* those the requester looked at, and none changes under an open session.  *)
THEOREM ReviewsAreSound == Spec => NothingUnseen
<1>1. IInv => NothingUnreviewed
  BY DEF IInv
<1>2. [Next]_vars => [session # None /\ session' # None => current' = current]_vars
  <2> SUFFICES ASSUME [Next]_vars, session # None, session' # None PROVE current' = current
    OBVIOUS
  <2> QED
    BY DEF Next, Advertise, Handle, Ended, Boot, OpenSession, AssignSession, Serve, DeclareToken,
      AssignToken, AdvertiseFails, Retry, Configure, Install, RefuseConfigure, HandleActivate,
      HandleDeactivate, LoopEnds, Close, Signal, Look, Ask, Flip, Restart, KeepRest, settings, vars,
      Change, Accepted, Editable, ShowChange, Activate, CloseSession, NewProcess
<1> QED BY <1>1, <1>2, Invariance, PTL DEF Spec, NothingUnseen, LockedWhileOpen
=============================================================================
