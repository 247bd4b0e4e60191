------------------------------ MODULE GenicamPoll ------------------------------
(***************************************************************************)
(* The health thread's poll of a GenICam camera (health_genicam.py): a       *)
(* sequence of transactions, between which the camera's lock is free and a   *)
(* reconnect may replace the device.  One feature stands for the             *)
(* measurements, a second for the states (temp.state, ptp.state), which are  *)
(* kept when a later read of them fails; the look whether the camera has a   *)
(* feature is part of its read, which it can make raise.                     *)
(***************************************************************************)
EXTENDS Integers, FiniteSets, FiniteSetsExt

CONSTANT MaxReconnects

ASSUME ReconnectsAssumption == MaxReconnects \in Nat

VARIABLES
  device,    \* the generation of the camera object, counted by its reconnects
  id,        \* id() of the device; a freed object's may be given out again
  link,      \* "up", "lost" (control_lost), "away" (a reconnect is under way)
  knownId,   \* GenicamProvider._device_id
  status,    \* _status_values: [level, of] of the last state read, or NoStatus
  at,        \* "none", "hw", "temp", "state", "last"
  failed,    \* transactions of this poll that failed
  measured,  \* this poll's measurement, as the level of its limits, or None
  of,        \* history: the devices this poll's values come from
  recycled   \* history: an id was given out again

genicam == <<device, id, link, knownId, status, at, failed, measured, of, recycled>>

None == 4
NoStatus == [level |-> 0, of |-> -1]

Transactions == {"hw", "temp", "state", "last"}

GenicamTypeOK ==
  /\ device \in 0..MaxReconnects /\ id \in 0..MaxReconnects
  /\ link \in {"up", "lost", "away"}
  /\ knownId \in -1..MaxReconnects
  /\ status \in [level : {0, 2}, of : -1..MaxReconnects]
  /\ at \in {"none"} \cup Transactions /\ failed \in 0..2 /\ measured \in {0, 1, None}
  /\ of \subseteq 0..MaxReconnects /\ recycled \in BOOLEAN

GenicamInit ==
  /\ device = 0 /\ id = 0 /\ link = "up" /\ knownId = -1 /\ status = NoStatus
  /\ at = "none" /\ failed = 0 /\ measured = None /\ of = {} /\ recycled = FALSE

\* The camera: lost, reconnecting, back as another object.
LoseCamera ==
  /\ link = "up" /\ device < MaxReconnects
  /\ link' = "lost"
  /\ UNCHANGED <<device, id, knownId, status, at, failed, measured, of, recycled>>

\* The watchdog declares a reconnect, after a loss or because no frames came.
StartReconnect ==
  /\ link = "lost" \/ (link = "up" /\ device < MaxReconnects)
  /\ link' = "away"
  /\ UNCHANGED <<device, id, knownId, status, at, failed, measured, of, recycled>>

Reconnected ==
  /\ link = "away"
  /\ link' = "up"
  /\ device' = device + 1
  /\ \/ id' = device + 1 /\ UNCHANGED recycled
     \/ id' = id /\ recycled' = TRUE
  /\ UNCHANGED <<knownId, status, at, failed, measured, of>>

StartPoll ==
  /\ at = "none"
  /\ at' = "hw" /\ failed' = 0 /\ measured' = None /\ of' = {}
  /\ UNCHANGED <<device, id, link, knownId, status, recycled>>

NextAt ==
  CASE at = "hw" -> "temp" [] at = "temp" -> "state" [] at = "state" -> "last"
    [] OTHER -> "none"

\* Only the first transaction of a poll may meet another device.
SameDevice == knownId = id \/ at = "hw"

\* Reconnecting, not connected, or another device than the poll began with.
Unavailable == link # "up" \/ ~SameDevice

\* _device_call: the first one of a new device forgets all that was read of the old.
Transact ==
  /\ ~Unavailable
  /\ knownId' = IF at = "hw" THEN id ELSE knownId
  /\ of' = of \cup {device}
  /\ UNCHANGED <<device, id, link, recycled>>

\* The identity first; in the end, once more, which measurements the camera has.
Look ==
  /\ at = "hw" \/ (at = "last" /\ failed < 2)
  /\ Transact
  /\ status' = IF at = "hw" /\ knownId # id THEN NoStatus ELSE status
  /\ at' = NextAt
  /\ UNCHANGED <<failed, measured>>

ReadMeasurement ==
  /\ at = "temp"
  /\ Transact
  /\ measured' \in {0, 1}
  /\ at' = NextAt
  /\ UNCHANGED <<failed, status>>

ReadState ==
  /\ at = "state"
  /\ Transact
  /\ \E level \in {0, 2} : status' = [level |-> level, of |-> device]
  /\ at' = NextAt
  /\ UNCHANGED <<failed, measured>>

\* The read fails, or the camera's lock is taken: this value is skipped, a state
\* keeps what was last read of it.
ReadFails ==
  /\ at \in {"temp", "state"}
  /\ failed' = failed + 1
  /\ at' = NextAt
  /\ UNCHANGED <<device, id, link, knownId, status, measured, of, recycled>>

\* The poll ends, with a report or an exception; what it gathered goes with it.
LeavePoll ==
  /\ at' = "none" /\ failed' = 0 /\ measured' = None /\ of' = {}
  /\ UNCHANGED <<device, id, link, knownId, status, recycled>>

\* _camera_report: the state that was last read, and a warning for what was not.
CameraLevel == Max({status.level, IF failed > 0 THEN 1 ELSE 0})

CameraReport == [level |-> CameraLevel, lim |-> IF measured = None THEN 0 ELSE measured]

\* The values and the states of a report are of one device.
OneDevice == Cardinality(of \cup ({status.of} \ {-1})) <= 1
=============================================================================
