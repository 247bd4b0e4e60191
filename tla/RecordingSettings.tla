--------------------------- MODULE RecordingSettings ---------------------------
(***************************************************************************)
(* The recording settings of one process (pipeline.configure_recording,      *)
(* lifecycle.request, recording_settings.py): a change names the generation  *)
(* and the revision it was reviewed against, is checked as a whole and then   *)
(* installed in two steps, of which only the second is seen by the threads    *)
(* that answer queries; a session writes down what it records with.          *)
(* Settings are model values.  Those of the file are lost by a restart.      *)
(***************************************************************************)
EXTENDS Integers

CONSTANTS Settings,       \* requested settings looked at
          Deployed,       \* those of the config file
          MaxGeneration,  \* bound: processes
          MaxRevision,    \* bound: changes of one process
          None            \* nothing

Views == [gen : 1..MaxGeneration, rev : 0..MaxRevision, set : Settings]

ASSUME SettingsAssumption ==
  /\ None \notin Settings \cup Views /\ Deployed \in Settings
  /\ MaxGeneration \in Nat \ {0} /\ MaxRevision \in Nat

VARIABLES
  generation,  \* _settings_generation, as the number of the process
  revision,    \* _settings_revision
  current,     \* cfg.recording and the plan resolved from it
  view,        \* _settings_view
  session,     \* the settings of the open session, or None
  audit,       \* history: a snapshot that was written, any of them, or None
  blind        \* history: settings were changed, or recorded with, that the requester had not seen

settings == <<generation, revision, current, view, session, audit, blind>>

SettingsTypeOK ==
  /\ generation \in 1..MaxGeneration /\ revision \in 0..MaxRevision
  /\ current \in Settings /\ view \in Views
  /\ session \in Settings \cup {None}
  /\ audit \in Views \cup {None} /\ blind \in BOOLEAN

SettingsInit ==
  /\ generation = 1 /\ revision = 0 /\ current = Deployed
  /\ view = [gen |-> 1, rev |-> 0, set |-> Deployed]
  /\ session = None /\ audit = None /\ blind = FALSE

\* A new process: another generation, and what the file says.
NewProcess ==
  /\ generation < MaxGeneration
  /\ generation' = generation + 1 /\ revision' = 0 /\ current' = Deployed
  /\ view' = [gen |-> generation + 1, rev |-> 0, set |-> Deployed]
  /\ session' = None
  /\ UNCHANGED <<audit, blind>>

\* check_recording_settings
Reviewed(seen) == seen.gen = view.gen /\ seen.rev = view.rev

\* Fault: a session that records does not lock them.
Unlocked(stopping) == ~stopping

Editable(stopping) == session = None /\ ~stopping

\* Taken as a whole; what is out of range or has no recording plan is refused, too.
Accepted(seen, stopping) == Editable(stopping) /\ Reviewed(seen)

\* The settings are replaced and counted ...
Change(seen, set, stopping) ==
  /\ Accepted(seen, stopping) /\ set # current
  /\ revision < MaxRevision
  /\ revision' = revision + 1
  /\ current' = set
  /\ blind' = (blind \/ seen.set # current)
  /\ UNCHANGED <<generation, view, session, audit>>

\* ... and then seen, in one assignment.
ShowChange ==
  /\ view' = [gen |-> generation, rev |-> revision, set |-> current]
  /\ UNCHANGED <<generation, revision, current, session, audit, blind>>

\* activate, with or without what was reviewed.
MayActivate(seen, stopping) ==
  session = None /\ ~stopping /\ (seen # None => Reviewed(seen))

Snapshot == [gen |-> generation, rev |-> revision, set |-> current]

\* The snapshot is on the disk before the recorder runs; if either fails there is no
\* session.
Activate(seen) ==
  /\ session' \in {current, None}
  /\ audit' = Snapshot \/ UNCHANGED audit
  /\ blind' = (blind \/ (session' # None /\ seen # None /\ seen.set # current))
  /\ UNCHANGED <<generation, revision, current, view>>

CloseSession ==
  /\ session' = None
  /\ UNCHANGED <<generation, revision, current, view, audit, blind>>
=============================================================================
