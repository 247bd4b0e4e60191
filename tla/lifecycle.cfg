\* Every deployment: recording on or off, boot state, resume, control plane,
\* live or playback source.
CONSTANTS
  MaxBoots = 2
  MaxSessions = 2
SPECIFICATION FairSpec
INVARIANTS
  FileTellsTheTruth
  SessionIsOwned
PROPERTIES
  SignalEndsRun
