\* The environments of MCConfs, two sizes, one change of format, a router that
\* comes or goes.
CONSTANTS
  Confs <- MCConfs
  Sizes = {2, 3}
  Bound = 2
  Levels = {2, 4}
  Depth = 1
  MaxChanges = 1
  MaxFlips = 1
  None = None
SPECIFICATION FairSpec
CHECK_DEADLOCK FALSE
INVARIANTS
  
  FirstFormatPlays
  PresenceIsServed

  
