\* Up to two frames a pass, two further cycles, two requests, one error and one stop.
CONSTANTS
  Frames = 2
  Queue = 1
  MaxCycles = 2
  MaxRequests = 2
  MaxErrors = 1
SPECIFICATION PcapFairSpec
CHECK_DEADLOCK FALSE
INVARIANTS
  EndIsHonest
PROPERTIES
  StampsIncrease
  PauseHolds
  FeederGoesOn
