\* Up to three frames a pass, two further cycles and one restart; the claim without its exception.
CONSTANTS
  Frames = 3
  Queue = 1
  MaxCycles = 2
  MaxRequests = 1
  MaxErrors = 0
SPECIFICATION PcapFairSpec
CHECK_DEADLOCK FALSE
PROPERTIES
  StampsAlwaysIncrease
