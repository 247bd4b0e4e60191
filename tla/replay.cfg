\* Two sessions, a loop or a restart, two requests, one failure and one stop.
CONSTANTS
  Sessions = 2
  Rows = 2
  MaxCycles = 1
  MaxRequests = 2
  MaxFaults = 1
  MaxStops = 1
SPECIFICATION FairSpec
CHECK_DEADLOCK FALSE
INVARIANTS
  EndIsTrue
  NothingLateStrikes
PROPERTIES
  DeliveryIsOrdered
  NobodyWaitsForever
