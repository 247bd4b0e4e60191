CONSTANTS
  StaleAfter = 1
  StallAfter = 1
  HoldFor = 1
  SeqMod = 5
  Lag = 2
  MaxLate = 1
  MaxReconnects = 1
  DeviceKinds = {"boson", "genicam", "plain"}
  Readings = {0, 2}
SPECIFICATION HealthSpec
INVARIANTS
  ReadersSeeTheTruth
  ReportsArePure
PROPERTIES
  StopLeavesNothing
