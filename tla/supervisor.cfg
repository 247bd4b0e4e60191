CONSTANTS
  N = 2
  Restartable = {1}
  RestartMax = 2
  RestartReset = 4
  Backoff = 1
  Stagger = 1
  Nap = 1
  PluginGrace = 1
  CoreGrace = 2
SPECIFICATION Spec
INVARIANTS
  EndsAreHonest
  StopInTime
  RapidRestartsEnd
PROPERTIES
  SensorEnds
