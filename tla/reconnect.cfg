CONSTANTS
  Kinds = {"gige", "rtsp", "usb", "shm"}
  MaxDrops = 2
  MaxFails = 2
  BackoffTop = 1
SPECIFICATION Spec
INVARIANTS
  QuietRelease
  FlagIsWorkers
PROPERTIES
  Recovers
  StopCompletes
