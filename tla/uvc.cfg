CONSTANTS
  CamFrames = 4
  Payloads = 3
  Pieces = 2
  MaxPending = 3
  MaxFaults = 2
SPECIFICATION UvcSpec
INVARIANTS
  OneFrameEach
  IntactKept
