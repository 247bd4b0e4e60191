SPECIFICATION Spec
CONSTANTS
  Modes <- MCModes
  Interval = 1
  MaxJump = 2
  MemoDepth = 2
  Window = 2
  EncDepth = 2
  MaxTime = 4
  MaxFrames = 4
  MaxLoss = 1
  MaxReopens = 1
CHECK_DEADLOCK FALSE
INVARIANTS
  MuxerPtsIncrease
  
  FramesAreAttested
PROPERTIES
  BranchesAgree
