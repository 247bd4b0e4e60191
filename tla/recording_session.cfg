\* Three frames against an appsrc of one, a row queue of one and two files:
\* every queue fills, the file rotates, and a push blocks.
CONSTANTS
  MaxFrames = 3
  MaxQueue = 1
  MaxFiles = 2
  QueueMax = 1
  FlushEvery = 2
SPECIFICATION FairSpec
INVARIANTS
  AttestationIsExact
  FilesAreHonest
PROPERTIES
  SessionEnds
  ImplementsContract
