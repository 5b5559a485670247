SPECIFICATION FairSpec
CONSTANTS
  MaxThreads = 2
  MaxSize = 2
INVARIANTS
  NoUseAfterDelete
PROPERTIES
  BufferIsQueue
  TestEnds
