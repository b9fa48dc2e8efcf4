SPECIFICATION FairSpec
CONSTANTS
  PAGE_SIZE = 8
  MAX_FRAMES = 6
  MaxHeld = 3
  HEADER = 2
  BASE = 10
  Used <- MCUsed
  Requests <- MCRequests
INVARIANTS
  Partition
  FreeListOK
PROPERTIES
  CallReturns
  HeapSpec
  SearchComplete
  CallProgress
