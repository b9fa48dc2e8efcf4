SPECIFICATION Spec
CONSTANTS
  PAGE_SIZE = 4
  MAX_FRAMES = 16
  HIGH_MEM = 8
  MaxRun = 3
  BootInfos <- MCBootInfos
INVARIANTS
  CountExact
  NoDoubleAllocation
  OnlyUsableMemory
  NoMemoryLost
