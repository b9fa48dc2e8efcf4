SPECIFICATION Spec
CONSTANTS
  PAGE_SIZE = 4
  MAX_FRAMES = 24
  MAX_PROCESSES = 3
  PTES = 4
  StackPage = 23
  Files = {"sh", "empty", "two"}
  CodePages <- MixedPrograms
  Shell = "sh"
  KernelDir = 5
  MinFree = 2
  MaxFree = 22
INVARIANTS
  Isolation
  KernelReachable
  Loaded
PROPERTIES
  MappingsStable
  CreateCost
CHECK_DEADLOCK FALSE
