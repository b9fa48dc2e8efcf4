SPECIFICATION Spec
CONSTANTS
  PAGE_SIZE = 4
  MAX_FRAMES = 24
  MAX_PROCESSES = 3
  PTES = 4
  StackPage = 23
  Files = {"sh"}
  CodePages <- TwoPages
  Shell = "sh"
  KernelDir = 5
  MinFree = 1
  MaxFree = 22
INVARIANTS
  KernelStackPrivate
CHECK_DEADLOCK FALSE
