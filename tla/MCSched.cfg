SPECIFICATION FairSpec
CONSTANTS
  MAX_PROCESSES = 3
  Files = {"sh", "empty"}
  CodePages <- MCCodePages
  Shell = "sh"
  Names = {"sh", "empty", "nofile"}
  WaitPids = {1, 2, 3}
  MaxFrames = 18
  KB_LINE_MAX = 2
  Chars = {"a"}
INVARIANTS
  TypeOK
  SingleRunner
  OwnContext
  KernelUninterruptible
  Acknowledged
  HaltsOnlyAlone
  DistinctProcesses
PROPERTIES
  LineFrozen
  LifecycleSpec
  NoStarvation
  WaitReturns
  LineConsumed
CHECK_DEADLOCK FALSE
