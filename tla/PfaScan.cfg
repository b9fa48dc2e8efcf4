SPECIFICATION ScanSpec
CONSTANTS
  PAGE_SIZE = 4
  MAX_FRAMES = 9
  MaxCount = 4
PROPERTIES
  ScanIsFirstRun
CHECK_DEADLOCK FALSE
