SPECIFICATION Spec
CONSTANTS
  MAX_NAME = 4
  HEADER_SIZE = 8
  WORD = 64
  Directories <- MCDirectories
  BufSizes = {0, 1, 2, 3, 4, 5, 6, 7, 8, 9, 10, 11, 12, 63}
INVARIANTS
  ReadsBack
  ListFits
