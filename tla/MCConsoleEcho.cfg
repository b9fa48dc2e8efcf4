SPECIFICATION Spec
CONSTANTS
  KB_LINE_MAX = 3
  Chars = {"k"}
  FB_COLS = 2
  FB_ROWS = 4
  RADIX = 4
  BootKeys = 2
  Messages <- MCMessages
  Output <- MCOutput
PROPERTIES
  EchoStays
