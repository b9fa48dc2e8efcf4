SPECIFICATION SessionSpec
CONSTANTS
  MAX_PROCESSES = 3
  Files = {"shell", "top", "hello"}
  CodePages <- MCCodePages
  Shell = "shell"
  Names = {"shell", "top", "hello", "nofile"}
  WaitPids = {}
  MaxFrames = 18
  KB_LINE_MAX = 2
  Chars = {"shell", "top", "hello", "exit", "q", "help"}
  Top = "top"
  Space = " "
  Builtins = {"help"}
  ExitWord = "exit"
  Quit = "q"
  NoSuchFile = "nofile"
  MAX_ROWS = 3
INVARIANTS
  OneForeground
  TableTrue
PROPERTY
  PromptReturns
CHECK_DEADLOCK FALSE
