SPECIFICATION Spec
CONSTANTS
  Procs = {p, q, r}
  Vectors = {0, 3, 13, 14, 17, 32, 33, 48, 128}
  TssBases <- MCTssBases
INVARIANTS
  FramesMatch
  StackDiscipline
  Segments
