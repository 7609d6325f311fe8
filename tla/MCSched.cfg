CONSTANTS
  VProcs = {v1, v2, v3, v4}
  KProcs = {k1}
  Progs = {g1}
  Cycles = 2
  Collects = TRUE
  NoProc = NoProc
  NoProg = NoProg
SYMMETRY Symmetry
SPECIFICATION Spec
INVARIANTS OneVM VMsAsNeeded CurrunIsMine
CHECK_DEADLOCK FALSE
