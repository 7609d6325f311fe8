CONSTANTS
  VProcs = {v1, v2, v3}
  KProcs = {}
  Progs = {g1, g2}
  Cycles = 0
  Collects = FALSE
  NoProc = NoProc
  NoProg = NoProg
SPECIFICATION FairSpec
PROPERTIES AcquireServed ReadyRuns
CHECK_DEADLOCK FALSE
