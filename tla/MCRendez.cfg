CONSTANTS
  Procs = {p1, p2}
  Rends = {r1, r2}
  NoProc = NoProc
  NoRend = NoRend
SPECIFICATION FairSpec
INVARIANTS TokenDiscipline NoLostWakeup NoLostKill CauseReported SignalWindow
PROPERTIES CallsReturn
CHECK_DEADLOCK FALSE
