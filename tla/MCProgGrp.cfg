CONSTANTS
  p1 = p1
  Progs = {p1, p2, p3}
  First <- FirstOne
  Modes <- LocalOrNotify
  Nobody = Nobody
  MaxCtl = 2
SPECIFICATION Spec
INVARIANTS ProcessKept KilledIsDone
PROPERTIES KillgrpReaches LeaderAlone
SYMMETRY Symmetry
CHECK_DEADLOCK FALSE
