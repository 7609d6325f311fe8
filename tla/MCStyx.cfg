CONSTANTS
  Clients = {c1, c2}
  Slaves = {s1, s2}
  NoOne = NoOne
  MaxCalls = 2
  MaxTag = 5
  MaxFree = 1
  MaxFaults = 2
  MayHangup = TRUE
SPECIFICATION Spec
INVARIANTS TagDiscipline Findable KillHitsItsRequest GateIsWatched
PROPERTIES CallsAreOnce
SYMMETRY Symmetry
CHECK_DEADLOCK FALSE
CONSTRAINT OneAtWork
