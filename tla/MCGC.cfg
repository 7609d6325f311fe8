CONSTANTS
  NCells = 3
  Progs = {p1, p2}
  First = p1
  Callers = {p2}
  Leavers = {p2}
  Fields = {"f"}
  Quanta = {2}
  MaxDepth = 2
  MaxHalt = 1
  Nil = Nil
  Collector = Collector
SPECIFICATION FairSpec
INVARIANTS ReachableKept ScanOnBlock IdleFreesAll
PROPERTIES IdleEnds
