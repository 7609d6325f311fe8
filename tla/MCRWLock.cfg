CONSTANTS
  Procs = {p1, p2, p3}
  QLocks = {"x", "k"}
  NoProc = NoProc
  NoLock = NoLock
SPECIFICATION FairSpec
INVARIANTS Exclusion
PROPERTIES WriterNotOvertaken EveryoneGetsIn
