CONSTANTS
  Procs = {p1, p2, p3}
  QLocks = {k1, k2}
  NoProc = NoProc
  NoLock = NoLock
SPECIFICATION FairClientsSpec
INVARIANTS MutualExclusion HandOver
PROPERTIES EveryWaiterServed FairMutexSpec
