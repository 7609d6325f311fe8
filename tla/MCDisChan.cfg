CONSTANTS
  a = a
  b = b
  Progs = {p1, p2, p3, p4}
  Chans = {a, b}
  Msgs = {m1, m2, m3, m4}
  Cap <- Bufs
  Alts <- Both
  NoMsg = NoMsg
  NoChan = NoChan
SYMMETRY Symmetry
SPECIFICATION Spec
INVARIANTS QueuesExact NoneMissed AltSound
PROPERTIES InOrder Conserved
CHECK_DEADLOCK FALSE
