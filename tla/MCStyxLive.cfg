CONSTANTS
  Clients = {c1, c2}
  Slaves = {s1}
  NoOne = NoOne
  MaxCalls = 3
  MaxTag = 5
  MaxFree = 1
  MaxFaults = 1
  MayHangup = FALSE
SPECIFICATION FairSpec
PROPERTIES CallsReturn
CHECK_DEADLOCK FALSE
VIEW Seen
