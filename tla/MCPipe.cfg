CONSTANTS
  Queues = {0, 1}
  Procs = {w1, w2, r1}
  Left = {w1, w2}
  Right = {r1}
  Readers = {r1}
  Writers = {w1, w2}
  NoOne = NoOne
  Limit = 2
  MaxBlock = 2
  ReadLens = {1}
  WriteLens = {1, 3}
  MaxSent = 3
  MaxOpens = 3
  MaxKills = 1
SPECIFICATION FairSpec
INVARIANTS NoOvershoot
PROPERTIES TwoStreams SleepersServed
CHECK_DEADLOCK FALSE
