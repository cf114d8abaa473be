CONSTANTS
  f1 = f1
  f2 = f2
  s1 = s1
  s2 = s2
  FirstData = {f1, f2}
  SecondData = {s1, s2}
  NoData = NoData
  N_SLAVES = 3
  Writers = {1}
  MaxCount = 2
  MaxLen = 2
  ADDR_W = 6
  MaxDelay = 1
  Accesses <- SevenLoops
  Works <- SomeWorks
SPECIFICATION PartsSpec
INVARIANT LastEndsTransfer VisitsTheNest StoredOnce
PROPERTY EachInOrder PairsLeave RunEnds RunCompletes
