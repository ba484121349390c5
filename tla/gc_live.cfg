CONSTANTS
  Main = m
  Nobody = nobody
  Table = {t1}
  Closure = {c1}
  UpVal = {}
  Thread = {m}
  String = {}
  HasGC = {t1}
  FullGCs = {}
  TightStack = FALSE
  MaxStack = 2
  MaxRefs = 1
SPECIFICATION FairSpec
PROPERTIES GarbageIsFreed FinalizerIsCalled
