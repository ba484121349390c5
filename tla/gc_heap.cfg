CONSTANTS
  Main = m
  Nobody = nobody
  Table = {t1}
  Closure = {}
  UpVal = {}
  Thread = {m}
  String = {s1, s2}
  HasGC = {t1}
  FullGCs = {}
  TightStack = TRUE
  MaxStack = 2
  MaxRefs = 1
SPECIFICATION Spec
SYMMETRY AddressSymmetry
INVARIANTS TypeOK CacheIsLive
PROPERTIES ImplementsHeap
