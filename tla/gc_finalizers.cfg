CONSTANTS
  Main = m
  Nobody = nobody
  Table = {t1, t2}
  Closure = {}
  UpVal = {}
  Thread = {m}
  String = {}
  HasGC = {t2}
  FullGCs = {TRUE, FALSE}
  TightStack = TRUE
  MaxStack = 2
  MaxRefs = 1
SPECIFICATION Spec
INVARIANTS ReachableIsLive BlackNeverPointsToWhite GrayIsListed SweepEndsWhite
PROPERTIES FinalizedBeforeFreed
