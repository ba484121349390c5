CONSTANTS
  Main = m
  Nobody = nobody
  Table = {}
  Closure = {c1}
  UpVal = {u1}
  Thread = {m, th}
  String = {}
  HasGC = {}
  FullGCs = {}
  TightStack = TRUE
  MaxStack = 2
  MaxRefs = 1
SPECIFICATION Spec
INVARIANTS ReachableIsLive BlackNeverPointsToWhite GrayIsListed TwupsIsExact
