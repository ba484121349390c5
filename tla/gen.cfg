CONSTANTS
  Main = m
  Table = {t1, t2}
  HasGC = {t1}
  Requests = {"full", "inc", "gen", "emergency", "close"}
  GCSWEEPMAX = 20
  MaxStack = 2
  MaxRefs = 1
SPECIFICATION Spec
INVARIANT AgesKept
PROPERTY ImplementsHeap
