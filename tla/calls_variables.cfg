SPECIFICATION ScopeSpec
CONSTANTS
  v1 = v1
  v2 = v2
  e1 = e1
  Var = {v1, v2}
  Error = {e1}
  message = e1
  MaxFrames = 3
  FrameSize = 2
  MaxVars = 2
  MaxCcalls = 3
  ArithConcat = FALSE
  NestedClose = FALSE
SYMMETRY Symmetry
INVARIANTS SlotsKept ResultsWait
PROPERTIES ImplementsScope
