SPECIFICATION Spec
CONSTANTS
  v1 = v1
  e1 = e1
  Var = {v1}
  Error = {e1}
  message = e1
  MaxFrames = 4
  FrameSize = 2
  MaxVars = 1
  MaxCcalls = 3
  ArithConcat = TRUE
  NestedClose = FALSE
INVARIANT FinishOpKnows
