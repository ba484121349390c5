CONSTANTS
  MAXINT = 2047
  Bits = 12
  Mantissa = 12
  MAXARG_A = 255
  MAXARG_C = 15
  MAXARG_vC = 7
  MAXARG_Bx = 31
  MAXINDEXRK = 3
  MaxIwthAbs = 8
  LimLineDiff = 5
  MAXVARS = 200
  MAXUPVAL = 255
  UNARY_PRIORITY = 12
  Compile <- Parse
  MeaningOf <- Meaning
  ProtosOf <- Protos
  DumpOf <- Dump
  UndumpOf <- undump
  NameIn <- ErrorNameIn
  Sources <- DocumentedSources
SPECIFICATION Spec
INVARIANT OperatorsBind
