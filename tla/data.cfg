CONSTANTS
  MAXINT = 7
  Bits = 4
  Mantissa = 4
  TableKeys <- SomeKeys
  StrHash <- SomeHash
  Seed <- SomeSeeds
  MAXABITS = 2
  MAXHBITS = 3
  maxvicinity = 1
  AskedSizes <- SomeSizes
  Traversed <- TraversedKeys
  LIMFORLAST = 1
  MaxRefs = 3
  Strings <- SomeStrings
  Hash <- StringHash
  MINSTRTABSIZE = 8
  MAXSTRTB = 8
  Limits <- SomeLimits
  Sorts <- SomeSorts
SPECIFICATION DataSpec
INVARIANTS EveryKeyFound BorderFound LibraryAgrees RefsKept ListsSound LoopsExactly SortsSoundly
PROPERTY ImplementsMap
