SPECIFICATION MCSpec
CONSTANTS
  c1 = c1
  c2 = c2
  None = None
  Entries <- MCEntries
  Callers <- TwoCallers
  MaxLength = 4
  MaxBatch = 2
  KeepFrom = 2
  FreeUse = FALSE
  Names = {1, 2}
  Anonymous = 1
  Keys = {1, 2}
  Values = {v}
  Iterators = {i}
  MaxInstances = 3
  PathNames = {1, 2}
  MaxDepth = 3
  Creators = {m1, m2}
  MaxFaults = 1
INVARIANTS
  ReportsTheDatabase
  NoGap
  NeverAborts
  IteratorsOutliveOthers
  DeletesAll
  OneCreates
PROPERTY ImplementsLog
CHECK_DEADLOCK FALSE
