SPECIFICATION Spec
CONSTANTS
  c1 = c1
  c2 = c2
  None = None
  Entries <- MCEntries
  Callers <- OneCaller
  MaxLength = 2
  MaxBatch = 1
  KeepFrom = 0
  FreeUse = TRUE
INVARIANTS
  OpenFindsLastSlot
