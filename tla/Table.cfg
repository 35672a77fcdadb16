SPECIFICATION Spec
CONSTANTS
  None = None
  Keys <- MCKeys
  OptionSets <- MCOptions
  Lengths = {1, 42}
  MaxByte = 3
  MaxEntries = 4
  Rooms = {1, 4, 7}
INVARIANTS
  IndexedBlocksExist
  LookupsAgree
PROPERTIES
  ImplementsIterator
CHECK_DEADLOCK FALSE
