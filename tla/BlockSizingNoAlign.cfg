SPECIFICATION Spec
CONSTANTS
  Null = Null
  Lengths = {0, 1, 2, 3, 7, 8, 40}
  Costs = {0, 1, 6000, 40000, 210000}
  Threads = {1, 2, 3, 8}
  Aligns = {Null}
INVARIANT NeverThrows
CHECK_DEADLOCK FALSE
