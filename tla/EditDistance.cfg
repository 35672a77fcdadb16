SPECIFICATION Spec
CONSTANTS
  Letters = {a, b}
  MaxWord = 3
INVARIANT DistanceIsLeast
CHECK_DEADLOCK FALSE
