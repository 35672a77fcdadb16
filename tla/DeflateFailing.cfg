SPECIFICATION Spec
CONSTANTS
  input_buffer_capacity_ = 2
  output_buffer_capacity_ = 2
  kFlushSpace = 2
  MaxBytes = 5
  MaxPiece = 3
INVARIANT NextInOwned
CHECK_DEADLOCK FALSE
