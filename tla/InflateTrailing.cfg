SPECIFICATION Spec
CONSTANTS
  OK = OK
  OutOfRange = OutOfRange
  DataLoss = DataLoss
  Failed = Failed
  Invalid = Invalid
  input_buffer_capacity_ = 2
  output_buffer_capacity_ = 2
  kMaxSkipSize = 2
  Bursts = {0, 1, 3}
  Raw = FALSE
  Trailing = TRUE
  MaxSource = 2
  MaxAsk = 3
PROPERTY ReadsReturn
CHECK_DEADLOCK FALSE
