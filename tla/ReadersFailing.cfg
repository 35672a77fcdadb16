SPECIFICATION Spec
CONSTANTS
  Bytes = {a, NL, CR}
  NL = NL
  CR = CR
  OK = OK
  OutOfRange = OutOfRange
  Failed = Failed
  Invalid = Invalid
  size_ = 2
  kMaxSkipSize = 2
  FailsClean = FALSE
  MaxFile = 3
  MaxAsk = 3
INVARIANTS
  ReadAheadIsFile
CHECK_DEADLOCK FALSE
