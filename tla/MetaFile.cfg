SPECIFICATION Spec
CONSTANTS
  Bytes = {a, NL, CR}
  NL = NL
  CR = CR
  OK = OK
  OutOfRange = OutOfRange
  Failed = Failed
  Invalid = Invalid
  MaxFile = 4
PROPERTY ReadsBack
CHECK_DEADLOCK FALSE
