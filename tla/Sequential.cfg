SPECIFICATION MCSpec
CONSTANTS
  Bytes = {a, NL, CR}
  NL = NL
  CR = CR
  OK = OK
  OutOfRange = OutOfRange
  DataLoss = DataLoss
  Failed = Failed
  Invalid = Invalid
  size_ = 2
  kMaxSkipSize = 2
  FailsClean = TRUE
  MaxFile = 3
  MaxAsk = 3
  input_buffer_capacity_ = 2
  output_buffer_capacity_ = 2
  Bursts = {0, 1, 3}
  MaxSource = 2
  kFlushSpace = 2
  MaxBytes = 5
  MaxPiece = 3
  Null = Null
  Lengths <- MCLengths
  Costs <- MCCosts
  Threads = {1, 2, 3, 4, 5, 6, 7, 8}
  Aligns = {1, 3, 4, Null}
  Elements = {1, 2, 3}
  Limits = {0, 1, 2}
  MaxPushes = 4
  Values = {p, q}
  RawSlot = RawSlot
  Moved = Moved
  Broken = Broken
  kFit = 1
  MaxSize = 4
  block_size_ = 12
  Sizes = {0, 1, 3, 5, 12}
  kFirstBlocks = 2
  MaxPieces = 5
  bucket_limits_ <- MCLimits
  Samples <- MCSamples
  Percents = {0, 1, 25, 50, 60, 100}
  MaxAdds = 4
  Weights = {0, 1, 2}
  MaxElements = 4
  kRandomBits = 4
  MaxItems = 4
  Letters = {a, NL}
  MaxWord = 3
  kBits = 3
  MaxBits = 7
  kMore = 4
  kVarintBytes = 3
  kRange = 32
  kDigit = 4
  kDigits = 3
  Texts <- MCTexts
  MaxEncoded = 4
INVARIANTS
  WindowIsFile
  NothingLost
  FlushedIsOnFile
  CountMatchesSize
  SharesTheWork
  TopNAnswers
  PercentilesOrdered
  MemoryHolds
  DrawnByWeight
  AgreesWithDefinition
PROPERTIES
  BufferIsReader
  StreamIsReader
  InflateIsReader
  LoopsEnd
CHECK_DEADLOCK FALSE
