-------------------------- MODULE ReaderParameters --------------------------
(***************************************************************************)
(* The parameters of the buffered readers of src/base/io.                  *)
(***************************************************************************)
EXTENDS Integers

CONSTANTS
  Bytes, NL, CR,                       \* NL and CR are two of the bytes
  OK, OutOfRange, Failed, Invalid,     \* status codes
  size_,        \* bytes of the buffer
  kMaxSkipSize, \* bytes that a stream without a position skips in one read
  FailsClean,   \* whether a read of the file that fails gives no bytes
                \* (of the stream only: InputBuffer is checked with both)
  MaxFile,      \* bound: length of the file
  MaxAsk        \* bound: bytes asked for in one call

ASSUME ReaderAssumption ==
  /\ {NL, CR} \subseteq Bytes /\ NL # CR
  /\ OutOfRange # OK /\ Failed \notin {OK, OutOfRange}
  /\ size_ \in Nat \ {0} /\ kMaxSkipSize \in Nat \ {0}
  /\ FailsClean \in BOOLEAN
  /\ MaxFile \in Nat /\ MaxAsk \in Nat

MinOf(a, b) == IF a < b THEN a ELSE b
MaxOf(a, b) == IF a < b THEN b ELSE a
=============================================================================
