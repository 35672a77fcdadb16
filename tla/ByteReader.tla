----------------------------- MODULE ByteReader -----------------------------
(***************************************************************************)
(* What a buffered reader is for its callers: one position in a file that  *)
(* only grows.  Every call works on the bytes from that position on and    *)
(* leaves it behind the bytes it used, whatever has been buffered before.  *)
(* A read that fails may have used some of them.                           *)
(* InputBuffer and BufferedStream implement this specification.            *)
(***************************************************************************)
EXTENDS Integers, Sequences

CONSTANTS
  Bytes, NL, CR,                      \* NL and CR are two of the bytes
  OK, OutOfRange, Failed, Invalid     \* status codes

VARIABLES
  file,
  offset,
  reply         \* the last call, and what it returned: op, n, data and status

vars == <<file, offset, reply>>

Init ==
  /\ file \in Seq(Bytes)
  /\ offset = 0
  /\ reply = [op |-> "none", n |-> 0, data |-> <<>>, status |-> OK]

MinOf(a, b) == IF a < b THEN a ELSE b
MaxOf(a, b) == IF a < b THEN b ELSE a

\* The bytes between two positions, and the last position of the file that a
\* reader at o can reach.
Slice(a, b) == SubSeq(file, a + 1, b)
End(o) == MaxOf(o, Len(file))

\* All of them but the CRs.
Printed(data) ==
  LET kept[k \in 0 .. Len(data)] ==
        IF k = 0 THEN <<>>
        ELSE IF data[k] = CR THEN kept[k - 1] ELSE Append(kept[k - 1], data[k])
  IN  kept[Len(data)]

Grow ==
  /\ Len(file') > Len(file)
  /\ SubSeq(file', 1, Len(file)) = file
  /\ UNCHANGED <<offset, reply>>

\* The call op(n) returns and leaves the position at to.
Answer(op, n, to, data, status) ==
  /\ offset' = to
  /\ reply' = [op |-> op, n |-> n, data |-> data, status |-> status]
  /\ UNCHANGED file

\* Newlines that a reader at offset still has before it.
Newlines == {i \in offset + 1 .. Len(file) : file[i] = NL}
NextNewline == CHOOSE i \in Newlines : \A j \in Newlines : i <= j

\* The text up to the next newline, or to the end of the file if there is some.
ReadLine ==
  \/ /\ Newlines # {}
     /\ Answer("line", 0, NextNewline, Printed(Slice(offset, NextNewline - 1)), OK)
  \/ /\ Newlines = {}
     /\ LET text == Printed(Slice(offset, Len(file)))
        IN  Answer("line", 0, End(offset), text, IF text = <<>> THEN OutOfRange ELSE OK)

\* ReadNBytes and SkipNBytes: the next n bytes, or those there are.
Took(op, to) == IF op = "read" THEN Slice(offset, to) ELSE <<>>

Take(op, n) ==
  LET to == MaxOf(offset, MinOf(offset + n, Len(file)))
  IN  Answer(op, n, to, Took(op, to), IF to = offset + n THEN OK ELSE OutOfRange)

\* The file could not be read: the call used some of the bytes it may use.
ReadLineFails ==
  \E to \in offset .. End(offset) :
    /\ \A i \in Newlines : to < i
    /\ Answer("line", 0, to, Printed(Slice(offset, to)), Failed)

TakeFails(op, n) ==
  \E to \in offset .. MinOf(offset + n, End(offset)) :
    Answer(op, n, to, Took(op, to), Failed)

\* The line with its newline, and no status.
ReadString ==
  \/ /\ Newlines # {}
     /\ Answer("string", 0, NextNewline, Printed(Slice(offset, NextNewline)), OK)
  \/ \E to \in offset .. End(offset) :
       /\ \A i \in Newlines : to < i
       /\ Answer("string", 0, to, Printed(Slice(offset, to)), OK)

\* A negative argument.
Reject(op, n) == n < 0 /\ Answer(op, n, offset, <<>>, Invalid)

Reads(Sizes) ==
  \/ ReadLine \/ ReadLineFails
  \/ \E op \in {"read", "skip"}, n \in Sizes :
       \/ n >= 0 /\ (Take(op, n) \/ TakeFails(op, n))
       \/ Reject(op, n)

\* Any position, also one behind the end of the file.
Seek(p) ==
  \/ p >= 0 /\ Answer("seek", p, p, <<>>, OK)
  \/ Reject("seek", p)

\* A position of the file: a reader that has to skip to it stops at the end,
\* and where a failure leaves it, which is not beyond p.
SeekBySkipping(p) ==
  \/ /\ p >= 0
     /\ LET to == MinOf(p, Len(file))
        IN  Answer("seek", p, to, <<>>, IF to = p THEN OK ELSE OutOfRange)
  \/ \E to \in 0 .. p : Answer("seek", p, to, <<>>, Failed)
  \/ Reject("seek", p)

Reset == Answer("reset", 0, 0, <<>>, OK)
=============================================================================
