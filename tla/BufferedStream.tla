--------------------------- MODULE BufferedStream ---------------------------
(***************************************************************************)
(* base::io::BufferedInputStream (src/base/io/buffered_inputstream.cc) on  *)
(* a RandomAccessInputStream (random_inputstream.cc), whose SkipNBytes is  *)
(* the default of InputStreamInterface (inputstream_interface.cc).  One    *)
(* round of a loop is one action; the file is read once in each.           *)
(***************************************************************************)
EXTENDS Integers, Sequences, ReaderParameters

VARIABLES
  file,         \* what a read of the file returns
  below,        \* pos_ of the RandomAccessInputStream
  buf_,         \* the first limit_ bytes of the buffer
  pos_,
  op,           \* the call in progress: "none", "line", "string", "read", "skip"
  want,         \* its bytes_to_read, or the bytes_to_skip that are left
  result,       \* what it has collected
  s,            \* status of the last FillBuffer in it
  ask,          \* history: the call, its argument, and Tell() when it began
  reply         \* the last call, and what it returned

stream == <<below, buf_, pos_>>
call   == <<op, want, result, s, ask>>
vars   == <<file, stream, call, reply>>

Tell == below - (Len(buf_) - pos_)

Call(o, n) == [op |-> o, n |-> n, at |-> Tell]
NoCall == [op |-> "none", n |-> 0, at |-> 0]

Init ==
  /\ file = <<>> /\ below = 0 /\ buf_ = <<>> /\ pos_ = 0
  /\ op = "none" /\ want = 0 /\ result = <<>> /\ s = OK /\ ask = NoCall
  /\ reply = [op |-> "none", n |-> 0, data |-> <<>>, status |-> OK]

Reply(c, data, status) ==
  /\ op' = "none" /\ want' = 0 /\ result' = <<>> /\ s' = OK /\ ask' = NoCall
  /\ reply' = [op |-> c.op, n |-> c.n, data |-> data, status |-> status]

Refuse(o, n) ==
  /\ op = "none"
  /\ Reply(Call(o, n), <<>>, Invalid)
  /\ UNCHANGED <<file, stream>>

-----------------------------------------------------------------------------
(* RandomAccessInputStream::ReadNBytes(n).                                 *)

\* How many of n bytes the file has from there.
Available(n) == MaxOf(0, MinOf(n, Len(file) - below))

\* Its outcome: the bytes, its new position and its status.
Got(k) == SubSeq(file, below + 1, below + k)
Outcome(n) == [data |-> Got(Available(n)), to |-> below + Available(n),
               status |-> IF Available(n) < n THEN OutOfRange ELSE OK]

\* A read that fails leaves the position where it was, with the bytes it got
\* in result.
Failures(n) ==
  {[data |-> Got(k), to |-> below, status |-> Failed] :
     k \in 0 .. IF FailsClean THEN 0 ELSE MinOf(Available(n), n - 1)}

-----------------------------------------------------------------------------
(* Reading.                                                                *)

Begin(o, n) ==
  /\ op = "none"
  /\ op' = o /\ want' = n /\ result' = <<>> /\ s' = OK /\ ask' = Call(o, n)
  /\ UNCHANGED <<file, stream, reply>>

ReadLine         == Begin("line", 0)
ReadLineAsString == Begin("string", 0)
ReadNBytes(n)    == IF n < 0 THEN Refuse("read", n) ELSE Begin("read", n)

OfLine == op \in {"line", "string"}
MoreWanted == OfLine \/ (op = "read" /\ Len(result) < want)

\* ReadLineAsString drops the status.
Return(status) == Reply(ask, result, IF op = "string" THEN OK ELSE status)

FillBuffer(o) == buf_' = o.data /\ pos_' = 0 /\ below' = o.to

Refilled(o) ==
  /\ MoreWanted /\ pos_ = Len(buf_)
  /\ FillBuffer(o)
  /\ IF o.data # <<>>
     THEN s' = o.status /\ UNCHANGED <<op, want, result, ask, reply>>
     ELSE Return(IF OfLine /\ o.status = OutOfRange /\ result # <<>>
                 THEN OK ELSE o.status)
  /\ UNCHANGED file
Refill      == Refilled(Outcome(size_))
RefillFails == \E o \in Failures(size_) : Refilled(o)

\* ReadLineHelper looks at one byte.
TakeByte ==
  /\ OfLine /\ pos_ < Len(buf_)
  /\ pos_' = pos_ + 1
  /\ LET c == buf_[pos_ + 1]
     IN  \/ c = NL /\ Reply(ask, IF op = "string" THEN Append(result, c) ELSE result, OK)
         \/ /\ c # NL
            /\ result' = IF c = CR THEN result ELSE Append(result, c)
            /\ UNCHANGED <<op, want, s, ask, reply>>
  /\ UNCHANGED <<file, below, buf_>>

TakeBytes ==
  /\ op = "read" /\ MoreWanted /\ pos_ < Len(buf_)
  /\ LET k == MinOf(Len(buf_) - pos_, want - Len(result))
     IN  /\ result' = result \o SubSeq(buf_, pos_ + 1, pos_ + k)
         /\ pos_' = pos_ + k
  /\ UNCHANGED <<file, below, buf_, op, want, s, ask, reply>>

Finish ==
  /\ op = "read" /\ ~ MoreWanted
  /\ Return(IF s = OutOfRange THEN OK ELSE s)
  /\ UNCHANGED <<file, stream>>

-----------------------------------------------------------------------------
(* Skipping and seeking.                                                   *)

Goes(c, n) == op' = "skip" /\ want' = n /\ result' = <<>> /\ s' = OK /\ ask' = c

\* Mutant: skips in the stream below what the buffer already has.
SkipAll(c, n) ==
  IF pos_ + n < Len(buf_)
  THEN pos_' = pos_ + n /\ Reply(c, <<>>, OK) /\ UNCHANGED <<below, buf_>>
  ELSE Goes(c, n) /\ UNCHANGED <<stream, reply>>

\* The call c skips n bytes: what is in the buffer is passed over there, the
\* rest in the stream below.
Skip(c, n) ==
  IF pos_ + n < Len(buf_)
  THEN pos_' = pos_ + n /\ Reply(c, <<>>, OK) /\ UNCHANGED <<below, buf_>>
  ELSE Goes(c, n - (Len(buf_) - pos_)) /\ UNCHANGED <<stream, reply>>

SkipNBytes(n) ==
  IF n < 0 THEN Refuse("skip", n)
  ELSE op = "none" /\ Skip(Call("skip", n), n) /\ UNCHANGED file

\* One read of the loop in InputStreamInterface::SkipNBytes; whatever comes of
\* it, the buffer is empty when the call returns.
ChunkSize == MinOf(kMaxSkipSize, want)
Skipped(o) ==
  /\ op = "skip" /\ want > 0
  /\ below' = o.to
  /\ IF o.status = OK
     THEN want' = want - ChunkSize /\ UNCHANGED <<buf_, pos_, op, result, s, ask, reply>>
     ELSE buf_' = <<>> /\ pos_' = 0 /\ Reply(ask, <<>>, o.status)
  /\ UNCHANGED file
SkipChunk  == Skipped(Outcome(ChunkSize))
ChunkFails == \E o \in Failures(ChunkSize) : Skipped(o)

\* Mutant: leaves the bytes it passed over in the buffer.
SkipReturnKeeping ==
  /\ op = "skip" /\ want = 0
  /\ pos_' = Len(buf_) /\ UNCHANGED buf_
  /\ Reply(ask, <<>>, OK)
  /\ UNCHANGED <<file, below>>

SkipReturn ==
  /\ op = "skip" /\ want = 0
  /\ buf_' = <<>> /\ pos_' = 0
  /\ Reply(ask, <<>>, OK)
  /\ UNCHANGED <<file, below>>

\* The call c goes back: it skips from the beginning.
Rewind(c, p) ==
  /\ below' = 0 /\ buf_' = <<>> /\ pos_' = 0
  /\ Goes(c, p) /\ UNCHANGED reply

Seek(p) ==
  IF p < 0 THEN Refuse("seek", p)
  ELSE /\ op = "none"
       /\ LET c == Call("seek", p)
          IN  IF p < Tell THEN Rewind(c, p) ELSE Skip(c, p - Tell)
       /\ UNCHANGED file

Reset ==
  /\ op = "none"
  /\ below' = 0 /\ buf_' = <<>> /\ pos_' = 0
  /\ Reply(Call("reset", 0), <<>>, OK)
  /\ UNCHANGED file

-----------------------------------------------------------------------------
\* Somebody appends to the file between two calls.
Grow ==
  /\ op = "none" /\ Len(file) < MaxFile
  /\ \E b \in Bytes : file' = Append(file, b)
  /\ UNCHANGED <<stream, call, reply>>

Loop == Refill \/ TakeByte \/ TakeBytes \/ Finish \/ SkipChunk \/ SkipReturn

Next ==
  \/ Grow
  \/ ReadLine \/ ReadLineAsString \/ Reset
  \/ \E n \in -1 .. MaxAsk : ReadNBytes(n) \/ SkipNBytes(n)
  \/ \E p \in -1 .. MaxFile + 1 : Seek(p)
  \/ Loop \/ RefillFails \/ ChunkFails

\* A call that has begun goes on, also if the device never fails.
Spec == Init /\ [][Next]_vars /\ WF_vars(Loop)

-----------------------------------------------------------------------------
(* Properties.                                                             *)

\* The bytes read ahead are those of the file just before the position of the
\* stream below, between any two calls ("buf_[pos_, limit_) holds the valid
\* "read ahead" data in the file", buffered_inputstream.h:72).
ReadAheadIsFile ==
  op = "none" /\ buf_ # <<>> =>
    /\ Len(buf_) <= below /\ below <= Len(file)
    /\ buf_ = SubSeq(file, below - Len(buf_) + 1, below)

\* Whatever is buffered, each call does what it would do on the bare file at
\* the position Tell() had when it began.
Reader == INSTANCE ByteReader
            WITH offset <- IF op = "none" THEN Tell ELSE ask.at
ReaderStep ==
  \/ Reader!Grow \/ Reader!Reads(-1 .. MaxAsk) \/ Reader!ReadString \/ Reader!Reset
  \/ \E p \in -1 .. MaxFile + 1 : Reader!SeekBySkipping(p)
readerVars == Reader!vars
IsReader == Reader!Init /\ [][ReaderStep]_readerVars

=============================================================================
