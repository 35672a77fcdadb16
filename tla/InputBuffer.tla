---------------------------- MODULE InputBuffer -----------------------------
(***************************************************************************)
(* base::io::InputBuffer (src/base/io/inputbuffer.cc) over a file that     *)
(* somebody else appends to.  One round of a reading loop is one action;   *)
(* the file is read by FillBuffer alone, which may fail half way.          *)
(***************************************************************************)
EXTENDS Integers, Sequences, ReaderParameters

VARIABLES
  file,         \* what a read of the file returns
  file_pos_,
  buf_,         \* the bytes between buf_ and limit_
  pos_,         \* how many of them have been used
  op,           \* the call in progress: "none", "line", "read" or "skip"
  want,         \* its bytes_to_read or bytes_to_skip
  result,       \* what it has collected
  s,            \* status of the last FillBuffer in it
  ask,          \* history: the call, its argument, and Tell() when it began
  reply         \* the last call, and what it returned

buffer == <<file_pos_, buf_, pos_>>
call   == <<op, want, result, s, ask>>
vars   == <<file, buffer, call, reply>>

Tell == file_pos_ - (Len(buf_) - pos_)

Call(o, n) == [op |-> o, n |-> n, at |-> Tell]
NoCall == [op |-> "none", n |-> 0, at |-> 0]

InitBuffer ==
  /\ file_pos_ = 0 /\ buf_ = <<>> /\ pos_ = 0
  /\ op = "none" /\ want = 0 /\ result = <<>> /\ s = OK /\ ask = NoCall
  /\ reply = [op |-> "none", n |-> 0, data |-> <<>>, status |-> OK]

Init == file = <<>> /\ InitBuffer

\* The call returns.
Reply(c, data, status) ==
  /\ op' = "none" /\ want' = 0 /\ result' = <<>> /\ s' = OK /\ ask' = NoCall
  /\ reply' = [op |-> c.op, n |-> c.n, data |-> data, status |-> status]

Collected(data) == IF op = "skip" THEN <<>> ELSE data

\* ReadLine, ReadNBytes(n) and SkipNBytes(n) begin.
Begin(o, n) ==
  /\ op = "none"
  /\ op' = o /\ want' = n /\ result' = <<>> /\ s' = OK /\ ask' = Call(o, n)
  /\ UNCHANGED <<file, buffer, reply>>

ReadLine == Begin("line", 0)

\* A negative argument is refused.
Refuse(o, n) ==
  /\ op = "none"
  /\ Reply(Call(o, n), <<>>, Invalid)
  /\ UNCHANGED <<file, buffer>>

ReadNBytes(n) == IF n < 0 THEN Refuse("read", n) ELSE Begin("read", n)
SkipNBytes(n) == IF n < 0 THEN Refuse("skip", n) ELSE Begin("skip", n)

\* Mutant: goes round once more when it has all of them.
MoreOrEqualWanted ==
  \/ op = "line"
  \/ op \in {"read", "skip"} /\ Len(result) <= want

MoreWanted ==
  \/ op = "line"
  \/ op \in {"read", "skip"} /\ Len(result) < want

\* How many bytes the file has for the buffer.
Available == MaxOf(0, MinOf(size_, Len(file) - file_pos_))

\* Mutant: the position in the file is moved by what was asked for.
FilledBySize(k) ==
  /\ buf_' = SubSeq(file, file_pos_ + 1, file_pos_ + k)
  /\ pos_' = 0
  /\ file_pos_' = file_pos_ + size_

\* FillBuffer, when the file returned k bytes.
Filled(k) ==
  /\ buf_' = SubSeq(file, file_pos_ + 1, file_pos_ + k)
  /\ pos_' = 0
  /\ file_pos_' = file_pos_ + k

\* The read gave some bytes and the loop goes on, or none and the call returns.
\* At the end of the file a line needs no newline.
GoOn(k, status) ==
  IF k > 0
  THEN s' = status /\ UNCHANGED <<op, want, result, ask, reply>>
  ELSE Reply(ask, Collected(result),
             IF op = "line" /\ status = OutOfRange /\ result # <<>> THEN OK ELSE status)

\* The buffer is used up.  A read of the whole buffer succeeds, a shorter one
\* is at the end of the file ...
Refill ==
  /\ MoreWanted /\ pos_ = Len(buf_)
  /\ Filled(Available)
  /\ GoOn(Available, IF Available = size_ THEN OK ELSE OutOfRange)
  /\ UNCHANGED file

\* ... or the device fails after some bytes.
RefillFails ==
  /\ MoreWanted /\ pos_ = Len(buf_)
  /\ \E k \in 0 .. MinOf(Available, size_ - 1) : Filled(k) /\ GoOn(k, Failed)
  /\ UNCHANGED file

\* ReadLine looks at one byte.
TakeByte ==
  /\ op = "line" /\ pos_ < Len(buf_)
  /\ pos_' = pos_ + 1
  /\ LET c == buf_[pos_ + 1]
     IN  \/ c = NL /\ Reply(ask, result, OK)
         \/ /\ c # NL
            /\ result' = IF c = CR THEN result ELSE Append(result, c)
            /\ UNCHANGED <<op, want, s, ask, reply>>
  /\ UNCHANGED <<file, file_pos_, buf_>>

\* ReadNBytes copies, and SkipNBytes passes over, what the buffer has.
TakeBytes ==
  /\ op # "line" /\ MoreWanted /\ pos_ < Len(buf_)
  /\ LET k == MinOf(Len(buf_) - pos_, want - Len(result))
     IN  /\ result' = result \o SubSeq(buf_, pos_ + 1, pos_ + k)
         /\ pos_' = pos_ + k
  /\ UNCHANGED <<file, file_pos_, buf_, op, want, s, ask, reply>>

\* The loop has what it wanted.
Finish ==
  /\ op \in {"read", "skip"} /\ ~ MoreWanted
  /\ Reply(ask, Collected(result), IF s = OutOfRange THEN OK ELSE s)
  /\ UNCHANGED <<file, buffer>>

\* Mutant: takes the buffer to be full.
bufposOfFull == file_pos_ - size_

bufpos == file_pos_ - Len(buf_)      \* position of the buffer in the file

InBuffer(p) == bufpos <= p /\ p < file_pos_

Seek(p) ==
  \/ p < 0 /\ Refuse("seek", p)
  \/ /\ p >= 0 /\ op = "none"
     /\ IF InBuffer(p)
        THEN pos_' = p - bufpos /\ UNCHANGED <<file_pos_, buf_>>
        ELSE buf_' = <<>> /\ pos_' = 0 /\ file_pos_' = p
     /\ Reply(Call("seek", p), <<>>, OK)
     /\ UNCHANGED file

\* Somebody appends to the file between two calls.
Grow ==
  /\ op = "none" /\ Len(file) < MaxFile
  /\ \E b \in Bytes : file' = Append(file, b)
  /\ UNCHANGED <<buffer, call, reply>>

Loop == Refill \/ TakeByte \/ TakeBytes \/ Finish

Next ==
  \/ Grow
  \/ ReadLine
  \/ \E n \in -1 .. MaxAsk : ReadNBytes(n) \/ SkipNBytes(n)
  \/ \E p \in -1 .. MaxFile + 1 : Seek(p)
  \/ Loop \/ RefillFails

\* A call that has begun goes on, also if the device never fails.
Spec == Init /\ [][Next]_vars /\ WF_vars(Loop)

-----------------------------------------------------------------------------
(* Properties.                                                             *)

TypeOK ==
  /\ file \in Seq(Bytes)
  /\ file_pos_ \in Nat
  /\ buf_ \in Seq(Bytes) /\ Len(buf_) <= size_
  /\ pos_ \in 0 .. Len(buf_)
  /\ op \in {"none", "line", "read", "skip"}
  /\ want \in Nat /\ ask.at \in Nat /\ ask.op = op
  /\ result \in Seq(Bytes)
  /\ s \in {OK, OutOfRange, Failed}

\* The buffer is what the file holds just before file_pos_, also after short
\* reads, seeks past the end, failures, and growth of the file since.
WindowIsFile ==
  buf_ # <<>> => /\ Len(buf_) <= file_pos_ /\ file_pos_ <= Len(file)
                 /\ buf_ = SubSeq(file, file_pos_ - Len(buf_) + 1, file_pos_)

\* Whatever is buffered, each call does what it would do on the bare file at
\* the position Tell() had when it began, and leaves Tell() where it should be.
Reader == INSTANCE ByteReader
            WITH offset <- IF op = "none" THEN Tell ELSE ask.at
ReaderStep ==
  Reader!Grow \/ Reader!Reads(-1 .. MaxAsk) \/ \E p \in -1 .. MaxFile + 1 : Reader!Seek(p)
readerVars == Reader!vars
IsReader == Reader!Init /\ [][ReaderStep]_readerVars

=============================================================================
