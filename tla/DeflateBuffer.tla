--------------------------- MODULE DeflateBuffer ----------------------------
(***************************************************************************)
(* base::io::ZlibOutputBuffer (src/base/io/zlib_outputbuffer.cc).          *)
(* deflate() passes on the bytes that it consumes in order, whenever it    *)
(* likes; a sync flush and the end leave a mark behind them.  One round of *)
(* a deflating loop is one action.  The i-th byte appended is the number i.*)
(***************************************************************************)
EXTENDS Integers, Sequences

CONSTANTS
  input_buffer_capacity_, output_buffer_capacity_,
  kFlushSpace,     \* room that a sync flush needs, 6 in the code
  MaxBytes,        \* bound: bytes appended in all
  MaxPiece         \* bound: bytes of one Append

DeflateAssumption ==
  /\ input_buffer_capacity_ \in Nat /\ output_buffer_capacity_ \in Nat
  /\ kFlushSpace \in Nat /\ output_buffer_capacity_ >= kFlushSpace /\ output_buffer_capacity_ > 1

VARIABLES
  flush_mode,      \* "no_flush" or "sync_flush", of the options
  input,           \* the avail_in bytes at next_in
  head,            \* next_in - z_stream_input_
  outside,         \* next_in points into the data of a caller instead
  held,            \* what deflate has consumed and not put out yet
  output,          \* z_stream_output_ up to next_out
  synced,          \* the last call of deflate was a sync flush that it completed
  finishing,       \* deflate has been called with Z_FINISH
  open,            \* z_stream_ is there
  disk,            \* contents of file_
  op, data,        \* the call in progress, and the piece it appends
  stage,           \* "buffered" or "direct" in a loop, "deflated" or "restored" after
  accepted,        \* history: bytes that have entered the stream
  reply            \* the last call and whether it succeeded

zstream == <<input, head, outside, held, output, synced, finishing, open>>
call    == <<op, data, stage, reply>>
vars    == <<flush_mode, zstream, disk, call, accepted>>

Init ==
  /\ flush_mode \in {"no_flush", "sync_flush"}
  /\ input = <<>> /\ head = 0 /\ outside = FALSE
  /\ held = <<>> /\ output = <<>> /\ synced = FALSE /\ finishing = FALSE /\ open = TRUE
  /\ disk = <<>>
  /\ op = "none" /\ data = <<>> /\ stage = "deflated"
  /\ accepted = 0
  /\ reply = [op |-> "none", ok |-> TRUE]

Mark == 0
End == -1

MinOf(a, b) == IF a < b THEN a ELSE b
Piece(k) == [i \in 1 .. k |-> accepted + i]

AvailableInputSpace == input_buffer_capacity_ - Len(input)
avail_out == output_buffer_capacity_ - Len(output)

Return(o, ok) ==
  /\ op' = "none" /\ data' = <<>> /\ stage' = "deflated"
  /\ reply' = [op |-> o, ok |-> ok]

\* Mutant: the free space at the head is taken for space at the tail.
AddToInputBufferNoMove(in, from, piece) ==
  /\ input' = in \o piece
  /\ head' = from
  /\ accepted' = accepted + Len(piece)

\* What is in the buffer moves to its head if the tail has no room.
AddToInputBuffer(in, from, piece) ==
  /\ input' = in \o piece
  /\ head' = IF Len(piece) > input_buffer_capacity_ - (from + Len(in)) THEN 0 ELSE from
  /\ accepted' = accepted + Len(piece)

\* A call is made.  A stream that an Append has left pointing into data of its
\* caller is not used any more, and one that is being finished only to close it.
Called(o) ==
  /\ op = "none" /\ open /\ ~ outside
  /\ o # "close" => ~ finishing

Enter(o, piece) ==
  /\ op' = o /\ data' = piece /\ stage' = "buffered"
  /\ UNCHANGED <<flush_mode, zstream, disk, accepted, reply>>

AppendPiece(k) ==
  /\ Called("append") /\ accepted + k <= MaxBytes
  /\ IF k <= AvailableInputSpace
     THEN /\ AddToInputBuffer(input, head, Piece(k)) /\ Return("append", TRUE)
          /\ UNCHANGED <<flush_mode, outside, held, output, synced, finishing, open, disk>>
     ELSE Enter("append", Piece(k))

Flush == Called("flush") /\ Enter("flush", <<>>)
Sync  == Called("sync") /\ Enter("sync", <<>>)
Close == Called("close") /\ Enter("close", <<>>)

\* Without a flush deflate consumes all there is unless the output is full.
\* out is what the output holds before.
Deflated(out) ==
  LET room == output_buffer_capacity_ - Len(out)
  IN  \E c \in 0 .. Len(input) :
        LET all == held \o SubSeq(input, 1, c)
        IN  \E k \in 0 .. MinOf(room, Len(all)) :
              /\ c = Len(input) \/ k = room
              /\ output' = out \o SubSeq(all, 1, k)
              /\ held' = SubSeq(all, k + 1, Len(all))
              /\ input' = SubSeq(input, c + 1, Len(input))
              /\ head' = head + c

\* Else it puts out everything, and the mark, as far as there is room.
Completed(out, mark) ==
  LET all == held \o input \o mark
      k   == MinOf(output_buffer_capacity_ - Len(out), Len(all))
  IN  /\ output' = out \o SubSeq(all, 1, k)
      /\ held' = SubSeq(all, k + 1, Len(all))
      /\ input' = <<>> /\ head' = head + Len(input)

Full(out) == Len(out) = output_buffer_capacity_

\* A flush of nothing is Z_BUF_ERROR, which is ignored.
Deflate(out, last) ==
  \/ /\ last
     /\ Completed(out, IF finishing THEN <<>> ELSE <<End>>)
     /\ finishing' = TRUE /\ synced' = FALSE
  \/ /\ ~ last /\ flush_mode = "no_flush"
     /\ Deflated(out)
     /\ UNCHANGED <<finishing, synced>>
  \/ /\ ~ last /\ flush_mode = "sync_flush"
     /\ Completed(out, IF synced /\ input = <<>> THEN <<>> ELSE <<Mark>>)
     /\ synced' = ~ Full(output') /\ UNCHANGED finishing

\* The output has to be written before deflate is called.
NeedsRoom ==
  \/ avail_out = 0
  \/ stage = "buffered" /\ op # "close" /\ flush_mode = "sync_flush" /\ avail_out < kFlushSpace

\* Mutant: a full output buffer ends the loop.
LoopOnce == stage' = IF stage = "buffered" THEN "deflated" ELSE "restored"

LoopGoesOn == stage' = CASE Full(output') -> stage
                         [] ~ Full(output') /\ stage = "buffered" -> "deflated"
                         [] ~ Full(output') /\ stage = "direct" -> "restored"

\* One round of the loop in DeflateBuffered, or of the one in Append ...
Round ==
  /\ stage \in {"buffered", "direct"}
  /\ \/ NeedsRoom /\ disk' = disk \o output /\ Deflate(<<>>, op = "close")
     \/ ~ NeedsRoom /\ UNCHANGED disk /\ Deflate(output, op = "close")
  /\ LoopGoesOn
  /\ UNCHANGED <<flush_mode, outside, open, op, data, accepted, reply>>

\* ... and one whose write fails.
RoundFails ==
  /\ stage \in {"buffered", "direct"}
  /\ NeedsRoom /\ output # <<>>
  /\ Return(op, FALSE)
  /\ UNCHANGED <<flush_mode, zstream, disk, accepted>>

\* DeflateBuffered has succeeded: Append has its buffer empty.
Buffered ==
  /\ op = "append" /\ stage = "deflated"
  /\ IF Len(data) <= AvailableInputSpace
     THEN AddToInputBuffer(input, 0, data) /\ Return("append", TRUE) /\ UNCHANGED outside
     ELSE /\ input' = data /\ head' = 0 /\ outside' = TRUE /\ stage' = "direct"
          /\ accepted' = accepted + Len(data)
          /\ UNCHANGED <<op, data, reply>>
  /\ UNCHANGED <<flush_mode, held, output, synced, finishing, open, disk>>

\* A large piece has been deflated where it was.
Restored ==
  /\ stage = "restored"
  /\ head' = 0 /\ outside' = FALSE /\ Return("append", TRUE)
  /\ UNCHANGED <<flush_mode, input, held, output, synced, finishing, open, disk, accepted>>

\* Mutant: a failed write empties the buffer too.
WriteFailsEmptying == output # <<>> /\ output' = <<>> /\ UNCHANGED disk

\* Flush, Sync and Close write the output ...
Ending ==
  /\ op \in {"flush", "sync", "close"} /\ stage = "deflated"
  /\ head' = 0
  /\ UNCHANGED <<flush_mode, input, outside, held, synced, finishing, accepted>>
Written ==
  /\ Ending
  /\ disk' = disk \o output /\ output' = <<>>
  /\ Return(op, TRUE) /\ open' = (op # "close")

\* ... unless the write fails, or in Sync that of the file.
WriteFails == output # <<>> /\ UNCHANGED <<output, disk>>
SyncFails  == op = "sync" /\ disk' = disk \o output /\ output' = <<>>
NotWritten ==
  /\ Ending
  /\ WriteFails \/ SyncFails
  /\ Return(op, FALSE) /\ UNCHANGED open

Loop == Round \/ Buffered \/ Restored \/ Written

Next ==
  \/ \E k \in 0 .. MaxPiece : AppendPiece(k)
  \/ Flush \/ Sync \/ Close
  \/ Loop \/ RoundFails \/ NotWritten

\* A call that has begun goes on, also if the file can always be written.
Spec == Init /\ [][Next]_vars /\ WF_vars(Loop)

-----------------------------------------------------------------------------
(* Properties.                                                             *)

\* The bytes in s, between the marks, are the first k that were appended, each
\* once and in order.
AreBytes(s, k) ==
  /\ \A i \in 1 .. k : \E j \in 1 .. Len(s) : s[j] = i
  /\ \A j \in 1 .. Len(s) : s[j] \in {Mark, End} \cup 1 .. k
  /\ \A i, j \in 1 .. Len(s) : i < j /\ s[i] > 0 /\ s[j] > 0 => s[i] < s[j]

\* The file, the output, what deflate holds and the input are together the
\* bytes that were appended, whatever write has failed.
Whole == disk \o output \o held \o input
NothingLost == AreBytes(Whole, accepted)

\* After a flush with sync_flush, and after Close, the file has all of them;
\* then it has one end, behind them.
FlushedIsOnFile ==
  /\ reply.ok /\ reply.op \in {"flush", "sync"} /\ flush_mode = "sync_flush" /\ op = "none"
       => AreBytes(disk, accepted)
  /\ ~ open => /\ AreBytes(disk, accepted)
               /\ \A i \in 1 .. Len(disk) : disk[i] = End <=> i = Len(disk)

\* The input stays inside its buffer.
InputFits == ~ outside => head + Len(input) <= input_buffer_capacity_

\* Between two calls next_in points into z_stream_input_ (the comment at
\* zlib_outputbuffer.cc:157 says that it need not be saved).
NextInOwned == op = "none" => ~ outside
=============================================================================
