--------------------------- MODULE InflateStream ----------------------------
(***************************************************************************)
(* base::io::ZlibInputStream (src/base/io/zlib_inputstream.cc).  The       *)
(* compressed data is what inflate() makes of it: each of its bytes        *)
(* completes so many bytes of text, the last one also ends the stream, and *)
(* a corrupt one is an error.  The i-th byte of the text is the number i.  *)
(* One round of the loop of ReadNBytes is one action.                      *)
(***************************************************************************)
EXTENDS Integers, Sequences, FiniteSetsExt, SequencesExt

CONSTANTS
  OK, OutOfRange, DataLoss, Failed, Invalid,   \* status codes
  input_buffer_capacity_, output_buffer_capacity_,
  kMaxSkipSize,
  Bursts,      \* how many bytes of text a compressed byte may complete
  Raw,         \* whether the last byte may complete some too: deflated data
               \* without the trailer that the zlib and gzip formats have
  Trailing,    \* whether other data may follow the stream in the file
  MaxSource,   \* bound: compressed bytes before the last one
  MaxAsk       \* bound: bytes asked for in one call

InflateAssumption ==
  /\ OutOfRange # OK /\ DataLoss \notin {OK, OutOfRange, Invalid} /\ Failed \notin {OK, OutOfRange}
  /\ input_buffer_capacity_ \in Nat \ {0} /\ output_buffer_capacity_ \in Nat \ {0}
  /\ kMaxSkipSize \in Nat \ {0} /\ Bursts \subseteq Nat /\ MaxSource \in Nat
  /\ Raw \in BOOLEAN /\ Trailing \in BOOLEAN

VARIABLES
  source,     \* the compressed file
  taken,      \* how much of it has been read from input_stream_
  used,       \* how much of that inflate has consumed
  made,       \* how much text inflate has put into z_stream_output_ so far
  told,       \* how much text was there before next_unread_byte_
  op, ask,    \* the call in progress, and for its history: with Tell() then
  want,       \* bytes_to_read
  left,       \* what SkipNBytes has to skip after this read
  result,
  reply       \* the last call, and what it returned

stream == <<taken, used, made, told>>
call   == <<op, ask, want, left, result>>
vars   == <<source, stream, call, reply>>

Byte(n, kind) == [text |-> n, kind |-> kind]
Ends    == {Byte(n, "end") : n \in IF Raw THEN Bursts ELSE {0}}
Tails   ==   \* whole, damaged, or cut short inside the trailer
  {<<e>> : e \in Ends} \cup {<<Byte(0, "bad")>>, <<Byte(0, "data")>>}
    \cup IF Trailing THEN {<<e, Byte(0, "data")>> : e \in Ends} ELSE {}
Bodies  == SeqOf({Byte(n, "data") : n \in Bursts}, MaxSource)
Sources == {body \o tail : body \in Bodies, tail \in Tails}

\* The text that the first k bytes of the source complete.
Given == LET g[k \in 0 .. Len(source)] == IF k = 0 THEN 0 ELSE g[k - 1] + source[k].text
         IN  g

NoCall == [op |-> "none", n |-> 0, at |-> 0]

InitStream ==
  /\ taken = 0 /\ used = 0 /\ made = 0 /\ told = 0
  /\ op = "none" /\ ask = NoCall /\ want = 0 /\ left = 0 /\ result = <<>>
  /\ reply = [op |-> "none", n |-> 0, data |-> <<>>, status |-> OK]

Init == source \in Sources /\ InitStream

MinOf(a, b) == IF a < b THEN a ELSE b

Text(a, k) == [i \in 1 .. k |-> a + i]

Reply(c, data, status) ==
  /\ op' = "none" /\ ask' = NoCall /\ want' = 0 /\ left' = 0 /\ result' = <<>>
  /\ reply' = [op |-> c.op, n |-> c.n, data |-> data, status |-> status]

Return(status) == Reply(ask, IF op = "read" THEN result ELSE <<>>, status)

NumUnreadBytes == made - told

\* ReadNBytes(n), for SkipNBytes with rest to follow, takes what the cache has.
\* Converted to size_t, a negative n asks for all of it.
ReadChunk(n, rest) ==
  LET k == IF n < 0 THEN NumUnreadBytes ELSE MinOf(n, NumUnreadBytes)
  IN  /\ result' = Text(told, k) /\ told' = told + k
      /\ want' = n - k /\ left' = rest
      /\ UNCHANGED <<source, taken, used, made, reply>>

Begin(o, n) == op = "none" /\ op' = o /\ ask' = [op |-> o, n |-> n, at |-> told]

ReadNBytes(n) == Begin("read", n) /\ ReadChunk(n, 0)

SkipNBytes(n) ==
  IF n < 0
  THEN /\ op = "none" /\ Reply([op |-> "skip", n |-> n], <<>>, Invalid)
       /\ UNCHANGED <<source, stream>>
  ELSE Begin("skip", n) /\ LET k == MinOf(n, kMaxSkipSize) IN ReadChunk(k, n - k)

Stopped(u) == u > 0 /\ source[u].kind # "data"
Corrupt(u) == u > 0 /\ source[u].kind = "bad"

\* inflate() goes on to the next byte when there is room for all the text of
\* the bytes before it, and stops for good at the end and at an error.
Consumed(have) ==
  Max({u \in used .. have :
         \A v \in used .. u - 1 : ~ Stopped(v) /\ Given[v] <= made + output_buffer_capacity_})

\* Steps 2 and 3 of the loop: the output buffer starts anew.  What inflate made
\* before it met an error stays there for the next call.
Inflate(have) ==
  LET u == Consumed(have)
      m == MinOf(made + output_buffer_capacity_, Given[u])
      k == MinOf(want, m - made)
  IN  /\ taken' = have /\ used' = u /\ made' = m
      /\ \/ Corrupt(u) /\ told' = made /\ Return(DataLoss)
         \/ /\ ~ Corrupt(u)
            /\ told' = made + k /\ want' = want - k /\ result' = result \o Text(made, k)
            /\ UNCHANGED <<op, ask, left, reply>>

\* What the stream below has for the input buffer.
Available == MinOf(input_buffer_capacity_, Len(source) - taken)

\* Mutant: a short read is the end of the stream.
ReadFromStreamShort ==
  \/ Available = input_buffer_capacity_ /\ Inflate(taken + Available)
  \/ Available < input_buffer_capacity_ /\ Return(OutOfRange) /\ UNCHANGED stream

\* Mutant: goes on with nothing at the end of the file.
ReadFromStreamNothing == Inflate(taken + Available)

\* Step 1, when the input buffer is used up ...
ReadFromStream ==
  \/ Available > 0 /\ Inflate(taken + Available)
  \/ Available = 0 /\ Return(OutOfRange) /\ UNCHANGED stream

\* ... by a read that fails and gives nothing.
ReadFails ==
  /\ want > 0 /\ used = taken
  /\ Return(Failed) /\ UNCHANGED <<source, stream>>

Round ==
  /\ want > 0
  /\ IF used < taken THEN Inflate(taken) ELSE ReadFromStream
  /\ UNCHANGED source

\* ReadNBytes has got everything, and SkipNBytes reads on or returns.
Finish ==
  /\ op # "none" /\ want <= 0
  /\ IF left > 0
     THEN LET k == MinOf(left, kMaxSkipSize) IN ReadChunk(k, left - k) /\ UNCHANGED <<op, ask>>
     ELSE Return(OK) /\ UNCHANGED <<source, stream>>

Reset ==
  /\ op = "none"
  /\ taken' = 0 /\ used' = 0 /\ made' = 0 /\ told' = 0
  /\ Reply([op |-> "reset", n |-> 0], <<>>, OK)
  /\ UNCHANGED source

Loop == Round \/ Finish

Next ==
  \/ \E n \in -1 .. MaxAsk : ReadNBytes(n) \/ SkipNBytes(n)
  \/ Reset
  \/ Loop \/ ReadFails

\* A call that has begun goes on, also if the file can always be read.
Spec == Init /\ [][Next]_vars /\ WF_vars(Loop)

-----------------------------------------------------------------------------
(* Properties.                                                             *)

\* Every call returns, whatever the file holds (zlib_inputstream.h:
\* "OUT_OF_RANGE: If there are not enough bytes to read before the end of the
\* stream", "others: If reading from stream failed").
ReadsReturn == op # "none" ~> op = "none"

\* The text that the file holds, and every call reads it as it would a plain
\* file: no byte is lost, repeated or missing at the end, whatever of it inflate
\* still keeps, a refill cuts apart, or an error interrupts.
Whole == Given[Min({u \in 0 .. Len(source) : u = Len(source) \/ Stopped(u)})]
offset == IF op = "none" THEN told ELSE ask.at
Reader == INSTANCE ByteReader
            WITH Bytes <- Nat, NL <- 0, CR <- 0,
                 file <- Text(0, Whole),
                 reply <- IF reply.status = DataLoss THEN [reply EXCEPT !.status = Failed]
                          ELSE reply
\* A negative number of bytes gives what is in the cache.
ReadsCache == \E to \in offset .. Whole :
                Reader!Answer("read", -1, to, Reader!Slice(offset, to), OK)
ReaderStep == Reader!Reads(-1 .. MaxAsk) \/ Reader!Reset \/ ReadsCache
readerVars == Reader!vars
IsReader == Reader!Init /\ [][ReaderStep]_readerVars
=============================================================================
