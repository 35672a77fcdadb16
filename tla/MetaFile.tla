------------------------------ MODULE MetaFile ------------------------------
(***************************************************************************)
(* mpr::chubby::MetaFile (src/storage/meta_file.cc): lines appended through*)
(* a stdio stream, and read back through an InputBuffer, which stands here *)
(* as the reader that it implements.                                       *)
(***************************************************************************)
EXTENDS Integers, Sequences

CONSTANTS
  Bytes, NL, CR,                      \* NL and CR are two of the bytes
  OK, OutOfRange, Failed, Invalid,    \* status codes
  MaxFile                             \* bound: bytes written

VARIABLES
  usable,       \* the constructor has made the file, so the streams are there
  unflushed,    \* bytes in the buffer of output_file_
  file,         \* bytes in the file
  offset,       \* position of input_buffer_
  reply,        \* the last call of input_buffer_, and what it returned
  line          \* history: the last line written, until a line is read

vars == <<usable, unflushed, file, offset, reply, line>>

Buffer == INSTANCE ByteReader

\* A file that exists is left alone, and the streams are null.
Init ==
  /\ usable \in BOOLEAN
  /\ unflushed = <<>> /\ file = <<>> /\ offset = 0 /\ line = <<>>
  /\ reply = [op |-> "none", n |-> 0, data |-> <<>>, status |-> OK]

Lines == {<<b, NL>> : b \in Bytes \ {NL, CR}}

\* stdio writes as much as it has no room for, or nothing yet.
WriteLine(l) ==
  /\ usable /\ Len(file) + Len(unflushed) + Len(l) <= MaxFile
  /\ \E k \in 0 .. Len(unflushed) + Len(l) :
       LET all == unflushed \o l
       IN  /\ file' = file \o SubSeq(all, 1, k)
           /\ unflushed' = SubSeq(all, k + 1, Len(all))
  /\ line' = l
  /\ UNCHANGED <<usable, offset, reply>>

ReadLine ==
  /\ usable
  /\ Buffer!ReadLine \/ Buffer!ReadLineFails
  /\ line' = <<>>
  /\ UNCHANGED <<usable, unflushed>>

\* Reads until nothing comes and gives what the last of these reads left: an
\* empty line.  Then it seeks back, unless a read has failed.
ReadLastLine ==
  /\ usable
  /\ \/ Buffer!Answer("line", 0, offset, <<>>, OutOfRange)
     \/ \E to \in offset .. Buffer!End(offset) :
          Buffer!Answer("line", 0, to, reply.data, Failed)
  /\ UNCHANGED <<usable, unflushed, line>>

Next == (\E l \in Lines : WriteLine(l)) \/ ReadLine \/ ReadLastLine

Spec == Init /\ [][Next]_vars

-----------------------------------------------------------------------------
(* Property.                                                               *)

\* What is read after a line has been written is that line, unless the file
\* cannot be read (the expectation at meta_unittest.cc:48).
ReadsBack ==
  [][line # <<>> /\ line' = <<>> /\ reply'.status \in {OK, OutOfRange}
       => reply'.data = line]_vars
=============================================================================
