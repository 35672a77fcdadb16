---------------------------- MODULE TableBuilder ----------------------------
(***************************************************************************)
(* TableBuilder (src/base/io/table/table_builder.cc): sorted entries go to *)
(* data blocks, each written when it is large enough; an index block holds *)
(* a separator key and the handle of every data block.                     *)
(*                                                                         *)
(* A value is abstracted to its length.  The file is the sequence of its   *)
(* blocks with their handles, and the footer.  Compression, which Uncompress *)
(* takes back, is left out (kNoCompression), as are the checksums: a       *)
(* damaged block is one that cannot be read.                               *)
(***************************************************************************)
EXTENDS Block

CONSTANTS
  Keys,         \* keys a caller may add: sequences of bytes
  Lengths,      \* lengths of the values
  MaxByte,      \* 0xff
  OptionSets,   \* Options: block_size and block_restart_interval
  MaxEntries,   \* bound: entries in a table
  Rooms,        \* how many writes succeed before the disk is full
  None

HandleT == [offset : Nat, size : Nat]
FooterT == [metaindex : HandleT, index : HandleT]

ASSUME TableAssumption ==
  /\ MaxByte \in Nat
  /\ None \notin HandleT \cup FooterT
  /\ Keys \subseteq Seq(0..MaxByte)
  /\ Lengths \subseteq Nat
  /\ \A o \in OptionSets : o.block_size \in Nat
                           /\ o.block_restart_interval \in Nat \ {0}
  /\ MaxEntries \in Nat /\ Rooms \subseteq Nat

TrailerSize  == 5    \* kBlockTrailerSize
FooterSize   == 48   \* Footer::kEncodedLength

VARIABLES
  rep,       \* TableBuilder::Rep and the file it writes
  contents   \* history: what the caller has added

builder == <<rep, contents>>

\* room is how many more writes succeed, of a block or of the footer.
NewRep(options, room) ==
  [options |-> options, file |-> <<>>, footer |-> None, room |-> room,
   offset |-> 0, ok |-> TRUE, data_block |-> EmptyBuilder,
   index_block |-> EmptyBuilder, last_key |-> <<>>, num_entries |-> 0,
   closed |-> FALSE, pending |-> None]

BuilderInit ==
  /\ rep \in {NewRep(o, n) : o \in OptionSets, n \in Rooms}
  /\ contents = <<>>

-----------------------------------------------------------------------------
(* Separators: keys as short as the order allows.                          *)

\* Mutant: increments whenever the byte is not the last one.
FindShortestSeparatorEqual(start, limit) ==
  LET d == Shared(start, limit)
  IN  IF d < Len(start) /\ d < Len(limit) /\ start[d + 1] < MaxByte
      THEN Append(SubSeq(start, 1, d), start[d + 1] + 1)
      ELSE start

\* A key at or past start and before limit.
FindShortestSeparator(start, limit) ==
  LET d == Shared(start, limit)
  IN  IF /\ d < Len(start) /\ d < Len(limit)
         /\ start[d + 1] < MaxByte
         /\ start[d + 1] + 1 < limit[d + 1]
      THEN Append(SubSeq(start, 1, d), start[d + 1] + 1)
      ELSE start

\* The first byte of a key that can be incremented.
CanGrow(key, i) ==
  /\ i \in 1..Len(key)
  /\ key[i] # MaxByte
  /\ \A j \in 1 .. i - 1 : key[j] = MaxByte

\* A key at or past key.
FindShortSuccessor(key) ==
  IF \E i \in 1..Len(key) : CanGrow(key, i)
  THEN LET i == CHOOSE i \in 1..Len(key) : CanGrow(key, i)
       IN  Append(SubSeq(key, 1, i - 1), key[i] + 1)
  ELSE key

-----------------------------------------------------------------------------
(* Writing blocks.                                                         *)

HandleSize(h)  == Varint(h.offset) + Varint(h.size)
HandleOf(r, b) == [offset |-> r.offset, size |-> BlockSize(b)]

\* Mutant: the trailer is not counted.
WriteBlockBare(r, b) ==
  IF r.room = 0 THEN [r EXCEPT !.ok = FALSE]
  ELSE [r EXCEPT !.room = @ - 1,
                 !.file = Append(@, [handle |-> HandleOf(r, b),
                                     contents |-> Contents(b)]),
                 !.offset = @ + BlockSize(b)]

\* WriteBlock and WriteRawBlock.  After a failed Append nothing else is
\* written, so what it may have left in the file is never looked at.
WriteBlock(r, b) ==
  IF r.room = 0 THEN [r EXCEPT !.ok = FALSE]
  ELSE [r EXCEPT !.room = @ - 1,
                 !.file = Append(@, [handle |-> HandleOf(r, b),
                                     contents |-> Contents(b)]),
                 !.offset = @ + BlockSize(b) + TrailerSize]

\* Mutant: a failed write leaves an index entry to come.
FlushUnchecked(r) ==
  IF ~r.ok \/ r.data_block.entries = <<>> THEN r
  ELSE LET w == WriteBlock(r, r.data_block)
       IN  [w EXCEPT !.data_block = EmptyBuilder, !.ok = TRUE,
                     !.pending = HandleOf(r, r.data_block)]

Flush(r) ==
  IF ~r.ok \/ r.data_block.entries = <<>> THEN r
  ELSE LET w == WriteBlock(r, r.data_block)
       IN  [w EXCEPT !.data_block = EmptyBuilder,
                     !.pending = IF w.ok THEN HandleOf(r, r.data_block) ELSE @]

\* The index entry of the block written last, under the given key.
IndexPending(r, key) ==
  IF r.pending = None THEN r
  ELSE [r EXCEPT !.index_block = BlockAdd(@, key, r.pending,
                                         HandleSize(r.pending), 1),
                 !.last_key = key,
                 !.pending = None]

-----------------------------------------------------------------------------
(* The operations of the builder.                                          *)

InOrder(key) ==
  contents # <<>> => Less(contents[Len(contents)].key, key)

AddTo(r, key, n) ==
  LET o  == r.options
      r1 == IF r.num_entries > 0 /\ Len(key) + n >= 2 * o.block_size
            THEN Flush(r) ELSE r
      r2 == IndexPending(r1, FindShortestSeparator(r1.last_key, key))
      r3 == [r2 EXCEPT !.last_key = key,
                       !.num_entries = @ + 1,
                       !.data_block = BlockAdd(@, key, n, n,
                                               o.block_restart_interval)]
  IN  IF BlockSize(r3.data_block) >= o.block_size THEN Flush(r3) ELSE r3

\* REQUIRES: the key is after any previously added key.
Add(key, n) ==
  /\ ~rep.closed
  /\ InOrder(key)
  /\ Len(contents) < MaxEntries
  /\ rep' = IF rep.ok THEN AddTo(rep, key, n) ELSE rep
  /\ contents' = Append(contents, [key |-> key, value |-> n])

FlushBlock ==
  /\ ~rep.closed
  /\ rep' = Flush(rep)
  /\ UNCHANGED contents

\* Mutant: the index entry of the last block is forgotten.
FinishNoPending ==
  /\ ~rep.closed
  /\ LET r1 == [Flush(rep) EXCEPT !.closed = TRUE]
         r2 == IF r1.ok THEN WriteBlock(r1, EmptyBuilder) ELSE r1
         r4 == IF r2.ok
               THEN [WriteBlock(r2, r2.index_block) EXCEPT !.index_block = EmptyBuilder]
               ELSE r2
     IN  rep' = IF ~r4.ok THEN r4
                ELSE IF r4.room = 0 THEN [r4 EXCEPT !.ok = FALSE]
                ELSE [r4 EXCEPT !.room = @ - 1,
                                !.footer = [metaindex |-> HandleOf(r1, EmptyBuilder),
                                            index |-> HandleOf(r2, r2.index_block)],
                                !.offset = @ + FooterSize]
  /\ UNCHANGED contents

\* The last data block, an empty metaindex block, the index block, the footer.
Finish ==
  /\ ~rep.closed
  /\ LET r1 == [Flush(rep) EXCEPT !.closed = TRUE]
         r2 == IF r1.ok THEN WriteBlock(r1, EmptyBuilder) ELSE r1
         r3 == IF r2.ok THEN IndexPending(r2, FindShortSuccessor(r2.last_key))
               ELSE r2
         r4 == IF r3.ok
               THEN [WriteBlock(r3, r3.index_block) EXCEPT !.index_block = EmptyBuilder]
               ELSE r3
     IN  rep' = IF ~r4.ok THEN r4
                ELSE IF r4.room = 0 THEN [r4 EXCEPT !.ok = FALSE]
                ELSE [r4 EXCEPT !.room = @ - 1,
                                !.footer = [metaindex |-> HandleOf(r1, EmptyBuilder),
                                            index |-> HandleOf(r3, r3.index_block)],
                                !.offset = @ + FooterSize]
  /\ UNCHANGED contents

Abandon ==
  /\ ~rep.closed
  /\ rep' = [rep EXCEPT !.closed = TRUE]
  /\ UNCHANGED contents

Build ==
  \/ \E key \in Keys, n \in Lengths : Add(key, n)
  \/ FlushBlock \/ Finish \/ Abandon

=============================================================================
