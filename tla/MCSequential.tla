---------------------------- MODULE MCSequential -----------------------------
(***************************************************************************)
(* The components that one thread uses at a time, for TLC side by side: a  *)
(* behaviour is one of the component chosen in its first state, and the    *)
(* others stay as they are.  The streams share the variables of a call.    *)
(***************************************************************************)
EXTENDS InputBuffer

CONSTANTS
  DataLoss, input_buffer_capacity_, output_buffer_capacity_, Bursts, MaxSource,
  kFlushSpace, MaxBytes, MaxPiece,
  Lengths, Costs, Threads, Aligns, Null,
  Elements, Limits, MaxPushes,
  Values, RawSlot, Moved, Broken, kFit, MaxSize,
  block_size_, Sizes, kFirstBlocks, MaxPieces,
  bucket_limits_, Samples, Percents, MaxAdds,
  Weights, MaxElements, kRandomBits, MaxItems,
  Letters, MaxWord, kBits, MaxBits,
  kMore, kVarintBytes, kRange, kDigit, kDigits, Texts, MaxEncoded

VARIABLES
  which,
  streamBuf, streamPos, below,
  source, taken, used, made, told, left,
  flush_mode, input, head, outside, held, output, synced, finishing, open, disk,
  deflating, data, stage, accepted, deflated,
  n, cost, threads, align, pc,
  block_size, max_block_size, block_count, prev_block_count, max_efficiency, seen,
  limit_, elements_, state_, extracted, pushed,
  answer,                             \* of TopN, LevenshteinDistance and the codecs
  vectors, contents,
  heap, first_blocks_, overflow_blocks_, freestart_, remaining_, pieces,
  min_, max_, buckets_, added,
  N_, level_, weights,
  argument, pr, alt, high, low, built,
  nbits_, word_

Stream  == INSTANCE BufferedStream WITH buf_ <- streamBuf, pos_ <- streamPos
Inflate == INSTANCE InflateStream WITH Raw <- FALSE, Trailing <- FALSE
Deflate == INSTANCE DeflateBuffer WITH op <- deflating, reply <- deflated
Sizing  == INSTANCE BlockSizing
Top     == INSTANCE TopN WITH reply <- answer
Vectors == INSTANCE InlinedVector WITH Raw <- RawSlot
Pieces  == INSTANCE Arena
Counts  == INSTANCE Histogram
Picker  == INSTANCE WeightedPicker
Sampler == INSTANCE DistributionSampler WITH weights <- argument
Bits    == INSTANCE Bitmap
Edits   == INSTANCE EditDistance WITH reply <- answer
Coding  == INSTANCE Codecs WITH reply <- answer

stream == <<streamBuf, streamPos, below>>
packed == <<source, taken, used, made, told, left>>
packer == <<flush_mode, input, head, outside, held, output, synced, finishing, open, disk,
            deflating, data, stage, accepted, deflated>>
sizing == <<n, cost, threads, align, pc,
            block_size, max_block_size, block_count, prev_block_count, max_efficiency, seen>>
topn   == <<limit_, elements_, state_, extracted, pushed>>
inlined == <<vectors, contents>>
arena   == <<heap, first_blocks_, overflow_blocks_, freestart_, remaining_, pieces>>
histogram == <<min_, max_, buckets_, added>>
picker  == <<N_, level_, weights>>
sampler == <<argument, pr, alt, high, low, built>>
bitmap  == <<nbits_, word_>>
rest    == <<arena, histogram, picker, sampler, bitmap>>

Is(component) == which = component

\* Components with several initial states have one where they are not chosen.
MCInit ==
  /\ which \in {"InputBuffer", "BufferedInputStream", "ZlibInputStream", "ZlibOutputBuffer",
                "BlockSizing", "TopN", "InlinedVector", "Arena", "Histogram",
                "WeightedPicker", "DistributionSampler", "Bitmap", "EditDistance", "Codecs"}
  /\ Init /\ Stream!Init
  /\ Deflate!Init /\ (Is("ZlibOutputBuffer") \/ flush_mode = "no_flush")
  /\ Top!Init     /\ (Is("TopN") \/ limit_ = 0)
  /\ Vectors!Init /\ Pieces!Init /\ Counts!Init /\ Bits!Init
  /\ Picker!Init  /\ (Is("WeightedPicker") \/ N_ = 0)
  /\ Sampler!InitFrom(IF Is("DistributionSampler") THEN Sampler!Arguments ELSE {<<1>>})
  /\ Inflate!InitStream /\ source \in IF Is("ZlibInputStream") THEN Inflate!Sources ELSE {<<>>}
  /\ Sizing!Init  /\ (Is("BlockSizing") \/ (n = 0 /\ cost = 0 /\ threads = 1 /\ align = 1))

\* A step of a component leaves what the others alone use as it is.
Only(component) ==
  /\ Is(component) /\ UNCHANGED which
  /\ IF Is("InputBuffer")         THEN TRUE ELSE UNCHANGED buffer
  /\ IF Is("BufferedInputStream") THEN TRUE ELSE UNCHANGED stream
  /\ IF Is("ZlibInputStream")     THEN TRUE ELSE UNCHANGED packed
  /\ IF Is("ZlibOutputBuffer")    THEN TRUE ELSE UNCHANGED packer
  /\ IF Is("BlockSizing")         THEN TRUE ELSE UNCHANGED sizing
  /\ IF Is("TopN")                THEN TRUE ELSE UNCHANGED topn
  /\ IF Is("InlinedVector")       THEN TRUE ELSE UNCHANGED inlined
  /\ IF Is("Arena")               THEN TRUE ELSE UNCHANGED arena
  /\ IF Is("Histogram")           THEN TRUE ELSE UNCHANGED histogram
  /\ IF Is("WeightedPicker")      THEN TRUE ELSE UNCHANGED picker
  /\ IF Is("DistributionSampler") THEN TRUE ELSE UNCHANGED sampler
  /\ IF Is("Bitmap")              THEN TRUE ELSE UNCHANGED bitmap
  /\ IF which \in {"TopN", "EditDistance", "Codecs"} THEN TRUE ELSE UNCHANGED answer

\* The text of a ZlibInputStream is not in file, and it has no s.
MCNext ==
  \/ Only("InputBuffer") /\ Next
  \/ Only("BufferedInputStream") /\ Stream!Next
  \/ Only("ZlibInputStream") /\ Inflate!Next /\ UNCHANGED <<file, s>>
  \/ Only("ZlibOutputBuffer") /\ Deflate!Next /\ UNCHANGED <<file, call, reply>>
  \/ /\ UNCHANGED <<file, call, reply>>
     /\ \/ Only("BlockSizing") /\ Sizing!Next
        \/ Only("TopN") /\ Top!Next
        \/ Only("InlinedVector") /\ Vectors!Next
        \/ Only("Arena") /\ Pieces!Next
        \/ Only("Histogram") /\ Counts!Next
        \/ Only("WeightedPicker") /\ Picker!Next
        \/ Only("DistributionSampler") /\ Sampler!Next
        \/ Only("Bitmap") /\ Bits!Next
        \/ Only("EditDistance") /\ Edits!Next
        \/ Only("Codecs") /\ Coding!Next

MCvars == <<which, vars, stream, packed, packer, sizing, topn, answer, inlined, rest>>

\* A call that has begun goes on.
MCSpec ==
  /\ MCInit /\ [][MCNext]_MCvars
  /\ WF_vars(Is("InputBuffer") /\ Loop)
  /\ WF_(Stream!vars)(Is("BufferedInputStream") /\ Stream!Loop)
  /\ WF_(Inflate!vars)(Is("ZlibInputStream") /\ Inflate!Loop)
  /\ WF_packer(Is("ZlibOutputBuffer") /\ Deflate!Loop)
  /\ WF_sizing(Is("BlockSizing") /\ Sizing!Next)
  /\ WF_sampler(Is("DistributionSampler") /\ Sampler!Next)

ASSUME MCSequentialAssumption ==
  /\ Inflate!InflateAssumption /\ Deflate!DeflateAssumption /\ Sizing!SizingAssumption
  /\ Top!TopNAssumption /\ Vectors!InlinedVectorAssumption
  /\ Pieces!ArenaAssumption /\ Counts!HistogramAssumption
  /\ Picker!WeightedPickerAssumption /\ Sampler!SamplerAssumption
  /\ Bits!BitmapAssumption /\ Coding!CodecsAssumption

-----------------------------------------------------------------------------
(* Properties.                                                             *)

\* Whatever is buffered, every call of an InputBuffer does what it would do on
\* the bare file at the position Tell() had when it began.
BufferIsReader ==
  /\ Is("InputBuffer") => Reader!Init
  /\ [][Is("InputBuffer") => ReaderStep]_readerVars

\* The same of a BufferedInputStream, which also skips and rewinds to seek.
StreamIsReader ==
  /\ Is("BufferedInputStream") => Stream!Reader!Init
  /\ [][Is("BufferedInputStream") => Stream!ReaderStep]_Stream!readerVars

\* The same of a ZlibInputStream and the text that its file holds deflated, cut
\* short or damaged.
InflateIsReader ==
  /\ Is("ZlibInputStream") => Inflate!Reader!Init
  /\ [][Is("ZlibInputStream") => Inflate!ReaderStep]_Inflate!readerVars

\* Every call returns, at the end of the file and on a failing device too: the
\* loops over a buffer that is refilled or written end, and so do the search
\* for a block size and the pairing of items with their alternatives.
Busy ==
  \/ op # "none"                      \* of the three streams that are read
  \/ deflating # "none"
  \/ Is("BlockSizing") /\ ~ Sizing!Terminated
  \/ Is("DistributionSampler") /\ ~ built
LoopsEnd == Busy ~> ~ Busy

\* Text given to a ZlibOutputBuffer is deflated once, in order, whatever fails on
\* the way, and does not run over the input buffer.
NothingLost     == Deflate!NothingLost /\ Deflate!InputFits
FlushedIsOnFile == Deflate!FlushedIsOnFile

\* The block size is the one that was searched for: the count of the blocks is
\* that of its size, hardly another shares the work better, and no thread is idle
\* that could work.
CountMatchesSize == Sizing!CountMatchesSize
SharesTheWork    == Sizing!NearlyBest /\ Sizing!SharesTheWork

\* TopN answers as the greatest elements say, and a Histogram's percentiles rise
\* through the buckets of the true ones.
TopNAnswers        == Is("TopN") => Top!TopNAnswers
PercentilesOrdered == Is("Histogram") => Counts!PercentilesOrdered

\* Memory that an InlinedVector or an Arena has given is kept, apart from all
\* else, until it is given back, and then freed once.
MemoryHolds == Vectors!VectorsHold /\ Pieces!PiecesApart

\* Elements are drawn in proportion to their weights, from a tree of sums that
\* calls have changed and from tables of alternatives.
DrawnByWeight ==
  /\ Is("WeightedPicker") => Picker!PicksByWeight
  /\ Is("DistributionSampler") => Sampler!SamplesByWeight

\* What the functions without state compute: the first unset bit, the value that
\* was encoded, and the edits from the longer of two sequences to an end of the
\* shorter (not the distance they are said to compute: EditDistance).
AgreesWithDefinition ==
  /\ Is("Bitmap") => Bits!FirstUnsetAgrees
  /\ Is("EditDistance") => Edits!DistanceIsOfAnEnd
  /\ Is("Codecs") => Coding!CodecsAgree

-----------------------------------------------------------------------------
\* Lengths up to the point where every divisor pattern of up to eight threads
\* has occurred, and costs on both sides of what is worth two threads.
MCLengths == 0..40
MCCosts   == {0, 1, 2000, 6000, 9000, 15000, 21000, 40000, 79999, 80001, 210000, 1073741}

\* A first bucket for all that is low, a narrow, a wide and a last one.
MCLimits  == <<-1, 0, 3, 7>>
MCSamples == {-3, -1, 0, 1, 5}
MCTexts   == {<<>>, <<1>>, <<0, 1>>}
=============================================================================
