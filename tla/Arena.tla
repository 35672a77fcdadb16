-------------------------------- MODULE Arena ---------------------------------
(***************************************************************************)
(* base::Arena (src/base/arena.cc) as its public interface uses it: Alloc, *)
(* Reset and the destructor.  Alloc asks for no alignment, and a block     *)
(* from malloc has the one that Reset wants.                               *)
(***************************************************************************)
EXTENDS Integers, Sequences, SequencesExt, FiniteSetsExt, Functions

CONSTANTS
  block_size_,
  Sizes,        \* sizes that are asked for
  kFirstBlocks, \* the length of first_blocks_, 16 in the source
  MaxPieces     \* bound: pieces handed out between two resets

ArenaAssumption ==
  /\ block_size_ \in Nat /\ block_size_ > 8 /\ Sizes \subseteq Nat
  /\ kFirstBlocks \in Nat \ {0} /\ MaxPieces \in Nat

VARIABLES
  heap,             \* the blocks that malloc has given and their sizes
  first_blocks_, overflow_blocks_,
  freestart_,       \* a block and a place in it
  remaining_,
  pieces            \* history: what was handed out since the last reset

vars == <<heap, first_blocks_, overflow_blocks_, freestart_, remaining_, pieces>>

InBlock(b, at) == [block |-> b, at |-> at]

\* malloc takes the first block that is free.
Fresh == Min((1 .. MaxPieces + 1) \ DOMAIN heap)

Init ==
  /\ heap = [b \in {1} |-> block_size_]
  /\ first_blocks_ = <<1>> /\ overflow_blocks_ = <<>>
  /\ freestart_ = InBlock(1, 0) /\ remaining_ = block_size_
  /\ pieces = <<>>

AllocNewBlock(size) ==
  /\ heap' = [b \in DOMAIN heap \cup {Fresh} |-> IF b = Fresh THEN size ELSE heap[b]]
  /\ IF Len(first_blocks_) < kFirstBlocks
     THEN first_blocks_' = Append(first_blocks_, Fresh) /\ UNCHANGED overflow_blocks_
     ELSE overflow_blocks_' = Append(overflow_blocks_, Fresh) /\ UNCHANGED first_blocks_

Give(place, size) ==
  pieces' = Append(pieces, [block |-> place.block, at |-> place.at, size |-> size])

\* Mutant: remaining_ is not reduced by what the free space gives.
TakeFromUncounted(place, left, size) ==
  /\ Give(place, size)
  /\ freestart_' = [place EXCEPT !.at = @ + size]
  /\ remaining_' = left

\* The next bytes of free space that has so many left.
TakeFrom(place, left, size) ==
  /\ Give(place, size)
  /\ freestart_' = [place EXCEPT !.at = @ + size]
  /\ remaining_' = left - size

blocks == <<heap, first_blocks_, overflow_blocks_>>

\* More than a quarter of a block, unless the free space is larger, is a block
\* of its own; and the rest of the free space is given up for a new block.
Alloc(size) ==
  /\ first_blocks_ # <<>> /\ Len(pieces) < MaxPieces
  /\ LET common == 0 < size /\ size < remaining_
     IN  \/ common /\ TakeFrom(freestart_, remaining_, size) /\ UNCHANGED blocks
         \/ size = 0 /\ UNCHANGED vars
         \/ /\ ~ common /\ size > block_size_ \div 4
            /\ AllocNewBlock(size)
            /\ Give(InBlock(Fresh, 0), size) /\ UNCHANGED <<freestart_, remaining_>>
         \/ /\ ~ common /\ 0 < size /\ size <= block_size_ \div 4
            /\ IF size > remaining_
               THEN AllocNewBlock(block_size_) /\ TakeFrom(InBlock(Fresh, 0), block_size_, size)
               ELSE TakeFrom(freestart_, remaining_, size) /\ UNCHANGED blocks

\* All but the first block.
FreeBlocks ==
  /\ heap' = Restrict(heap, DOMAIN heap \ ToSet(Tail(first_blocks_) \o overflow_blocks_))
  /\ first_blocks_' = <<Head(first_blocks_)>> /\ overflow_blocks_' = <<>>

Reset ==
  /\ first_blocks_ # <<>>
  /\ FreeBlocks
  /\ freestart_' = InBlock(Head(first_blocks_), 0)
  /\ remaining_' = heap[Head(first_blocks_)]
  /\ pieces' = <<>>

\* ~Arena: the first block goes as well.
Destroy ==
  /\ first_blocks_ # <<>>
  /\ heap' = Restrict(heap, DOMAIN heap \ ToSet(first_blocks_ \o overflow_blocks_))
  /\ first_blocks_' = <<>> /\ overflow_blocks_' = <<>>
  /\ pieces' = <<>> /\ UNCHANGED <<freestart_, remaining_>>

Next == Reset \/ Destroy \/ \E size \in Sizes : Alloc(size)

Spec == Init /\ [][Next]_vars

-----------------------------------------------------------------------------
(* Property.                                                               *)

Inside(piece) == piece.at .. piece.at + piece.size - 1

Apart(p, q) == p.block # q.block \/ Inside(p) \cap Inside(q) = {}

\* Until the next reset every piece lies in a block that is not freed, apart
\* from all others and from the free space; no block is lost or freed twice
\* when the 16 first ones are used up; and there is never more free space than a
\* block has (arena.h:52).
PiecesApart ==
  LET free == [block |-> freestart_.block, at |-> freestart_.at, size |-> remaining_]
      all  == IF first_blocks_ = <<>> THEN pieces ELSE Append(pieces, free)
      owned == first_blocks_ \o overflow_blocks_
  IN  /\ \A i \in DOMAIN all :
           all[i].block \in DOMAIN heap /\ all[i].at + all[i].size <= heap[all[i].block]
      /\ \A i, j \in DOMAIN all : i # j => Apart(all[i], all[j])
      /\ ToSet(owned) = DOMAIN heap /\ IsInjective(owned)
      /\ remaining_ <= block_size_
=============================================================================
