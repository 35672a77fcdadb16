----------------------------- MODULE BlockSizing ----------------------------
(***************************************************************************)
(* How DeviceThreadPool::ParallelFor (src/base/thread/device_thread_pool.h)*)
(* chooses the size of the blocks it splits 0..n into, with the cost model *)
(* of src/base/thread/cost_model.h.                                        *)
(*                                                                         *)
(* Costs are whole numbers of cycles per element, as ThreadPool passes     *)
(* them.  The doubles of the code are quotients of small integers here,    *)
(* compared exactly: an efficiency is a record of numerator and            *)
(* denominator.                                                            *)
(***************************************************************************)
EXTENDS Integers

CONSTANTS
  Lengths,      \* values of n
  Costs,        \* cycles per element
  Threads,      \* values of NumThreads()
  Aligns,       \* block_align rounds up to a multiple of one of these
  Null          \* a block_align that holds no function

SizingAssumption ==
  /\ Lengths \subseteq Nat
  /\ Costs \subseteq Nat
  /\ Threads \subseteq Nat \ {0}
  /\ Aligns \subseteq (Nat \ {0}) \cup {Null}
  /\ Null \notin Nat

VARIABLES
  n, cost, threads, align,      \* the arguments
  pc,           \* "start", "loop", "inline", "split", "bad_call", "assert"
  block_size, max_block_size, block_count, prev_block_count, max_efficiency,
  seen          \* history: efficiency of every size the loop looked at

args   == <<n, cost, threads, align>>
sizing == <<block_size, max_block_size, block_count, prev_block_count,
            max_efficiency, seen>>
vars   == <<args, pc, sizing>>

kStartupCycles   == 100000
kPerThreadCycles == 100000
kTaskSize        == 40000

MinOf(a, b) == IF a < b THEN a ELSE b
MaxOf(a, b) == IF a < b THEN b ELSE a

divup(x, y) == (x + y - 1) \div y

\* (total - startup) / perThread + 0.9, converted to int (towards zero).
NumThreads ==
  LET tenths == 10 * (n * cost - kStartupCycles) + 9 * kPerThreadCycles
      whole  == 10 * kPerThreadCycles
      t      == IF tenths < 0 THEN -((-tenths) \div whole) ELSE tenths \div whole
  IN  MinOf(threads, MaxOf(1, t))

\* m / TaskSize(1, cost), converted to Index.
BlockSizeInverted(m) == MaxOf(1, (m * cost) \div kTaskSize)   \* mutant
BlockSizeFor(m) == MaxOf(1, (m * kTaskSize) \div cost)

block_align(size) == align * divup(size, align)

Aligned(size) == MinOf(n, block_align(size))

BlocksDown(size) == n \div size                  \* mutant: rounds down
Blocks(size) == divup(n, size)

Efficiency(count) == [num |-> count, den |-> divup(count, threads) * threads]

AtLeast(a, b)       == a.num * b.den >= b.num * a.den
NearlyAtLeast(a, b) ==                           \* a + 0.01 >= b
  100 * a.num * b.den + a.den * b.den >= 100 * b.num * a.den

Init ==
  /\ n \in Lengths
  /\ cost \in Costs
  /\ threads \in Threads
  /\ align \in Aligns
  /\ pc = "start"
  /\ block_size = 0 /\ max_block_size = 0
  /\ block_count = 0 /\ prev_block_count = 0
  /\ max_efficiency = [num |-> 0, den |-> 1]
  /\ seen = {}

WorthSharing == n > 1 /\ threads # 1 /\ NumThreads # 1

\* Too little work, or one thread: f(0, n) in the calling thread.
Inline ==
  /\ pc = "start" /\ ~ WorthSharing
  /\ pc' = "inline"
  /\ UNCHANGED <<args, sizing>>

\* block_align is called before the test that it holds a function:
\* std::bad_function_call.
CallNull ==
  /\ pc = "start" /\ WorthSharing /\ align = Null
  /\ pc' = "bad_call"
  /\ UNCHANGED <<args, sizing>>

\* The first size, from the cost alone.
FirstSize ==
  /\ pc = "start" /\ WorthSharing /\ align # Null
  /\ max_block_size' = MinOf(n, BlockSizeFor(2))
  /\ block_size' = Aligned(MinOf(n, BlockSizeFor(1)))
  /\ block_count' = Blocks(block_size')
  /\ prev_block_count' = block_count'
  /\ max_efficiency' = Efficiency(block_count')
  /\ seen' = {max_efficiency'}
  /\ pc' = "loop"
  /\ UNCHANGED args

CoarserSize == Aligned(divup(n, prev_block_count - 1))

\* Mutant: looks at the maximum alone, and is stuck when one block is left.
StopAtMaximum ==
  /\ pc = "loop" /\ prev_block_count > 1 /\ CoarserSize > max_block_size
  /\ pc' = "split"
  /\ UNCHANGED <<args, sizing>>

\* The loop ends: one block is left, or the next size is too large.
StopCoarsening ==
  /\ pc = "loop"
  /\ prev_block_count > 1 => CoarserSize > max_block_size
  /\ pc' = "split"
  /\ UNCHANGED <<args, sizing>>

AnyEfficiency(e) == TRUE                         \* mutant
GoodEnough(e) == NearlyAtLeast(e, max_efficiency)

\* One round: the next coarser size is kept when its blocks share evenly
\* enough among the threads.
Coarsen ==
  /\ pc = "loop" /\ prev_block_count > 1 /\ CoarserSize <= max_block_size
  /\ LET count == Blocks(CoarserSize)
         e     == Efficiency(count)
     IN  /\ pc' = IF count < prev_block_count THEN "loop" ELSE "assert"
         /\ prev_block_count' = count
         /\ seen' = seen \cup {e}
         /\ IF GoodEnough(e)
            THEN /\ block_size' = CoarserSize
                 /\ block_count' = count
                 /\ max_efficiency' = IF AtLeast(max_efficiency, e)
                                      THEN max_efficiency ELSE e
            ELSE UNCHANGED <<block_size, block_count, max_efficiency>>
  /\ UNCHANGED <<args, max_block_size>>

Next == Inline \/ CallNull \/ FirstSize \/ StopCoarsening \/ Coarsen

Spec == Init /\ [][Next]_vars /\ WF_vars(Next)

Terminated == pc \in {"inline", "split", "bad_call", "assert"}

-----------------------------------------------------------------------------
(* Properties.                                                             *)

\* The count the barrier is created with (:198) is the number of blocks of the
\* chosen size that cover 0..n, whatever sizes the loop rejected on its way,
\* and its assertion that the count falls (:184) never fails.
CountMatchesSize ==
  /\ pc # "assert"
  /\ pc \in {"loop", "split"} => /\ (block_count - 1) * block_size < n
                                 /\ block_count * block_size >= n

\* Of the sizes the loop looked at none shares better among the threads than
\* the one it chose, by more than the 0.01 it allows itself (:189).
NearlyBest ==
  pc = "split" => \A e \in seen : NearlyAtLeast(Efficiency(block_count), e)

\* Work that the cost model finds worth a second thread is cut into at least
\* two blocks, unless an alignment forbids it.
SharesTheWork == pc = "split" /\ align = 1 => block_count > 1

\* ParallelFor does the work it is given, without an exception, for every
\* number of threads: what threadpool_unittest.cc:57-65 expects of
\* ThreadPool::ParallelFor, which passes no block_align.
NeverThrows == pc # "bad_call"

=============================================================================
