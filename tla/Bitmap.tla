-------------------------------- MODULE Bitmap --------------------------------
(***************************************************************************)
(* base::Bitmap (src/base/bitmap.cc): its words as one set of positions.   *)
(***************************************************************************)
EXTENDS Integers, FiniteSetsExt

CONSTANTS
  kBits,        \* bits of a word, 32 in the source
  MaxBits       \* bound: bits of a bitmap

BitmapAssumption == kBits \in Nat \ {0} /\ MaxBits \in Nat

VARIABLES
  nbits_,
  word_         \* the positions, from 0 on, of the bits that are set

vars == <<nbits_, word_>>

Init == nbits_ = 0 /\ word_ = {}

Reset(n) == nbits_' = n /\ word_' = {}
set(i)   == word_' = word_ \cup {i} /\ UNCHANGED nbits_
clear(i) == word_' = word_ \ {i} /\ UNCHANGED nbits_

Next ==
  \/ \E n \in 0 .. MaxBits : Reset(n)
  \/ \E i \in 0 .. nbits_ - 1 : set(i) \/ clear(i)

Spec == Init /\ [][Next]_vars

-----------------------------------------------------------------------------
(* FirstUnset, which goes from word to word.                               *)

NumWords(n) == (n + kBits - 1) \div kBits

\* Mutant: the bits before start are skipped in every word, not in the first.
UnsetInAll(i, start) ==
  {b \in 0 .. kBits - 1 : i * kBits + b \notin word_ /\ b >= start % kBits}

\* The unset bits of a word, without those before start in the first.
UnsetIn(i, start) ==
  {b \in 0 .. kBits - 1 :
     /\ i * kBits + b \notin word_
     /\ i = start \div kBits => b >= start % kBits}

FirstUnset(start) ==
  LET found == {i \in start \div kBits .. NumWords(nbits_) - 1 : UnsetIn(i, start) # {}}
  IN  IF start >= nbits_ \/ found = {} THEN nbits_
      ELSE Min({Min(found) * kBits + Min(UnsetIn(Min(found), start)), nbits_})

\* From any start it is the first position that is not set, and the number of
\* bits when there is none, whichever words and bits behind the last it looks at.
FirstUnsetAgrees ==
  \A start \in 0 .. nbits_ + 1 :
    FirstUnset(start)
      = Min({i \in start .. nbits_ - 1 : i \notin word_} \cup {nbits_})
=============================================================================
