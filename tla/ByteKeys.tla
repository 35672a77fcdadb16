------------------------------ MODULE ByteKeys ------------------------------
(***************************************************************************)
(* Keys of a table: byte strings in the order of StringPiece::compare,     *)
(* which is memcmp and then the length.                                    *)
(***************************************************************************)
EXTENDS Integers, Sequences, FiniteSets

\* a.compare(b) < 0: after a common prefix, a ends or has the smaller byte.
Less(a, b) ==
  \E n \in 0..Len(a) :
    /\ n < Len(b)
    /\ \A i \in 1..n : a[i] = b[i]
    /\ n < Len(a) => a[n + 1] < b[n + 1]

\* Length of the longest common prefix.
Shared(a, b) ==
  Cardinality({n \in 1..Len(a) : n <= Len(b) /\ \A i \in 1..n : a[i] = b[i]})

Least(S) == CHOOSE x \in S : \A y \in S : x <= y

=============================================================================
