----------------------------- MODULE EditDistance -----------------------------
(***************************************************************************)
(* base::gtl::LevenshteinDistance (src/base/gtl/edit_distance.h), with the *)
(* rows it computes one after the other in two vectors as a function.      *)
(***************************************************************************)
EXTENDS Integers, Sequences, SequencesExt, FiniteSetsExt

CONSTANTS
  Letters,
  MaxWord       \* bound: length of the sequences compared

VARIABLE reply  \* the last call and what it gave

Words == BoundedSeq(Letters, MaxWord)

\* Mutant: the first element of a row is that of the row above.
FirstOfRowLate(i) == i - 1

\* current[0] of a row, which has the number i.
FirstOfRow(i) == i

\* The two vectors before the first row: iota fills the one, and the other is
\* as it was made.
Scratch(n) == [previous |-> [j \in 0 .. n |-> j], current |-> [j \in 0 .. n |-> 0]]

\* The last element of the last row; t is not longer than s.  The vectors change
\* places before a row is written, so that the first is written over the numbers
\* of iota, with the other vector as the row above it.
Distance(s, t) ==
  LET rows[i \in 0 .. Len(s)] ==
        LET previous == rows[i - 1].current
            current[j \in 0 .. Len(t)] ==
              IF j = 0 THEN FirstOfRow(i)
              ELSE Min({current[j - 1] + 1, previous[j] + 1,
                        previous[j - 1] + IF s[i] = t[j] THEN 0 ELSE 1})
        IN  IF i = 0 THEN Scratch(Len(t)) ELSE [previous |-> previous, current |-> current]
  IN  rows[Len(s)].current[Len(t)]

LevenshteinDistance(s, t) ==
  CASE s = <<>>        -> Len(t)
    [] t = <<>>        -> Len(s)
    [] s = t           -> 0
    [] Len(t) > Len(s) -> Distance(t, s)
    [] OTHER           -> Distance(s, t)

Init == reply = [op |-> "none", out |-> <<>>]

Compare(s, t) ==
  reply' = [op |-> "distance", from |-> s, to |-> t, out |-> LevenshteinDistance(s, t)]

\* A call leaves nothing for the next: a behaviour is one call.
Next == reply.op = "none" /\ \E s, t \in Words : Compare(s, t)

Spec == Init /\ [][Next]_reply

-----------------------------------------------------------------------------
(* Properties.                                                             *)

\* The sequences that one insertion, deletion or substitution makes of s.
OneEdit(s) ==
  {InsertAt(s, i, c) : i \in 1 .. Len(s) + 1, c \in Letters}
    \cup {RemoveAt(s, i) : i \in DOMAIN s}
    \cup {ReplaceAt(s, i, c) : i \in DOMAIN s, c \in Letters}

\* The sequences that at most k edits make of s.
Reached(s, k) ==
  LET after[n \in 0 .. k] ==
        IF n = 0 THEN {s} ELSE after[n - 1] \cup UNION {OneEdit(r) : r \in after[n - 1]}
  IN  after[k]

\* k is the least number of edits that make t of s.
IsLeast(k, s, t) == t \in Reached(s, k) /\ (k > 0 => t \notin Reached(s, k - 1))

\* The distance is "the smallest number of insertions, deletions, and substitutions
\* required to convert sequence s to t" (edit_distance.h:15-17).  It is not, since
\* the row above the first is not that of iota: ab and ba are 1 apart.
DistanceIsLeast == reply.op = "distance" => IsLeast(reply.out, reply.from, reply.to)

Ends(s) == {SubSeq(s, i, Len(s)) : i \in 1 .. Len(s) + 1}

\* With a row of zeros above the first, whatever the shorter sequence begins with
\* costs nothing: the answer is the distance of the longer sequence from the end of
\* the shorter one that is the nearest to it.  It is never too great, and right
\* for equal sequences and for empty ones.
DistanceIsOfAnEnd ==
  reply.op = "distance" =>
    LET far  == IF Len(reply.to) > Len(reply.from) THEN reply.to ELSE reply.from
        near == IF Len(reply.to) > Len(reply.from) THEN reply.from ELSE reply.to
    IN  /\ \E end \in Ends(near) : end \in Reached(far, reply.out)
        /\ reply.out > 0 => Ends(near) \cap Reached(far, reply.out - 1) = {}
        /\ near \in {<<>>, far} => IsLeast(reply.out, far, near)
=============================================================================
