--------------------------- MODULE ReplicatedLog ----------------------------
(***************************************************************************)
(* What the binary log is for its callers: one sequence of entries that    *)
(* survives a restart of the process.  Entries are added at the end, a     *)
(* suffix can be cut off, and single entries can be discarded, which       *)
(* leaves a gap and moves nothing.  A power loss takes the log back to     *)
(* what it was when it was last written back, and to nothing in between.   *)
(* BinLogger implements this specification.                                *)
(***************************************************************************)
EXTENDS Integers, Sequences

CONSTANTS Entries, Gap

VARIABLES
  log,
  saved    \* the log as it was last written back

vars == <<log, saved>>

Init == log = <<>> /\ saved = <<>>

\* Batches are as long as the step needs them to be: what was added is what
\* the new log has beyond the old one.
Extend ==
  LET n == Len(log)
  IN  /\ Len(log') > n
      /\ log' = log \o SubSeq(log', n + 1, Len(log'))
      /\ \A i \in n + 1 .. Len(log') : log'[i] \in Entries
      /\ UNCHANGED saved

CutTo(n) ==
  /\ n <= Len(log)
  /\ log' = SubSeq(log, 1, n)
  /\ UNCHANGED saved

Discard(i) ==
  /\ log' = [log EXCEPT ![i] = Gap]
  /\ UNCHANGED saved

Save == saved' = log /\ UNCHANGED log

Lose == log' = saved /\ UNCHANGED saved

Next ==
  \/ Extend
  \/ \E n \in 0..Len(log) : CutTo(n)
  \/ \E i \in 1..Len(log) : Discard(i)
  \/ Save \/ Lose

Spec == Init /\ [][Next]_vars

=============================================================================
