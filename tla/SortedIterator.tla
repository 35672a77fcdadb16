--------------------------- MODULE SortedIterator ---------------------------
(***************************************************************************)
(* What an Iterator over a sorted source promises (iterator.h): a call     *)
(* asks for a position of the source and ends there.  It ends at a later   *)
(* one only if something could not be read, and then status() says so from *)
(* that call on; it says so for no other reason.  Position                 *)
(* Len(source) + 1 is the end, where Valid() is false.  Table with its     *)
(* two-level iterator implements this specification.                       *)
(***************************************************************************)
EXTENDS ByteKeys

CONSTANTS Keys

VARIABLES
  open,     \* there is an iterator
  source,   \* the keys of the source, in order
  busy,     \* a call is in progress
  wanted,   \* the position it asks for
  at,       \* where the iterator is, between calls
  faulted,  \* something could not be read
  failed    \* status() is not OK

vars == <<open, source, busy, wanted, at, faulted, failed>>

AtEnd == Len(source) + 1

\* The first position at or past a key.
Past(target) ==
  Least({i \in 1..Len(source) : ~Less(source[i], target)} \cup {AtEnd})

Init ==
  /\ open = FALSE /\ source = <<>> /\ busy = FALSE
  /\ wanted = 1 /\ at = AtEnd
  /\ faulted = FALSE /\ failed = FALSE

\* A new iterator is at the end until it is told where to go.
NewIterator ==
  /\ ~open
  /\ open' = TRUE
  /\ at' = AtEnd'
  /\ UNCHANGED <<busy, wanted, faulted, failed>>

\* What can happen to the status during a call.
Status ==
  /\ faulted => faulted'
  /\ failed => failed'
  /\ failed' => faulted'

Ask(i) ==
  /\ open /\ ~busy
  /\ busy' = TRUE
  /\ wanted' = i
  /\ Status
  /\ UNCHANGED <<open, source, at>>

SeekToFirst  == Ask(1)
Seek(target) == Ask(Past(target))
Advance      == at < AtEnd /\ Ask(at + 1)

Fail ==
  /\ busy
  /\ Status
  /\ UNCHANGED <<open, source, busy, wanted, at>>

Answer ==
  /\ busy
  /\ busy' = FALSE
  /\ at' \in wanted..AtEnd
  /\ Status
  /\ at' = wanted \/ failed'
  /\ UNCHANGED <<open, source, wanted>>

Next ==
  \/ NewIterator
  \/ SeekToFirst \/ Advance \/ \E key \in Keys : Seek(key)
  \/ Fail \/ Answer

Safety == Init /\ [][Next]_vars

\* Every call returns.
Spec == Safety /\ (busy ~> ~busy)

=============================================================================
