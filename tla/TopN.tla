-------------------------------- MODULE TopN ---------------------------------
(***************************************************************************)
(* base::gtl::TopN (src/base/gtl/top_n.h) for the predicate "greater".  A  *)
(* heap is written in ascending order: which of its orders the library     *)
(* chooses shows only where elements are extracted unsorted, as a bag.     *)
(***************************************************************************)
EXTENDS Integers, Sequences, SequencesExt

CONSTANTS
  Elements,     \* a set of numbers
  Limits,       \* values of limit_
  MaxPushes     \* bound: elements pushed between two resets

TopNAssumption == Elements \subseteq Nat /\ Limits \subseteq Nat

VARIABLES
  limit_, elements_,
  state_,       \* "UNORDERED", "BOTTOM_KNOWN" or "HEAP_SORTED"
  extracted,    \* after Extract and ExtractUnsorted only Reset may follow
  pushed,       \* history: the elements pushed since the last reset
  reply         \* the last call and what it gave, << >> if nothing

vars == <<limit_, elements_, state_, extracted, pushed, reply>>

Init ==
  /\ limit_ \in Limits
  /\ elements_ = <<>> /\ state_ = "UNORDERED" /\ extracted = FALSE
  /\ pushed = <<>> /\ reply = [op |-> "none", out |-> <<>>]

Ascending(s)  == SortSeq(s, LAMBDA x, y : x < y)
Descending(s) == SortSeq(s, LAMBDA x, y : x > y)

MovedFrom == -1     \* what std::move leaves behind

SwapEnds(s, i) == [s EXCEPT ![1] = s[i], ![i] = s[1]]

Reply(o, out) == reply' = [op |-> o, out |-> out]
PushReply(dropped, out) == IF dropped THEN Reply("push_dropped", out) ELSE Reply("push", <<>>)

\* A heap of limit_ + 1 elements loses its least one, which pop_heap leaves in
\* the slot behind it, and which dropped, if it is given, has been moved to.
PopHeap(s, dropped) ==
  LET heap == Ascending(s)
  IN  /\ elements_' = Tail(heap) \o <<IF dropped THEN MovedFrom ELSE Head(heap)>>
      /\ PushReply(dropped, <<Head(heap)>>)

\* Mutant: a bottom that is known is not kept at the front.
PushBackNoSwap(v) == Append(elements_, v)

PushBack(v) ==
  LET s == Append(elements_, v)
  IN  IF state_ = "UNORDERED" \/ v > s[1] THEN s ELSE SwapEnds(s, Len(s))

PushInternal(v, dropped) ==
  /\ ~ extracted /\ Len(pushed) < MaxPushes
  /\ pushed' = Append(pushed, v)
  /\ \/ /\ limit_ = 0 \/ (state_ = "HEAP_SORTED" /\ v <= elements_[1])
        /\ PushReply(dropped, <<v>>)
        /\ UNCHANGED <<elements_, state_>>
     \/ /\ limit_ > 0 /\ state_ # "HEAP_SORTED"
        /\ IF Len(elements_) < limit_
           THEN elements_' = PushBack(v) /\ PushReply(dropped, <<>>) /\ UNCHANGED state_
           ELSE PopHeap(PushBack(v), dropped) /\ state_' = "HEAP_SORTED"
     \/ /\ limit_ > 0 /\ state_ = "HEAP_SORTED" /\ v > elements_[1]
        /\ PopHeap(Append(Front(elements_), v), dropped)
        /\ UNCHANGED state_
  /\ UNCHANGED <<limit_, extracted>>

size == IF Len(elements_) < limit_ THEN Len(elements_) ELSE limit_

\* The first position of a least element.
Bottom == CHOOSE i \in DOMAIN elements_ :
            /\ \A j \in DOMAIN elements_ : elements_[i] <= elements_[j]
            /\ \A j \in 1 .. i - 1 : elements_[i] < elements_[j]

peek_bottom ==
  /\ ~ extracted /\ size > 0
  /\ \/ /\ state_ = "UNORDERED"
        /\ elements_' = SwapEnds(elements_, Bottom) /\ state_' = "BOTTOM_KNOWN"
     \/ state_ # "UNORDERED" /\ UNCHANGED <<elements_, state_>>
  /\ Reply("peek", <<elements_'[1]>>)
  /\ UNCHANGED <<limit_, extracted, pushed>>

\* Mutant: the slot behind the heap is taken for an element.
HeldWithSlot == elements_

\* The slot behind a heap is not an element.
Held == IF state_ = "HEAP_SORTED" THEN Front(elements_) ELSE elements_

\* Extract and ExtractUnsorted, or their forms that leave the elements there.
Take(o, out) ==
  /\ ~ extracted
  /\ Reply(o, out)
  /\ \/ elements_' = <<>> /\ extracted' = TRUE
     \/ UNCHANGED <<elements_, extracted>>
  /\ UNCHANGED <<limit_, state_, pushed>>

Extract         == Take("sorted", Descending(Held))
ExtractUnsorted == Take("unsorted", Held)

Reset ==
  /\ elements_' = <<>> /\ state_' = "UNORDERED" /\ extracted' = FALSE
  /\ pushed' = <<>> /\ Reply("reset", <<>>)
  /\ UNCHANGED limit_

Next ==
  \/ \E v \in Elements, dropped \in BOOLEAN : PushInternal(v, dropped)
  \/ peek_bottom \/ Extract \/ ExtractUnsorted \/ Reset

Spec == Init /\ [][Next]_vars

-----------------------------------------------------------------------------
(* Property.                                                               *)

\* The greatest limit_ of some elements, in descending order.
Greatest(s) == SubSeq(Descending(s), 1, IF Len(s) < limit_ THEN Len(s) ELSE limit_)

\* Whatever was pushed, peeked at and extracted before, a call gives what the
\* greatest of the elements pushed so far say: all of them, the least of them,
\* or the one that a push made too many.
TopNAnswers ==
  /\ ~ extracted => size = Len(Greatest(pushed))
  /\ reply.op = "sorted"   => reply.out = Greatest(pushed)
  /\ reply.op = "unsorted" => Descending(reply.out) = Greatest(pushed)
  /\ reply.op = "peek"     => reply.out = <<Last(Greatest(pushed))>>
  /\ reply.op = "push_dropped"
       => Descending(Greatest(Front(pushed)) \o <<Last(pushed)>>)
            = Greatest(pushed) \o reply.out
=============================================================================
