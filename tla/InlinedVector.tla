---------------------------- MODULE InlinedVector ----------------------------
(***************************************************************************)
(* base::gtl::InlinedVector (src/base/gtl/inlined_vector.h): two vectors,  *)
(* each with its slots, in the object or allocated, and what is in them.   *)
(***************************************************************************)
EXTENDS Integers, Sequences

CONSTANTS
  Values,       \* elements, none of them a number
  Raw,          \* content of a slot where no element has been constructed
  Moved,        \* an element that has been moved from
  Broken,       \* a slot used for what it is not fit for
  kFit,         \* slots in the object
  MaxSize       \* bound: elements of a vector

InlinedVectorAssumption ==
  /\ {Raw, Moved, Broken} \cap Values = {} /\ Raw \notin {Moved, Broken} /\ Moved # Broken
  /\ kFit \in Nat \ {0}

VARIABLES
  vectors,      \* for each: is_inline, size and slots
  contents      \* history: the sequence that each is to hold

vars == <<vectors, contents>>

Ids == {1, 2}

Memory(n) == [i \in 1 .. n |-> Raw]
Empty     == [is_inline |-> TRUE, size |-> 0, slots |-> Memory(kFit)]

Init == vectors = [x \in Ids |-> Empty] /\ contents = [x \in Ids |-> <<>>]

capacity(v) == Len(v.slots)
ElementsOf(v) == SubSeq(v.slots, 1, v.size)

\* Elements are constructed in raw memory behind from, and assigned to or
\* destroyed where there are elements.
Construct(s, from, data) ==
  [i \in DOMAIN s |-> IF i - from \notin DOMAIN data THEN s[i]
                      ELSE IF s[i] = Raw THEN data[i - from] ELSE Broken]
Assign(s, from, data) ==
  [i \in DOMAIN s |-> IF i - from \notin DOMAIN data THEN s[i]
                      ELSE IF s[i] \in {Raw, Broken} THEN Broken ELSE data[i - from]]
Destroy(s, from, n) == Assign(s, from, Memory(n))

\* The argument of a constructor: a value, or a reference to an element.
Read(s, arg) == IF arg \in Values THEN arg ELSE s[arg]

MaxOf(a, b) == IF a < b THEN b ELSE a

Power[k \in Nat] == IF k = 0 THEN 1 ELSE 2 * Power[k - 1]

\* The least power of two that is enough.
Target(n) == CHOOSE t \in {Power[k] : k \in 0 .. MaxOf(kFit, n)} :
               t >= MaxOf(kFit, n) /\ (t = 1 \/ t \div 2 < MaxOf(kFit, n))

\* Mutant: the elements are moved before the new one is constructed.
GrowMoveFirst(v, n, args) ==
  LET fresh == Construct(Memory(Target(n)), 0, ElementsOf(v))
      gone  == [i \in DOMAIN v.slots |-> Moved]
  IN  [is_inline |-> FALSE, size |-> v.size,
       slots |-> Construct(fresh, v.size, [i \in DOMAIN args |-> Read(gone, args[i])])]

\* In new memory the element to be added, if any, is constructed, then the old
\* ones are moved there and what is left of them is destroyed.
Grow(v, n, args) ==
  LET fresh == Construct(Memory(Target(n)), v.size, [i \in DOMAIN args |-> Read(v.slots, args[i])])
  IN  [is_inline |-> FALSE, size |-> v.size, slots |-> Construct(fresh, 0, ElementsOf(v))]

reserve(v, n) == IF n > capacity(v) THEN Grow(v, n, <<>>) ELSE v

emplace_back(v, arg) ==
  IF v.size < capacity(v)
  THEN [v EXCEPT !.slots = Construct(@, v.size, <<Read(@, arg)>>), !.size = @ + 1]
  ELSE [Grow(v, v.size + 1, <<arg>>) EXCEPT !.size = @ + 1]

AppendRange(v, data) ==
  [reserve(v, v.size + Len(data)) EXCEPT !.slots = Construct(@, v.size, data),
                                         !.size = @ + Len(data)]

Resize(v, n, e) ==
  IF n <= v.size THEN [v EXCEPT !.slots = Destroy(@, n, v.size - n), !.size = n]
  ELSE AppendRange(v, [i \in 1 .. n - v.size |-> e])

\* Element i + 1 on moves up one slot; the last goes where nothing is yet.
insert(v, i, e) ==
  IF i = v.size THEN emplace_back(v, e)
  ELSE LET w    == reserve(v, v.size + 1)
           more == Construct(w.slots, v.size, <<w.slots[v.size]>>)
       IN  [w EXCEPT !.slots = Assign(Assign(more, i + 1, SubSeq(@, i + 1, v.size - 1)), i, <<e>>),
                     !.size = @ + 1]

erase(v, first, last) ==
  LET n == v.size - (last - first)
  IN  [v EXCEPT !.slots = Destroy(Assign(@, first, SubSeq(@, last + 1, v.size)), n, last - first),
                !.size = n]

\* operator=
CopyFrom(v, u) ==
  IF v.size < u.size
  THEN LET w == [reserve(v, u.size) EXCEPT !.slots = Assign(@, 0, SubSeq(u.slots, 1, v.size))]
       IN  AppendRange(w, SubSeq(u.slots, v.size + 1, u.size))
  ELSE [erase(v, u.size, v.size) EXCEPT !.slots = Assign(@, 0, ElementsOf(u))]

\* b gets all of a, which has at least as many elements, and a those of b.
Exchange(a, b) ==
  LET room == reserve(b, a.size)
      rest == SubSeq(a.slots, b.size + 1, a.size)
  IN  <<[a EXCEPT !.slots = Destroy(Assign(@, 0, ElementsOf(b)), b.size, Len(rest)), !.size = b.size],
        [room EXCEPT !.slots = Construct(Assign(@, 0, SubSeq(a.slots, 1, b.size)), b.size, rest),
                     !.size = a.size]>>

Swapped(v, u) ==
  IF ~ v.is_inline /\ ~ u.is_inline THEN <<u, v>>
  ELSE IF v.size >= u.size THEN Exchange(v, u)
  ELSE LET both == Exchange(u, v) IN <<both[2], both[1]>>

-----------------------------------------------------------------------------
Become(x, v, data) ==
  /\ v.size <= MaxSize
  /\ vectors' = [vectors EXCEPT ![x] = v]
  /\ contents' = [contents EXCEPT ![x] = data]

Cut(s, first, last) == SubSeq(s, 1, first) \o SubSeq(s, last + 1, Len(s))

\* push_back may be given an element of the vector itself; insert and resize
\* read their argument after the elements have moved, and are not.
PushBack(x) == \E arg \in Values \cup DOMAIN contents[x] :
  Become(x, emplace_back(vectors[x], arg), Append(contents[x], Read(contents[x], arg)))

Insert(x) == \E i \in 0 .. Len(contents[x]), e \in Values :
  Become(x, insert(vectors[x], i, e),
         SubSeq(contents[x], 1, i) \o <<e>> \o SubSeq(contents[x], i + 1, Len(contents[x])))

Erase(x) == \E first, last \in 0 .. Len(contents[x]) :     \* pop_back: the last one
  first <= last /\ Become(x, erase(vectors[x], first, last), Cut(contents[x], first, last))

Reserve(x) == \E n \in 0 .. MaxSize : Become(x, reserve(vectors[x], n), contents[x])

ResizeTo(x) == \E n \in 0 .. MaxSize, e \in Values :
  Become(x, Resize(vectors[x], n, e),
         [i \in 1 .. n |-> IF i <= Len(contents[x]) THEN contents[x][i] ELSE e])

\* clear, or destroyed and constructed anew: from a range or a copy.
Clear(x) == Become(x, Empty, <<>>)
New(x)   == \E y \in Ids : \/ Become(x, AppendRange(Empty, contents[y]), contents[y])
                           \/ Become(x, CopyFrom(Empty, vectors[y]), contents[y])

CopyAssign(x) == \E y \in Ids : Become(x, CopyFrom(vectors[x], vectors[y]), contents[y])

Swap(x) == \E y \in Ids \ {x} :
  LET both == Swapped(vectors[x], vectors[y])
  IN  /\ vectors'  = [z \in Ids |-> IF z = x THEN both[1] ELSE both[2]]
      /\ contents' = [z \in Ids |-> IF z = x THEN contents[y] ELSE contents[x]]

Next == \E x \in Ids :
  \/ PushBack(x) \/ Insert(x) \/ Erase(x) \/ Reserve(x) \/ ResizeTo(x)
  \/ Clear(x) \/ New(x) \/ CopyAssign(x) \/ Swap(x)

Spec == Init /\ [][Next]_vars

-----------------------------------------------------------------------------
(* Property.                                                               *)

\* Wherever its slots are, a vector holds what a sequence treated likewise
\* would, and every other slot is raw: no element was constructed over another,
\* forgotten, or destroyed, assigned or read where there is none.
VectorsHold ==
  \A x \in Ids :
    /\ vectors[x].size = Len(contents[x])
    /\ vectors[x].slots = contents[x] \o Memory(capacity(vectors[x]) - Len(contents[x]))
=============================================================================
