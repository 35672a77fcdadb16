-------------------------- MODULE ParallelForProofs --------------------------
(***************************************************************************)
(* What ParallelFor promises its caller, for any number of workers, calls  *)
(* and nesting of calls, and any loops: nobody uses the frame of a call    *)
(* that has returned, the assertions of Barrier hold, and f runs once for  *)
(* every index.                                                            *)
(***************************************************************************)
EXTENDS ParallelFor, FiniteSets, FiniteSetTheorems, SequenceTheorems, TLAPS

\* The blocks of a loop are numbered; a range goes from one edge to a later one.
Edge(l, k) == IF k = BlockCount(l) THEN l.n ELSE k * l.size
IsRange(l, r) == \E a, b \in 0..BlockCount(l) : a < b /\ r.first = Edge(l, a) /\ r.last = Edge(l, b)
ShortRange(l, r) == r.last - r.first <= l.size
MidOf(l, r) == r.first + divup((r.last - r.first) \div 2, l.size) * l.size

AllLoops  == [n : Nat \ {0}, size : Nat \ {0}]
AllRanges == [call : Calls, first : Nat, last : Nat]

Early   == {"range", "lower"}
Undone  == Early \cup {"body"}
Owing   == Undone \cup {"notify"}
Waiting == {"check", "asleep"}
AllFrames == [range : AllRanges, caller : BOOLEAN,
              pc : Owing \cup Waiting \cup {"signal", "wait"}]

\* A frame has a place: its thread, and its depth counted from the outermost.
Places(st) == UNION {{t} \X (1..Len(st[t])) : t \in AllThreads}
FramesIn(st) == [p \in Places(st) |-> st[p[1]][Len(st[p[1]]) + 1 - p[2]]]
TopPlace(st, t) == <<t, Len(st[t])>>
frames == FramesIn(stack)

\* What a frame still has to run or to report.  Once HandleRange has scheduled
\* the upper half of its range, that is the lower half.
Debt(lp, f) ==
  IF f.pc = "lower" THEN RangeOf(f.range.call, f.range.first, MidOf(lp[f.range.call], f.range))
  ELSE f.range

\* What is owed: the ranges that are scheduled, and those of frames at one of pcs.
Due(lp, ts, fr, pcs) ==
  ts \cup {Debt(lp, fr[p]) : p \in {q \in DOMAIN fr : fr[q].pc \in pcs}}
Unstarted == Due(loop, tasks, frames, Early)
Unrun     == Due(loop, tasks, frames, Undone)
Owed      == Due(loop, tasks, frames, Owing)

Covers(r, c, i) == r.call = c /\ i \in Indices(r)
Covered(ds, c, i) == \E r \in ds : Covers(r, c, i)
Pending(l, ds, c) == {k \in 0..BlockCount(l) - 1 : Covered(ds, c, k * l.size)}
Settled(ds, c) == \A r \in ds : r.call # c

\* Calls by the frames they have: any, or only ranges that are scheduled; that of
\* the caller; one in which the caller waits; one of a thread about to wake it.
CallersIn(fr)  == {fr[p].range.call : p \in {q \in DOMAIN fr : fr[q].caller}}
WaitersIn(fr)  == {fr[p].range.call : p \in {q \in DOMAIN fr : fr[q].pc \in Waiting}}
WakersIn(fr)   == {fr[p].range.call : p \in {q \in DOMAIN fr : fr[q].pc = "signal"}}
UsersIn(ts, fr) == {r.call : r \in ts} \cup {fr[p].range.call : p \in DOMAIN fr}
Callers == CallersIn(frames)
Waiters == WaitersIn(frames)
Wakers  == WakersIn(frames)
InUse   == UsersIn(tasks, frames)
Made    == Callers \cup returned

-----------------------------------------------------------------------------
(* The invariant: frames one by one, ...                                   *)

Typed ==
  /\ loop \in [Calls -> AllLoops] /\ state_ \in [Calls -> Int]
  /\ tasks \subseteq AllRanges
  /\ stack \in [AllThreads -> Seq(AllFrames)]
  /\ DOMAIN ran = Calls /\ \A c \in Calls : ran[c] \in [0..loop[c].n - 1 -> Int]
  /\ returned \subseteq Calls /\ notified_ \subseteq Calls

FrameOK(lp, f) ==
  /\ IsRange(lp[f.range.call], f.range)
  /\ f.pc \in {"body", "notify"} => ShortRange(lp[f.range.call], f.range)
  /\ f.pc = "lower" => ~ ShortRange(lp[f.range.call], f.range)
  /\ f.pc \in Waiting \cup {"wait"} => f.caller
WellFormed ==
  /\ \A r \in tasks : IsRange(loop[r.call], r)
  /\ \A p \in DOMAIN frames : FrameOK(loop, frames[p])

\* Every debt has one owner.
Sole(lp, ts, fr) ==
  \A p \in DOMAIN fr : fr[p].pc \in Owing =>
    /\ Debt(lp, fr[p]) \notin ts
    /\ \A q \in DOMAIN fr : fr[q].pc \in Owing /\ Debt(lp, fr[p]) = Debt(lp, fr[q]) => p = q
OneOwner == Sole(loop, tasks, frames)

\* A call has one frame of its caller, and one thread that is to wake it.
Single(fr) ==
  \A p, q \in DOMAIN fr :
    /\ fr[p].range.call = fr[q].range.call
    /\ (fr[p].caller /\ fr[q].caller) \/ (fr[p].pc = "signal" /\ fr[q].pc = "signal")
    => p = q
OneCaller == Single(frames)

(* ... and what they amount to for the calls.                              *)

\* No two debts overlap.
Apart == \A r, s \in Owed : r # s /\ r.call = s.call => Indices(r) \cap Indices(s) = {}

\* Of a call there is nothing before its caller's frame exists, nor after.
Framed == InUse \subseteq Callers /\ Callers \subseteq Calls /\ Callers \cap returned = {}

\* A call made by f is made when the block of its index starts.
MadeInTurn ==
  \A c \in Made \ Outside :
    MadeAt[c].call \in Made /\ ~ Covered(Unstarted, MadeAt[c].call, MadeAt[c].index)

\* The state of a Barrier is the number of its blocks that are outstanding, and
\* whether its caller waits.
Counted(l, ds, waits, c) ==
  2 * Cardinality(Pending(l, ds, c)) + IF c \in waits THEN 1 ELSE 0
CountRight ==
  /\ \A c \in Callers : state_[c] = Counted(loop[c], Owed, Waiters, c)
  /\ \A c \in returned : state_[c] = 1
  /\ \A c \in Calls \ Made : state_[c] = 2 * BlockCount(loop[c])

\* A caller is woken when nothing is outstanding.
SignalsOK ==
  /\ Waiters \subseteq Callers
  /\ \A c \in Wakers : c \notin notified_ /\ c \in Waiters
  /\ \A c \in Wakers \cup notified_ : Settled(Owed, c) /\ c \in Waiters \cup returned

RanRight ==
  \A c \in Calls : \A i \in 0..loop[c].n - 1 :
    ran[c][i] = IF c \in returned \/ (c \in Callers /\ ~ Covered(Unrun, c, i)) THEN 1 ELSE 0

FramesInv == Typed /\ WellFormed /\ OneOwner /\ OneCaller
CallsInv  == Apart /\ Framed /\ MadeInTurn /\ CountRight /\ SignalsOK /\ RanRight
ParInv    == FramesInv /\ CallsInv

-----------------------------------------------------------------------------
(* Arithmetic of blocks.                                                   *)

LEMMA TimesMonotone ==
  ASSUME NEW a \in Nat, NEW b \in Nat, NEW s \in Nat, a <= b
  PROVE  a * s <= b * s
<1> DEFINE d == b - a
<1>1. d \in Nat /\ b = a + d
  OBVIOUS
<1> HIDE DEF d
<1>2. (a + d) * s = a * s + d * s /\ d * s >= 0
  BY <1>1
<1> QED BY <1>1, <1>2

LEMMA TimesNext ==
  ASSUME NEW a \in Nat, NEW s \in Nat
  PROVE  a * s \in Nat /\ (a + 1) * s = a * s + s
OBVIOUS

\* divup is the least multiple that is not less.
LEMMA DivupIsLeast ==
  ASSUME NEW x \in Nat, NEW s \in Nat \ {0}
  PROVE  /\ divup(x, s) \in Nat
         /\ x <= divup(x, s) * s
         /\ x > 0 => divup(x, s) > 0 /\ (divup(x, s) - 1) * s < x
<1> DEFINE q == (x + s - 1) \div s
           e == (x + s - 1) % s
<1>1. q \in Nat /\ e \in 0..s - 1 /\ x + s - 1 = s * q + e
  OBVIOUS
<1>2. divup(x, s) = q
  BY DEF divup
<1> HIDE DEF q, e
<1>3. x <= q * s
  BY <1>1
<1>4. ASSUME x > 0 PROVE q > 0 /\ (q - 1) * s < x
  <2>1. q # 0
    BY <1>1, <1>4
  <2>2. (q - 1) * s = q * s - s
    BY <1>1, <2>1
  <2> QED BY <1>1, <1>4, <2>1, <2>2
<1> QED BY <1>1, <1>2, <1>3, <1>4

LEMMA BlocksOfLoop ==
  ASSUME NEW l \in AllLoops
  PROVE  /\ l.n \in Nat \ {0} /\ l.size \in Nat \ {0}
         /\ BlockCount(l) \in Nat \ {0}
         /\ l.n <= BlockCount(l) * l.size
         /\ (BlockCount(l) - 1) * l.size < l.n
<1>1. l.n \in Nat \ {0} /\ l.size \in Nat \ {0}
  BY DEF AllLoops
<1> QED BY <1>1, DivupIsLeast DEF BlockCount

\* Edges rise from 0 to n, and those of blocks lie before n.
LEMMA Edges ==
  ASSUME NEW l \in AllLoops,
         NEW a \in 0..BlockCount(l), NEW b \in 0..BlockCount(l), a < b
  PROVE  /\ Edge(l, a) = a * l.size /\ Edge(l, a) \in Nat /\ Edge(l, b) \in Nat
         /\ Edge(l, a) < Edge(l, b) /\ Edge(l, b) <= l.n
         /\ Edge(l, b) <= b * l.size
         /\ b < BlockCount(l) => Edge(l, b) = b * l.size
<1> DEFINE s == l.size
           n == l.n
           B == BlockCount(l)
<1>1. n \in Nat \ {0} /\ s \in Nat \ {0} /\ B \in Nat \ {0} /\ n <= B * s /\ (B - 1) * s < n
  BY BlocksOfLoop
<1>2. /\ Edge(l, a) = a * s
      /\ Edge(l, b) = IF b = B THEN n ELSE b * s
  BY <1>1 DEF Edge
<1>3. a \in Nat /\ b \in Nat /\ a <= B - 1 /\ b <= B /\ B - 1 \in Nat
  BY <1>1
<1> HIDE DEF s, n, B
<1>4. a * s \in Nat /\ b * s \in Nat /\ (a + 1) * s = a * s + s /\ (a + 1) * s <= b * s
  BY <1>1, <1>3, TimesNext, TimesMonotone
<1>5. a * s <= (B - 1) * s
  BY <1>1, <1>3, TimesMonotone
<1>6. b < B => b * s <= (B - 1) * s
  BY <1>1, <1>3, TimesMonotone
<1>7. Edge(l, a) = a * s
  BY <1>1, <1>2, <1>3
<1>8. CASE b < B
  <2>1. Edge(l, b) = b * s
    BY <1>2, <1>8
  <2> QED BY <1>1, <1>3, <1>4, <1>6, <1>7, <1>8, <2>1 DEF s, n, B
<1>9. CASE b = B
  <2>1. Edge(l, b) = n
    BY <1>2, <1>9
  <2>2. a * s < n /\ n <= b * s
    BY <1>1, <1>3, <1>4, <1>5, <1>9
  <2> QED BY <1>1, <1>3, <1>4, <1>7, <1>9, <2>1, <2>2 DEF s, n, B
<1> QED BY <1>1, <1>3, <1>8, <1>9

\* A range lies among the indices of its call, and is not empty.
LEMMA RangeBounds ==
  ASSUME NEW l \in AllLoops, NEW r, IsRange(l, r)
  PROVE  /\ r.first \in Nat /\ r.last \in Nat
         /\ r.first < r.last /\ r.last <= l.n
         /\ \E k \in 0..BlockCount(l) - 1 : k * l.size = r.first
<1>1. PICK a \in 0..BlockCount(l), b \in 0..BlockCount(l) :
           a < b /\ r.first = Edge(l, a) /\ r.last = Edge(l, b)
  BY DEF IsRange
<1>2. a \in 0..BlockCount(l) - 1
  BY <1>1, BlocksOfLoop
<1> QED BY <1>1, <1>2, Edges

\* The range of a block has the start of that block alone.
LEMMA BlockHasOneStart ==
  ASSUME NEW l \in AllLoops, NEW r, IsRange(l, r), ShortRange(l, r)
  PROVE  \E a \in 0..BlockCount(l) - 1 :
           \A k \in 0..BlockCount(l) - 1 : k * l.size \in Indices(r) <=> k = a
<1> DEFINE s == l.size
           B == BlockCount(l)
<1>1. /\ r.first \in Nat /\ r.last \in Nat
      /\ r.first < r.last /\ r.last - r.first <= s
  BY RangeBounds DEF ShortRange
<1>2. PICK a \in 0..B - 1 : a * s = r.first
  BY RangeBounds
<1>3. s \in Nat \ {0} /\ B \in Nat \ {0}
  BY BlocksOfLoop
<1> HIDE DEF s, B
<1>4. ASSUME NEW k \in 0..B - 1 PROVE k * s \in Indices(r) <=> k = a
  <2>1. k \in Nat /\ a \in Nat /\ k * s \in Nat /\ a * s \in Nat
    BY <1>3, TimesNext
  <2>2. CASE k < a
    <3>1. (k + 1) * s <= a * s /\ (k + 1) * s = k * s + s
      BY <1>3, <2>1, <2>2, TimesMonotone, TimesNext
    <3> QED BY <1>1, <1>2, <1>3, <2>1, <2>2, <3>1 DEF Indices
  <2>3. CASE a < k
    <3>1. (a + 1) * s <= k * s /\ (a + 1) * s = a * s + s
      BY <1>3, <2>1, <2>3, TimesMonotone, TimesNext
    <3> QED BY <1>1, <1>2, <1>3, <2>1, <2>3, <3>1 DEF Indices
  <2>4. CASE k = a
    BY <1>1, <1>2, <2>1, <2>4 DEF Indices
  <2> QED BY <2>1, <2>2, <2>3, <2>4
<1> QED BY <1>4 DEF s, B

\* The middle of a longer range is an edge inside it.
LEMMA MidInside ==
  ASSUME NEW l \in AllLoops, NEW r, IsRange(l, r), ~ ShortRange(l, r)
  PROVE  /\ MidOf(l, r) \in Nat /\ r.first < MidOf(l, r) /\ MidOf(l, r) < r.last
         /\ \A c : /\ IsRange(l, RangeOf(c, r.first, MidOf(l, r)))
                   /\ IsRange(l, RangeOf(c, MidOf(l, r), r.last))
<1>1. PICK a \in 0..BlockCount(l), b \in 0..BlockCount(l) :
           a < b /\ r.first = Edge(l, a) /\ r.last = Edge(l, b)
  BY DEF IsRange
<1> DEFINE s == l.size
           half == (r.last - r.first) \div 2
           m == divup(half, s)
<1>4. s \in Nat \ {0} /\ a \in Nat /\ b \in Nat /\ BlockCount(l) \in Nat
  BY BlocksOfLoop
<1>5. /\ r.first = a * s /\ r.first \in Nat /\ r.last \in Nat
      /\ r.first < r.last /\ r.last <= b * s
  BY <1>1, Edges
<1>6. r.last - r.first > s
  BY <1>4, <1>5 DEF ShortRange
<1>7. half \in Nat /\ half > 0 /\ 2 * half <= r.last - r.first
  BY <1>4, <1>5, <1>6
<1> HIDE DEF half, s
<1>8. m \in Nat /\ m > 0 /\ half <= m * s /\ (m - 1) * s < half
  BY <1>4, <1>7, DivupIsLeast
<1> HIDE DEF m
<1>9. MidOf(l, r) = (a + m) * s
  <2>1. MidOf(l, r) = a * s + m * s
    BY <1>5 DEF MidOf, half, s, m
  <2> QED BY <1>4, <1>8, <2>1
<1>10. a + m < b
  <2> SUFFICES ASSUME b <= a + m PROVE FALSE
    BY <1>4, <1>8
  <2>1. a < b - 1
    <3> SUFFICES ASSUME b <= a + 1 PROVE FALSE
      BY <1>1, <1>4
    <3>1. b * s <= (a + 1) * s /\ (a + 1) * s = a * s + s
      BY <1>4, TimesMonotone, TimesNext
    <3> QED BY <1>4, <1>5, <1>6, <3>1
  <2>2. PICK d \in Nat : b = a + 1 + d /\ d >= 1
    <3>1. b - a - 1 \in Nat /\ b = a + 1 + (b - a - 1) /\ b - a - 1 >= 1
      BY <1>4, <2>1
    <3> QED BY <3>1
  <2>3. d * s <= (m - 1) * s
    <3>1. d <= m - 1 /\ m - 1 \in Nat
      BY <1>4, <1>8, <2>2
    <3> QED BY <1>4, <3>1, TimesMonotone
  <2>4. b * s = a * s + s + d * s
    BY <1>4, <2>2
  <2>5. s <= d * s
    <3>1. 1 * s <= d * s
      BY <1>4, <2>2, TimesMonotone
    <3> QED BY <1>4, <3>1
  <2>6. d * s \in Nat /\ b * s \in Nat /\ a * s \in Nat /\ (m - 1) * s \in Int
    BY <1>4, <1>8, <2>2
  <2> QED BY <1>4, <1>5, <1>7, <1>8, <2>3, <2>4, <2>5, <2>6
<1>11. /\ a + m \in 0..BlockCount(l) /\ a < a + m
       /\ Edge(l, a + m) = MidOf(l, r)
  <2>1. a + m \in 0..BlockCount(l) /\ a < a + m /\ a + m < BlockCount(l)
    BY <1>4, <1>8, <1>10
  <2> QED BY <1>9, <2>1, Edges DEF s
<1>12. /\ Edge(l, a) < Edge(l, a + m) /\ Edge(l, a + m) < Edge(l, b) /\ Edge(l, a + m) \in Nat
  BY <1>10, <1>11, Edges
<1>13. ASSUME NEW c
       PROVE  /\ IsRange(l, RangeOf(c, Edge(l, a), Edge(l, a + m)))
              /\ IsRange(l, RangeOf(c, Edge(l, a + m), Edge(l, b)))
  BY <1>10, <1>11 DEF IsRange, RangeOf
<1> QED BY <1>1, <1>11, <1>12, <1>13

\* The whole of a loop is a range, with the start of every block.
LEMMA WholeRange ==
  ASSUME NEW l \in AllLoops, NEW c
  PROVE  /\ IsRange(l, RangeOf(c, 0, l.n))
         /\ \A k \in 0..BlockCount(l) - 1 : k * l.size \in 0..l.n - 1
<1>1. BlockCount(l) \in Nat \ {0} /\ l.n \in Nat /\ l.size \in Nat
  BY BlocksOfLoop
<1>2. Edge(l, 0) = 0 /\ Edge(l, BlockCount(l)) = l.n /\ 0 < BlockCount(l)
  BY <1>1 DEF Edge
<1>3. IsRange(l, RangeOf(c, 0, l.n))
  BY <1>1, <1>2 DEF IsRange, RangeOf
<1>4. ASSUME NEW k \in 0..BlockCount(l) - 1 PROVE k * l.size \in 0..l.n - 1
  <2>1. /\ k \in 0..BlockCount(l) /\ BlockCount(l) \in 0..BlockCount(l) /\ k < BlockCount(l)
    BY <1>1
  <2> QED BY <1>1, <1>2, <2>1, Edges
<1> QED BY <1>3, <1>4

-----------------------------------------------------------------------------
(* Steps on a stack, seen by place.                                        *)

LEMMA PlaceIs ==
  ASSUME NEW st
  PROVE  \A p : p \in Places(st) <=> \E t \in AllThreads : \E d \in 1..Len(st[t]) : p = <<t, d>>
BY DEF Places

LEMMA FrameIs ==
  ASSUME NEW st
  PROVE  /\ DOMAIN FramesIn(st) = Places(st)
         /\ FramesIn(st) = [p \in DOMAIN FramesIn(st) |-> FramesIn(st)[p]]
         /\ \A t \in AllThreads : \A d \in 1..Len(st[t]) :
              FramesIn(st)[<<t, d>>] = st[t][Len(st[t]) + 1 - d]
<1>1. DOMAIN FramesIn(st) = Places(st) /\ FramesIn(st) = [p \in DOMAIN FramesIn(st) |-> FramesIn(st)[p]]
  BY DEF FramesIn
<1>2. ASSUME NEW t \in AllThreads, NEW d \in 1..Len(st[t])
      PROVE  FramesIn(st)[<<t, d>>] = st[t][Len(st[t]) + 1 - d]
  <2>1. <<t, d>> \in Places(st)
    BY PlaceIs
  <2> QED BY <2>1 DEF FramesIn
<1> QED BY <1>1, <1>2

\* The frame of t at depth d is the k-th of its st from the innermost one.
LEMMA TopIsPlace ==
  ASSUME NEW st, NEW st2, st \in [AllThreads -> Seq(AllFrames)], NEW t \in AllThreads, st[t] # <<>>
  PROVE  /\ TopPlace(st, t) \in DOMAIN FramesIn(st) /\ FramesIn(st)[TopPlace(st, t)] = Head(st[t])
         /\ Head(st[t]) \in AllFrames /\ Tail(st[t]) \in Seq(AllFrames)
         /\ Len(st[t]) \in Nat \ {0} /\ Len(Tail(st[t])) = Len(st[t]) - 1
<1>1. st[t] \in Seq(AllFrames) /\ st[t] # <<>>
  OBVIOUS
<1>2. Len(st[t]) \in Nat \ {0}
  BY <1>1
<1>3. TopPlace(st, t) \in DOMAIN FramesIn(st) /\ FramesIn(st)[TopPlace(st, t)] = st[t][1]
  <2>1. Len(st[t]) \in 1..Len(st[t]) /\ Len(st[t]) + 1 - Len(st[t]) = 1
    BY <1>2
  <2> QED BY <2>1, PlaceIs, FrameIs DEF TopPlace
<1>4. Head(st[t]) = st[t][1] /\ Head(st[t]) \in AllFrames
  BY <1>1 DEF Top
<1> QED BY <1>1, <1>2, <1>3, <1>4

LEMMA FramesTyped ==
  ASSUME NEW st, NEW st2, st \in [AllThreads -> Seq(AllFrames)]
  PROVE  FramesIn(st) \in [DOMAIN FramesIn(st) -> AllFrames]
<1> SUFFICES ASSUME NEW p \in DOMAIN FramesIn(st) PROVE FramesIn(st)[p] \in AllFrames
  BY FrameIs
<1>1. PICK t \in AllThreads : \E d \in 1..Len(st[t]) : p = <<t, d>>
  BY PlaceIs, FrameIs
<1>2. PICK d \in 1..Len(st[t]) : p = <<t, d>>
  BY <1>1
<1>3. st[t] \in Seq(AllFrames) /\ Len(st[t]) + 1 - d \in 1..Len(st[t])
  OBVIOUS
<1> QED BY <1>2, <1>3, FrameIs

LEMMA ConcatParts ==
  ASSUME NEW S, NEW a \in Seq(S), NEW b \in Seq(S)
  PROVE  /\ Len(a \o b) = Len(a) + Len(b)
         /\ \A i \in 1..Len(a) + Len(b) :
              (a \o b)[i] = IF i <= Len(a) THEN a[i] ELSE b[i - Len(a)]
OBVIOUS

\* The frames s take the place of the innermost one of t.
Becomes(st, st2, t, s) == st2 = [st EXCEPT ![t] = s \o Tail(st[t])]

Replaces(st, st2, t, s) ==
  /\ st2 \in [AllThreads -> Seq(AllFrames)]
  /\ \A p : p \in DOMAIN FramesIn(st2) <=>
       \/ p \in DOMAIN FramesIn(st) \ {TopPlace(st, t)}
       \/ \E d \in Len(st[t])..Len(st[t]) + Len(s) - 1 : p = <<t, d>>
  /\ \A p \in DOMAIN FramesIn(st) \ {TopPlace(st, t)} : FramesIn(st2)[p] = FramesIn(st)[p]
  /\ \A d \in Len(st[t])..Len(st[t]) + Len(s) - 1 :
       FramesIn(st2)[<<t, d>>] = s[Len(st[t]) + Len(s) - d]

LEMMA StackStep ==
  ASSUME NEW st, NEW st2, st \in [AllThreads -> Seq(AllFrames)], NEW t \in AllThreads,
         st[t] # <<>>, NEW s \in Seq(AllFrames), Becomes(st, st2, t, s)
  PROVE  Replaces(st, st2, t, s)
<1> DEFINE n == Len(st[t])
           k == Len(s)
           tl == Tail(st[t])
<1>1. /\ n \in Nat \ {0} /\ n = Len(st[t])
      /\ Len(tl) = n - 1 /\ tl \in Seq(AllFrames) /\ k \in Nat
  BY TopIsPlace
<1>2. /\ st2[t] = s \o tl /\ \A u \in AllThreads \ {t} : st2[u] = st[u]
      /\ st2 \in [AllThreads -> Seq(AllFrames)]
  BY <1>1 DEF Becomes
<1>3. Len(st2[t]) = k + (n - 1)
  BY <1>1, <1>2, ConcatParts
<1>4. \A i \in 1..k + (n - 1) : st2[t][i] = IF i <= k THEN s[i] ELSE tl[i - k]
  BY <1>1, <1>2, ConcatParts
<1>5. \A i \in 1..n - 1 : tl[i] = st[t][i + 1]
  BY <1>1
<1> HIDE DEF n, k, tl
<1>6. ASSUME NEW p
      PROVE  p \in DOMAIN FramesIn(st2) <=> \/ p \in DOMAIN FramesIn(st) \ {<<t, n>>}
                                      \/ \E d \in n..n + k - 1 : p = <<t, d>>
  <2>1. p \in DOMAIN FramesIn(st2) <=> \E u \in AllThreads : \E d \in 1..Len(st2[u]) : p = <<u, d>>
    BY PlaceIs, FrameIs
  <2>2. p \in DOMAIN FramesIn(st) <=> \E u \in AllThreads : \E d \in 1..Len(st[u]) : p = <<u, d>>
    BY PlaceIs, FrameIs
  <2>3. ASSUME p \in DOMAIN FramesIn(st2)
        PROVE  p \in DOMAIN FramesIn(st) \ {<<t, n>>} \/ \E d \in n..n + k - 1 : p = <<t, d>>
    <3>1. PICK u \in AllThreads : \E d \in 1..Len(st2[u]) : p = <<u, d>>
      BY <2>1, <2>3
    <3>2. PICK d \in 1..Len(st2[u]) : p = <<u, d>>
      BY <3>1
    <3>3. CASE u = t
      <4>1. d \in 1..k + (n - 1)
        BY <1>3, <3>2, <3>3
      <4>2. CASE d < n
        <5>1. d \in 1..Len(st[t]) /\ d # n
          BY <1>1, <4>1, <4>2
        <5> QED BY <2>2, <3>2, <3>3, <5>1
      <4>3. CASE ~ d < n
        <5>1. d \in n..n + k - 1
          BY <1>1, <4>1, <4>3
        <5> QED BY <3>2, <3>3, <5>1
      <4> QED BY <4>2, <4>3
    <3>4. CASE u # t
      BY <1>2, <2>2, <3>2, <3>4
    <3> QED BY <3>3, <3>4
  <2>4. ASSUME p \in DOMAIN FramesIn(st) \ {<<t, n>>} PROVE p \in DOMAIN FramesIn(st2)
    <3>1. PICK u \in AllThreads : \E d \in 1..Len(st[u]) : p = <<u, d>>
      BY <2>2, <2>4
    <3>2. PICK d \in 1..Len(st[u]) : p = <<u, d>>
      BY <3>1
    <3>3. CASE u = t
      <4>1. d # n
        BY <2>4, <3>2, <3>3
      <4>2. d \in 1..Len(st2[t])
        BY <1>1, <1>3, <3>2, <3>3, <4>1
      <4> QED BY <2>1, <3>2, <3>3, <4>2
    <3>4. CASE u # t
      BY <1>2, <2>1, <3>2, <3>4
    <3> QED BY <3>3, <3>4
  <2>5. ASSUME NEW d \in n..n + k - 1, p = <<t, d>> PROVE p \in DOMAIN FramesIn(st2)
    <3>1. d \in 1..Len(st2[t])
      BY <1>1, <1>3
    <3> QED BY <2>1, <2>5, <3>1
  <2> QED BY <2>3, <2>4, <2>5
<1>7. ASSUME NEW p \in DOMAIN FramesIn(st) \ {<<t, n>>} PROVE FramesIn(st2)[p] = FramesIn(st)[p]
  <2>1. PICK u \in AllThreads : \E d \in 1..Len(st[u]) : p = <<u, d>>
    BY PlaceIs, FrameIs
  <2>2. PICK d \in 1..Len(st[u]) : p = <<u, d>>
    BY <2>1
  <2>3. CASE u = t
    <3>1. d # n
      BY <1>7, <2>2, <2>3
    <3>2. /\ d \in 1..n - 1 /\ d \in 1..Len(st[t]) /\ d \in 1..Len(st2[t])
          /\ Len(st2[t]) + 1 - d = n + k - d
      BY <1>1, <1>3, <2>2, <2>3, <3>1
    <3>3. /\ n + k - d \in 1..k + (n - 1) /\ ~ n + k - d <= k
          /\ n - d \in 1..n - 1 /\ n + k - d - k = n - d /\ n - d + 1 = n + 1 - d
      BY <1>1, <3>2
    <3>4. FramesIn(st2)[p] = st2[t][n + k - d]
      BY <2>2, <2>3, <3>2, FrameIs
    <3>5. FramesIn(st)[p] = st[t][n + 1 - d]
      BY <1>1, <2>2, <2>3, <3>2, FrameIs
    <3>6. st2[t][n + k - d] = tl[n - d]
      <4> DEFINE i == n + k - d
      <4>1. i \in 1..k + (n - 1) /\ ~ i <= k /\ i - k = n - d
        BY <1>1, <3>2, <3>3 DEF i
      <4> HIDE DEF i
      <4>2. st2[t][i] = tl[i - k]
        BY <1>4, <4>1
      <4> QED BY <4>1, <4>2 DEF i
    <3> QED BY <1>5, <3>3, <3>4, <3>5, <3>6
  <2>4. CASE u # t
    <3>1. st2[u] = st[u]
      BY <1>2, <2>4
    <3> QED BY <2>2, <3>1, FrameIs
  <2> QED BY <2>3, <2>4
<1>8. ASSUME NEW d \in n..n + k - 1 PROVE FramesIn(st2)[<<t, d>>] = s[n + k - d]
  <2>1. d \in 1..Len(st2[t]) /\ Len(st2[t]) + 1 - d = n + k - d
    BY <1>1, <1>3
  <2>2. FramesIn(st2)[<<t, d>>] = st2[t][n + k - d]
    BY <2>1, FrameIs
  <2>3. n + k - d \in 1..k + (n - 1) /\ n + k - d <= k
    BY <1>1
  <2> QED BY <1>4, <2>2, <2>3
<1> QED BY <1>2, <1>6, <1>7, <1>8 DEF n, k, TopPlace, Replaces

\* fr with the frame at p replaced, taken away, or with another inside it.
Replace(fr, p, f) == [fr EXCEPT ![p] = f]
Remove(fr, p)     == [q \in DOMAIN fr \ {p} |-> fr[q]]
Add(fr, q, f)     == [r \in DOMAIN fr \cup {q} |-> IF r = q THEN f ELSE fr[r]]

LEMMA ReplaceStep ==
  ASSUME NEW st, NEW st2, st \in [AllThreads -> Seq(AllFrames)], NEW t \in AllThreads, st[t] # <<>>,
         NEW f \in AllFrames, Becomes(st, st2, t, <<f>>)
  PROVE  /\ FramesIn(st2) = Replace(FramesIn(st), TopPlace(st, t), f)
         /\ st2 \in [AllThreads -> Seq(AllFrames)]
<1> DEFINE s == <<f>>
           n == Len(st[t])
           p == TopPlace(st, t)
<1>1. n \in Nat \ {0} /\ n = Len(st[t])
  BY TopIsPlace
<1>2. p = <<t, n>> /\ p \in DOMAIN FramesIn(st)
  BY TopIsPlace DEF TopPlace
<1>3. s \in Seq(AllFrames) /\ Len(s) = 1 /\ s[1] = f
  OBVIOUS
<1>a. Becomes(st, st2, t, s)
  OBVIOUS
<1> HIDE DEF s
<1>4. /\ st2 \in [AllThreads -> Seq(AllFrames)]
      /\ \A q : q \in DOMAIN FramesIn(st2) <=>
           q \in DOMAIN FramesIn(st) \ {p} \/ \E d \in n..n + Len(s) - 1 : q = <<t, d>>
      /\ \A q \in DOMAIN FramesIn(st) \ {p} : FramesIn(st2)[q] = FramesIn(st)[q]
      /\ \A d \in n..n + Len(s) - 1 : FramesIn(st2)[<<t, d>>] = s[n + Len(s) - d]
  <2>1. Replaces(st, st2, t, s)
    BY <1>1, <1>3, <1>a, StackStep
  <2> QED BY <2>1, <1>2, <1>1 DEF Replaces, TopPlace
<1> HIDE DEF n, p
<1>5. \A d : d \in n..n + Len(s) - 1 <=> d = n
  BY <1>1, <1>3
<1>6. DOMAIN FramesIn(st2) = DOMAIN FramesIn(st)
  <2>1. \A q : (\E d \in n..n + Len(s) - 1 : q = <<t, d>>) <=> q = p
    BY <1>2, <1>5
  <2>2. \A q : q \in DOMAIN FramesIn(st2) <=> q \in DOMAIN FramesIn(st) \ {p} \/ q = p
    BY <1>4, <2>1
  <2> QED BY <1>2, <2>2
<1>7. FramesIn(st2)[p] = f
  <2>1. n + Len(s) - n = 1 /\ n \in n..n + Len(s) - 1
    BY <1>1, <1>3
  <2>2. FramesIn(st2)[<<t, n>>] = s[n + Len(s) - n]
    BY <1>4, <2>1
  <2> QED BY <1>2, <1>3, <2>1, <2>2
<1>8. FramesIn(st2) = [FramesIn(st) EXCEPT ![p] = f]
  BY <1>4, <1>6, <1>7, FrameIs
<1> QED BY <1>4, <1>8 DEF Replace, p

LEMMA PopStep ==
  ASSUME NEW st, NEW st2, st \in [AllThreads -> Seq(AllFrames)], NEW t \in AllThreads, st[t] # <<>>,
         Becomes(st, st2, t, <<>>)
  PROVE  /\ FramesIn(st2) = Remove(FramesIn(st), TopPlace(st, t))
         /\ st2 \in [AllThreads -> Seq(AllFrames)]
<1> DEFINE n == Len(st[t])
           p == TopPlace(st, t)
<1>1. n \in Nat \ {0} /\ n = Len(st[t])
  BY TopIsPlace
<1>2. p = <<t, n>> /\ p \in DOMAIN FramesIn(st)
  BY TopIsPlace DEF TopPlace
<1>3. <<>> \in Seq(AllFrames) /\ Len(<<>>) = 0
  OBVIOUS
<1>4. /\ st2 \in [AllThreads -> Seq(AllFrames)]
      /\ \A q : q \in DOMAIN FramesIn(st2) <=>
           q \in DOMAIN FramesIn(st) \ {p} \/ \E d \in n..n + Len(<<>>) - 1 : q = <<t, d>>
      /\ \A q \in DOMAIN FramesIn(st) \ {p} : FramesIn(st2)[q] = FramesIn(st)[q]
  <2>1. Replaces(st, st2, t, <<>>)
    BY <1>1, <1>3, StackStep
  <2> QED BY <2>1, <1>2, <1>1 DEF Replaces, TopPlace
<1> HIDE DEF n, p
<1>5. \A d : d \notin n..n + Len(<<>>) - 1
  BY <1>1, <1>3
<1>6. DOMAIN FramesIn(st2) = DOMAIN FramesIn(st) \ {p}
  BY <1>4, <1>5
<1>7. FramesIn(st2) = [q \in DOMAIN FramesIn(st) \ {p} |-> FramesIn(st)[q]]
  BY <1>4, <1>6, FrameIs
<1> QED BY <1>4, <1>7 DEF Remove, p

Pushed(st, st2, t, f, g) ==
  /\ \E q : /\ q \notin DOMAIN FramesIn(st)
            /\ FramesIn(st2) = Add(Replace(FramesIn(st), TopPlace(st, t), f), q, g)
  /\ st2 \in [AllThreads -> Seq(AllFrames)]

LEMMA PushStep ==
  ASSUME NEW st, NEW st2, NEW t \in AllThreads, NEW f \in AllFrames, NEW g \in AllFrames,
         st \in [AllThreads -> Seq(AllFrames)], st[t] # <<>>, Becomes(st, st2, t, <<g, f>>)
  PROVE  Pushed(st, st2, t, f, g)
<1> DEFINE s == <<g, f>>
           n == Len(st[t])
           p == TopPlace(st, t)
           q == <<t, n + 1>>
<1>1. n \in Nat \ {0} /\ n = Len(st[t])
  BY TopIsPlace
<1>2. p = <<t, n>> /\ p \in DOMAIN FramesIn(st)
  BY TopIsPlace DEF TopPlace
<1>3. /\ s \in Seq(AllFrames) /\ Len(s) = 2
      /\ s[1] = g /\ s[2] = f
  OBVIOUS
<1>a. Becomes(st, st2, t, s)
  OBVIOUS
<1> HIDE DEF s
<1>4. /\ st2 \in [AllThreads -> Seq(AllFrames)]
      /\ \A r : r \in DOMAIN FramesIn(st2) <=>
           r \in DOMAIN FramesIn(st) \ {p} \/ \E d \in n..n + Len(s) - 1 : r = <<t, d>>
      /\ \A r \in DOMAIN FramesIn(st) \ {p} : FramesIn(st2)[r] = FramesIn(st)[r]
      /\ \A d \in n..n + Len(s) - 1 : FramesIn(st2)[<<t, d>>] = s[n + Len(s) - d]
  <2>1. Replaces(st, st2, t, s)
    BY <1>1, <1>3, <1>a, StackStep
  <2> QED BY <2>1, <1>2, <1>1 DEF Replaces, TopPlace
<1> HIDE DEF n, p
<1>5. \A d : d \in n..n + Len(s) - 1 <=> d = n \/ d = n + 1
  BY <1>1, <1>3
<1>6. DOMAIN FramesIn(st2) = DOMAIN FramesIn(st) \cup {q}
  <2>1. \A r : (\E d \in n..n + Len(s) - 1 : r = <<t, d>>) <=> r = p \/ r = q
    BY <1>2, <1>5
  <2>2. \A r : r \in DOMAIN FramesIn(st2) <=> r \in DOMAIN FramesIn(st) \ {p} \/ r = p \/ r = q
    BY <1>4, <2>1
  <2> QED BY <1>2, <2>2
<1>7. FramesIn(st2)[p] = f /\ FramesIn(st2)[q] = g
  <2>1. /\ n + Len(s) - n = 2 /\ n + Len(s) - (n + 1) = 1
        /\ n \in n..n + Len(s) - 1 /\ n + 1 \in n..n + Len(s) - 1
    BY <1>1, <1>3
  <2>2. FramesIn(st2)[<<t, n>>] = s[n + Len(s) - n] /\ FramesIn(st2)[<<t, n + 1>>] = s[n + Len(s) - (n + 1)]
    BY <1>4, <2>1
  <2> QED BY <1>2, <1>3, <2>1, <2>2
<1>8. q \notin DOMAIN FramesIn(st)
  <2>1. n + 1 \notin 1..Len(st[t])
    BY <1>1
  <2> QED BY <2>1, PlaceIs, FrameIs DEF n
<1> HIDE DEF q
<1>9. FramesIn(st2) = [r \in DOMAIN [FramesIn(st) EXCEPT ![p] = f] \cup {q} |->
                   IF r = q THEN g ELSE [FramesIn(st) EXCEPT ![p] = f][r]]
  <2>1. p # q
    BY <1>2, <1>8
  <2> QED BY <1>4, <1>6, <1>7, <2>1, FrameIs
<1> QED BY <1>4, <1>8, <1>9 DEF Replace, Add, Pushed, p, q

Enters(st, st2, t, f) == st2 = [st EXCEPT ![t] = <<f>>]

LEMMA EnterStep ==
  ASSUME NEW st, NEW st2, st \in [AllThreads -> Seq(AllFrames)], NEW t \in AllThreads,
         st[t] = <<>>, NEW f \in AllFrames, Enters(st, st2, t, f)
  PROVE  /\ \E q : q \notin DOMAIN FramesIn(st) /\ FramesIn(st2) = Add(FramesIn(st), q, f)
         /\ st2 \in [AllThreads -> Seq(AllFrames)]
<1> DEFINE q == <<t, 1>>
<1>1. /\ st[t] = <<>> /\ st2[t] = <<f>> /\ \A u \in AllThreads \ {t} : st2[u] = st[u]
      /\ st2 \in [AllThreads -> Seq(AllFrames)]
  BY DEF Enters
<1>2. \A r : r \in DOMAIN FramesIn(st) <=>
               \E u \in AllThreads \ {t} : \E d \in 1..Len(st[u]) : r = <<u, d>>
  <2>1. \A d : d \notin 1..Len(st[t])
    BY <1>1
  <2> QED BY <2>1, PlaceIs, FrameIs
<1>3. \A d : d \in 1..Len(st2[t]) <=> d = 1
  BY <1>1
<1>4. DOMAIN FramesIn(st2) = DOMAIN FramesIn(st) \cup {q}
  <2>1. \A r : r \in DOMAIN FramesIn(st2) <=>
                 \E u \in AllThreads : \E d \in 1..Len(st2[u]) : r = <<u, d>>
    <3>1. DOMAIN FramesIn(st2) = Places(st2)
      BY FrameIs
    <3> QED BY <3>1, PlaceIs
  <2>2. ASSUME NEW r, NEW u \in AllThreads, NEW d \in 1..Len(st2[u]), r = <<u, d>>
        PROVE  r \in DOMAIN FramesIn(st) \/ r = q
    <3>1. CASE u = t
      BY <1>3, <2>2, <3>1
    <3>2. CASE u # t
      BY <1>1, <1>2, <2>2, <3>2
    <3> QED BY <3>1, <3>2
  <2>3. ASSUME NEW r \in DOMAIN FramesIn(st) PROVE r \in DOMAIN FramesIn(st2)
    BY <1>1, <1>2, <2>1
  <2>4. q \in DOMAIN FramesIn(st2)
    BY <1>3, <2>1
  <2>5. ASSUME NEW r \in DOMAIN FramesIn(st2) PROVE r \in DOMAIN FramesIn(st) \cup {q}
    BY <2>1, <2>2
  <2> QED BY <2>3, <2>4, <2>5
<1>5. FramesIn(st2)[q] = f
  <2>1. Len(st2[t]) + 1 - 1 = 1 /\ st2[t][1] = f
    BY <1>1
  <2>2. 1 \in 1..Len(st2[t])
    BY <1>1
  <2>3. FramesIn(st2)[q] = st2[t][Len(st2[t]) + 1 - 1]
    BY <2>2, FrameIs
  <2> QED BY <2>1, <2>3
<1>6. \A r \in DOMAIN FramesIn(st) : FramesIn(st2)[r] = FramesIn(st)[r]
  <2> SUFFICES ASSUME NEW r \in DOMAIN FramesIn(st) PROVE FramesIn(st2)[r] = FramesIn(st)[r]
    OBVIOUS
  <2>1. PICK u \in AllThreads \ {t} : \E d \in 1..Len(st[u]) : r = <<u, d>>
    BY <1>2
  <2>2. PICK d \in 1..Len(st[u]) : r = <<u, d>>
    BY <2>1
  <2>3. st2[u] = st[u]
    BY <1>1
  <2>4. FramesIn(st)[r] = st[u][Len(st[u]) + 1 - d]
    BY <2>2, FrameIs
  <2>5. FramesIn(st2)[r] = st2[u][Len(st2[u]) + 1 - d]
    BY <2>2, <2>3, FrameIs
  <2> QED BY <2>3, <2>4, <2>5
<1>7. q \notin DOMAIN FramesIn(st)
  BY <1>2
<1> HIDE DEF q
<1>8. FramesIn(st2) = [r \in DOMAIN FramesIn(st) \cup {q} |-> IF r = q THEN f ELSE FramesIn(st)[r]]
  BY <1>4, <1>5, <1>6, <1>7, FrameIs
<1> QED BY <1>1, <1>7, <1>8 DEF Add

-----------------------------------------------------------------------------
(* What a change of one frame does to the calls and to the debts.          *)

IsFrames(fr) == fr \in [DOMAIN fr -> AllFrames]
Moved(f, pc) == [f EXCEPT !.pc = pc]

LEMMA ReplaceIs ==
  ASSUME NEW fr, IsFrames(fr), NEW p \in DOMAIN fr, NEW f
  PROVE  /\ DOMAIN Replace(fr, p, f) = DOMAIN fr /\ Replace(fr, p, f)[p] = f
         /\ \A q \in DOMAIN fr \ {p} : Replace(fr, p, f)[q] = fr[q]
         /\ f \in AllFrames => IsFrames(Replace(fr, p, f))
BY DEF Replace, IsFrames

LEMMA RemoveIs ==
  ASSUME NEW fr, IsFrames(fr), NEW p
  PROVE  /\ DOMAIN Remove(fr, p) = DOMAIN fr \ {p}
         /\ \A q \in DOMAIN fr \ {p} : Remove(fr, p)[q] = fr[q]
         /\ IsFrames(Remove(fr, p))
BY DEF Remove, IsFrames

LEMMA MovedIs ==
  ASSUME NEW f \in AllFrames, NEW pc \in Owing \cup Waiting \cup {"signal", "wait"}
  PROVE  /\ Moved(f, pc) \in AllFrames /\ Moved(f, pc).pc = pc
         /\ Moved(f, pc).range = f.range /\ Moved(f, pc).caller = f.caller
BY DEF AllFrames, Moved

LEMMA PcSets ==
  /\ Early = {"range", "lower"} /\ Undone = {"range", "lower", "body"}
  /\ Owing = {"range", "lower", "body", "notify"} /\ Waiting = {"check", "asleep"}
BY DEF Early, Undone, Owing, Waiting

\* A frame goes on at pc.
LEMMA MoveView ==
  ASSUME NEW fr, IsFrames(fr), NEW p \in DOMAIN fr,
         NEW pc \in Owing \cup Waiting \cup {"signal", "wait"},
         NEW fr2, fr2 = Replace(fr, p, Moved(fr[p], pc)), NEW c, c = fr[p].range.call
  PROVE  /\ IsFrames(fr2) /\ CallersIn(fr2) = CallersIn(fr)
         /\ \A ts : UsersIn(ts, fr2) = UsersIn(ts, fr)
         /\ (fr[p].pc \in Waiting <=> pc \in Waiting) => WaitersIn(fr2) = WaitersIn(fr)
         /\ pc \in Waiting /\ fr[p].pc \notin Waiting => WaitersIn(fr2) = WaitersIn(fr) \cup {c}
         /\ (fr[p].pc = "signal" <=> pc = "signal") => WakersIn(fr2) = WakersIn(fr)
         /\ pc = "signal" /\ fr[p].pc # "signal" => WakersIn(fr2) = WakersIn(fr) \cup {c}
         /\ pc # "signal" /\ fr[p].pc = "signal" /\ Single(fr) => WakersIn(fr2) = WakersIn(fr) \ {c}
<1>1. fr[p] \in AllFrames
  BY DEF IsFrames
<1>2. /\ IsFrames(fr2) /\ DOMAIN fr2 = DOMAIN fr
      /\ fr2[p].pc = pc /\ fr2[p].range = fr[p].range /\ fr2[p].caller = fr[p].caller
      /\ \A q \in DOMAIN fr \ {p} : fr2[q] = fr[q]
  BY <1>1, MovedIs, ReplaceIs
<1>3. CallersIn(fr2) = CallersIn(fr)
  BY <1>2 DEF CallersIn
<1>4. ASSUME NEW ts PROVE UsersIn(ts, fr2) = UsersIn(ts, fr)
  BY <1>2 DEF UsersIn
<1>5. (fr[p].pc \in Waiting <=> pc \in Waiting) => WaitersIn(fr2) = WaitersIn(fr)
  BY <1>2 DEF WaitersIn
<1>6. pc \in Waiting /\ fr[p].pc \notin Waiting => WaitersIn(fr2) = WaitersIn(fr) \cup {c}
  BY <1>2 DEF WaitersIn
<1>7. (fr[p].pc = "signal" <=> pc = "signal") => WakersIn(fr2) = WakersIn(fr)
  BY <1>2 DEF WakersIn
<1>8. pc = "signal" /\ fr[p].pc # "signal" => WakersIn(fr2) = WakersIn(fr) \cup {c}
  BY <1>2 DEF WakersIn
<1>9. pc # "signal" /\ fr[p].pc = "signal" /\ Single(fr) => WakersIn(fr2) = WakersIn(fr) \ {c}
  BY <1>2 DEF WakersIn, Single
<1> QED BY <1>2, <1>3, <1>4, <1>5, <1>6, <1>7, <1>8, <1>9

\* A frame ends.
LEMMA RemoveView ==
  ASSUME NEW fr, IsFrames(fr), NEW p \in DOMAIN fr,
         NEW fr2, fr2 = Remove(fr, p), NEW c, c = fr[p].range.call
  PROVE  /\ IsFrames(fr2)
         /\ \A ts : UsersIn(ts, fr2) \subseteq UsersIn(ts, fr)
         /\ ~ fr[p].caller => CallersIn(fr2) = CallersIn(fr)
         /\ fr[p].caller /\ Single(fr) => CallersIn(fr2) = CallersIn(fr) \ {c}
         /\ fr[p].pc \notin Waiting => WaitersIn(fr2) = WaitersIn(fr)
         /\ /\ fr[p].pc \in Waiting /\ Single(fr)
            /\ \A q \in DOMAIN fr : fr[q].pc \in Waiting => fr[q].caller
            => WaitersIn(fr2) = WaitersIn(fr) \ {c}
         /\ fr[p].pc # "signal" => WakersIn(fr2) = WakersIn(fr)
         /\ fr[p].pc = "signal" /\ Single(fr) => WakersIn(fr2) = WakersIn(fr) \ {c}
<1>1. /\ IsFrames(fr2) /\ DOMAIN fr2 = DOMAIN fr \ {p}
      /\ \A q \in DOMAIN fr \ {p} : fr2[q] = fr[q]
  BY DEF Remove, IsFrames
<1>2. ASSUME NEW ts PROVE UsersIn(ts, fr2) \subseteq UsersIn(ts, fr)
  BY <1>1 DEF UsersIn
<1>3. ~ fr[p].caller => CallersIn(fr2) = CallersIn(fr)
  BY <1>1 DEF CallersIn
<1>4. fr[p].caller /\ Single(fr) => CallersIn(fr2) = CallersIn(fr) \ {c}
  BY <1>1 DEF CallersIn, Single
<1>5. fr[p].pc \notin Waiting => WaitersIn(fr2) = WaitersIn(fr)
  BY <1>1 DEF WaitersIn
<1>6. /\ fr[p].pc \in Waiting /\ Single(fr)
      /\ \A q \in DOMAIN fr : fr[q].pc \in Waiting => fr[q].caller
      => WaitersIn(fr2) = WaitersIn(fr) \ {c}
  BY <1>1 DEF WaitersIn, Single
<1>7. fr[p].pc # "signal" => WakersIn(fr2) = WakersIn(fr)
  BY <1>1 DEF WakersIn
<1>8. fr[p].pc = "signal" /\ Single(fr) => WakersIn(fr2) = WakersIn(fr) \ {c}
  BY <1>1 DEF WakersIn, Single
<1> QED BY <1>1, <1>2, <1>3, <1>4, <1>5, <1>6, <1>7, <1>8

\* A frame begins with HandleRange.
LEMMA AddView ==
  ASSUME NEW fr, IsFrames(fr), NEW q, q \notin DOMAIN fr,
         NEW f \in AllFrames, f.pc = "range",
         NEW fr2, fr2 = Add(fr, q, f), NEW c, c = f.range.call
  PROVE  /\ IsFrames(fr2)
         /\ \A ts : UsersIn(ts, fr2) = UsersIn(ts, fr) \cup {c}
         /\ CallersIn(fr2) = CallersIn(fr) \cup IF f.caller THEN {c} ELSE {}
         /\ WaitersIn(fr2) = WaitersIn(fr) /\ WakersIn(fr2) = WakersIn(fr)
<1>1. /\ IsFrames(fr2) /\ DOMAIN fr2 = DOMAIN fr \cup {q} /\ fr2[q] = f
      /\ \A r \in DOMAIN fr : fr2[r] = fr[r]
  BY DEF Add, IsFrames
<1>2. ASSUME NEW ts PROVE UsersIn(ts, fr2) = UsersIn(ts, fr) \cup {c}
  BY <1>1 DEF UsersIn
<1>3. CallersIn(fr2) = CallersIn(fr) \cup IF f.caller THEN {c} ELSE {}
  <2>1. CASE f.caller
    BY <1>1, <2>1 DEF CallersIn
  <2>2. CASE ~ f.caller
    BY <1>1, <2>2 DEF CallersIn
  <2> QED BY <2>1, <2>2
<1>4. WaitersIn(fr2) = WaitersIn(fr)
  <2>1. f.pc \notin Waiting
    BY PcSets
  <2> QED BY <1>1, <2>1 DEF WaitersIn
<1>5. WakersIn(fr2) = WakersIn(fr)
  BY <1>1 DEF WakersIn
<1> QED BY <1>1, <1>2, <1>3, <1>4, <1>5

-----------------------------------------------------------------------------
(* What is owed, when one frame changes.                                   *)

LEMMA DueIs ==
  ASSUME NEW lp, NEW ts, NEW fr, NEW pcs, NEW r
  PROVE  r \in Due(lp, ts, fr, pcs) <=>
           r \in ts \/ \E p \in DOMAIN fr : fr[p].pc \in pcs /\ r = Debt(lp, fr[p])
BY DEF Due

\* Only the frame at p differs.
Elsewhere(fr, fr2, p) ==
  \A q : q # p => /\ q \in DOMAIN fr2 <=> q \in DOMAIN fr
                  /\ q \in DOMAIN fr => fr2[q] = fr[q]

\* The frame at p is at one of pcs.
Has(fr, p, pcs) == p \in DOMAIN fr /\ fr[p].pc \in pcs

LEMMA SameDue ==
  ASSUME NEW lp, NEW ts, NEW fr, NEW fr2, NEW p, Elsewhere(fr, fr2, p), NEW pcs,
         Has(fr, p, pcs) <=> Has(fr2, p, pcs),
         Has(fr, p, pcs) => Debt(lp, fr2[p]) = Debt(lp, fr[p])
  PROVE  Due(lp, ts, fr2, pcs) = Due(lp, ts, fr, pcs)
<1> SUFFICES ASSUME NEW r
             PROVE  r \in Due(lp, ts, fr2, pcs) <=> r \in Due(lp, ts, fr, pcs)
  OBVIOUS
<1>1. ASSUME NEW q PROVE Has(fr, q, pcs) <=> Has(fr2, q, pcs)
  BY DEF Has, Elsewhere
<1>2. ASSUME NEW q, Has(fr, q, pcs) PROVE Debt(lp, fr2[q]) = Debt(lp, fr[q])
  BY <1>2 DEF Has, Elsewhere
<1> QED BY <1>1, <1>2, DueIs DEF Has

\* A debt is settled, and has no other owner.
LEMMA LessDue ==
  ASSUME NEW lp, NEW ts, NEW fr, NEW fr2, NEW p, Elsewhere(fr, fr2, p), Sole(lp, ts, fr),
         NEW pcs, pcs \subseteq Owing, Has(fr, p, pcs), ~ Has(fr2, p, pcs)
  PROVE  Due(lp, ts, fr2, pcs) = Due(lp, ts, fr, pcs) \ {Debt(lp, fr[p])}
<1> SUFFICES ASSUME NEW r
             PROVE  r \in Due(lp, ts, fr2, pcs) <=>
                      r \in Due(lp, ts, fr, pcs) /\ r # Debt(lp, fr[p])
  OBVIOUS
<1>1. ASSUME NEW q, q # p PROVE Has(fr, q, pcs) <=> Has(fr2, q, pcs)
  BY <1>1 DEF Has, Elsewhere
<1>2. ASSUME NEW q, q # p, Has(fr, q, pcs)
      PROVE  Debt(lp, fr2[q]) = Debt(lp, fr[q]) /\ Debt(lp, fr[q]) # Debt(lp, fr[p])
  BY <1>2 DEF Has, Elsewhere, Sole
<1>3. Debt(lp, fr[p]) \notin ts
  BY DEF Has, Sole
<1> QED BY <1>1, <1>2, <1>3, DueIs DEF Has

\* A debt is handed to the pool, or taken from it.
LEMMA MovedDue ==
  ASSUME NEW lp, NEW ts, NEW ts2, NEW fr, NEW fr2, NEW p, Elsewhere(fr, fr2, p), NEW pcs,
         \/ /\ Has(fr, p, pcs) /\ ~ Has(fr2, p, pcs)
            /\ ts2 = ts \cup {Debt(lp, fr[p])}
         \/ /\ ~ Has(fr, p, pcs) /\ Has(fr2, p, pcs)
            /\ Debt(lp, fr2[p]) \in ts /\ ts2 = ts \ {Debt(lp, fr2[p])}
  PROVE  Due(lp, ts2, fr2, pcs) = Due(lp, ts, fr, pcs)
<1> SUFFICES ASSUME NEW r
             PROVE  r \in Due(lp, ts2, fr2, pcs) <=> r \in Due(lp, ts, fr, pcs)
  OBVIOUS
<1>1. ASSUME NEW q, q # p PROVE Has(fr, q, pcs) <=> Has(fr2, q, pcs)
  BY <1>1 DEF Has, Elsewhere
<1>2. ASSUME NEW q, q # p, Has(fr, q, pcs) PROVE Debt(lp, fr2[q]) = Debt(lp, fr[q])
  BY <1>2 DEF Has, Elsewhere
<1> QED BY <1>1, <1>2, DueIs DEF Has

\* One more debt.
LEMMA MoreDue ==
  ASSUME NEW lp, NEW ts, NEW fr, NEW fr2, NEW p, Elsewhere(fr, fr2, p), NEW pcs,
         ~ Has(fr, p, pcs), Has(fr2, p, pcs)
  PROVE  Due(lp, ts, fr2, pcs) = Due(lp, ts, fr, pcs) \cup {Debt(lp, fr2[p])}
<1> SUFFICES ASSUME NEW r
             PROVE  r \in Due(lp, ts, fr2, pcs) <=>
                      r \in Due(lp, ts, fr, pcs) \/ r = Debt(lp, fr2[p])
  OBVIOUS
<1>1. ASSUME NEW q, q # p PROVE Has(fr, q, pcs) <=> Has(fr2, q, pcs)
  BY <1>1 DEF Has, Elsewhere
<1>2. ASSUME NEW q, q # p, Has(fr, q, pcs) PROVE Debt(lp, fr2[q]) = Debt(lp, fr[q])
  BY <1>2 DEF Has, Elsewhere
<1> QED BY <1>1, <1>2, DueIs DEF Has

\* A debt is split: one half goes to the pool, the frame keeps the other.
Halved(ds, ds2, d, u, v) == d \in ds /\ ds2 = (ds \ {d}) \cup {u, v}

LEMMA SplitDue ==
  ASSUME NEW lp, NEW ts, NEW fr, NEW fr2, NEW p, NEW pcs, NEW u,
         Elsewhere(fr, fr2, p), Sole(lp, ts, fr),
         pcs \subseteq Owing, Has(fr, p, pcs), Has(fr2, p, pcs),
         u # Debt(lp, fr[p]), Debt(lp, fr2[p]) # Debt(lp, fr[p])
  PROVE  Halved(Due(lp, ts, fr, pcs), Due(lp, ts \cup {u}, fr2, pcs),
                Debt(lp, fr[p]), u, Debt(lp, fr2[p]))
<1> SUFFICES ASSUME NEW r
             PROVE  r \in Due(lp, ts \cup {u}, fr2, pcs) <=>
                      \/ r \in Due(lp, ts, fr, pcs) /\ r # Debt(lp, fr[p])
                      \/ r = u \/ r = Debt(lp, fr2[p])
  BY DueIs DEF Halved, Has
<1>1. ASSUME NEW q PROVE Has(fr, q, pcs) <=> Has(fr2, q, pcs)
  BY <1>1 DEF Has, Elsewhere
<1>2. ASSUME NEW q, q # p, Has(fr, q, pcs)
      PROVE  Debt(lp, fr2[q]) = Debt(lp, fr[q]) /\ Debt(lp, fr[q]) # Debt(lp, fr[p])
  BY <1>2 DEF Has, Elsewhere, Sole
<1>3. Debt(lp, fr[p]) \notin ts
  BY DEF Has, Sole
<1> QED BY <1>1, <1>2, <1>3, DueIs DEF Has

\* The owners stay apart when the frame at p changes, unless it gets the debt of
\* another.
LEMMA StaySole ==
  ASSUME NEW lp, NEW ts, NEW ts2, NEW fr, NEW fr2, NEW p, Elsewhere(fr, fr2, p),
         Sole(lp, ts, fr),
         \A q : q # p /\ Has(fr, q, Owing) =>
           /\ Debt(lp, fr[q]) \notin ts2 \ ts
           /\ Has(fr2, p, Owing) => Debt(lp, fr[q]) # Debt(lp, fr2[p]),
         Has(fr2, p, Owing) => Debt(lp, fr2[p]) \notin ts2
  PROVE  Sole(lp, ts2, fr2)
<1>1. ASSUME NEW q, q # p
      PROVE  /\ Has(fr, q, Owing) <=> Has(fr2, q, Owing)
             /\ Has(fr, q, Owing) => Debt(lp, fr2[q]) = Debt(lp, fr[q])
  BY <1>1 DEF Has, Elsewhere
<1>2. ASSUME NEW q, q # p, Has(fr, q, Owing) PROVE Debt(lp, fr[q]) \notin ts2
  BY <1>2 DEF Has, Sole
<1>3. ASSUME NEW q, NEW r, q # p, r # p, Has(fr, q, Owing), Has(fr, r, Owing),
             Debt(lp, fr[q]) = Debt(lp, fr[r])
      PROVE  q = r
  BY <1>3 DEF Has, Sole
<1>4. ASSUME NEW q, Has(fr2, q, Owing) PROVE Debt(lp, fr2[q]) \notin ts2
  BY <1>1, <1>2, <1>4
<1>5. ASSUME NEW q, NEW r, Has(fr2, q, Owing), Has(fr2, r, Owing),
             Debt(lp, fr2[q]) = Debt(lp, fr2[r])
      PROVE  q = r
  BY <1>1, <1>3, <1>5
<1> QED BY <1>4, <1>5 DEF Sole, Has

LEMMA StaySingle ==
  ASSUME NEW fr, NEW fr2, NEW p, Elsewhere(fr, fr2, p), Single(fr),
         p \in DOMAIN fr2 =>
           \A q \in DOMAIN fr : q # p /\ fr[q].range.call = fr2[p].range.call =>
             /\ ~ (fr2[p].caller /\ fr[q].caller)
             /\ ~ (fr2[p].pc = "signal" /\ fr[q].pc = "signal")
  PROVE  Single(fr2)
<1> SUFFICES ASSUME NEW q \in DOMAIN fr2, NEW r \in DOMAIN fr2,
                    fr2[q].range.call = fr2[r].range.call,
                    \/ fr2[q].caller /\ fr2[r].caller
                    \/ fr2[q].pc = "signal" /\ fr2[r].pc = "signal"
             PROVE  q = r
  BY DEF Single
<1>1. CASE q # p /\ r # p
  <2>1. q \in DOMAIN fr /\ r \in DOMAIN fr /\ fr2[q] = fr[q] /\ fr2[r] = fr[r]
    BY <1>1 DEF Elsewhere
  <2> QED BY <2>1 DEF Single
<1>2. CASE q = p /\ r # p
  BY <1>2 DEF Elsewhere
<1>3. CASE q # p /\ r = p
  BY <1>3 DEF Elsewhere
<1> QED BY <1>1, <1>2, <1>3

LEMMA ElsewhereIs ==
  ASSUME NEW fr, NEW p
  PROVE  /\ \A f : p \in DOMAIN fr => Elsewhere(fr, Replace(fr, p, f), p)
         /\ Elsewhere(fr, Remove(fr, p), p)
         /\ \A f : p \notin DOMAIN fr => Elsewhere(fr, Add(fr, p, f), p)
BY DEF Elsewhere, Replace, Remove, Add

-----------------------------------------------------------------------------
(* The blocks of a call that are pending.                                  *)

RangesOK(lp, ds) == ds \subseteq AllRanges /\ \A r \in ds : IsRange(lp[r.call], r)
Disjoint(ds) == \A r, s \in ds : r # s /\ r.call = s.call => Indices(r) \cap Indices(s) = {}

LEMMA PendingIs ==
  ASSUME NEW l \in AllLoops, NEW ds, NEW c
  PROVE  /\ Pending(l, ds, c) \subseteq 0..BlockCount(l) - 1
         /\ IsFiniteSet(Pending(l, ds, c)) /\ Cardinality(Pending(l, ds, c)) \in Nat
         /\ Cardinality(Pending(l, ds, c)) = 0 <=> Pending(l, ds, c) = {}
<1> DEFINE P == Pending(l, ds, c)
           B == BlockCount(l)
<1>1. B \in Nat \ {0}
  BY BlocksOfLoop
<1>2. P \in SUBSET (0..B - 1)
  BY DEF Pending
<1> HIDE DEF P, B
<1>3. IsFiniteSet(0..B - 1)
  BY <1>1, FS_Interval
<1>4. IsFiniteSet(P)
  BY <1>2, <1>3, FS_Subset
<1>5. Cardinality(P) \in Nat
  BY <1>4, FS_CardinalityType
<1>6. Cardinality(P) = 0 <=> P = {}
  BY <1>4, FS_EmptySet
<1> QED BY <1>2, <1>4, <1>5, <1>6 DEF P, B

LEMMA PendingSame ==
  ASSUME NEW l, NEW ds, NEW ds2, NEW c,
         \A i : Covered(ds, c, i) <=> Covered(ds2, c, i)
  PROVE  Pending(l, ds, c) = Pending(l, ds2, c)
BY DEF Pending

\* The start of a range is that of a block, so a call with nothing pending is settled.
LEMMA NothingPending ==
  ASSUME NEW lp \in [Calls -> AllLoops], NEW ds, RangesOK(lp, ds), NEW c \in Calls
  PROVE  Pending(lp[c], ds, c) = {} <=> Settled(ds, c)
<1>1. ASSUME NEW r \in ds, r.call = c PROVE Pending(lp[c], ds, c) # {}
  <2>1. lp[c] \in AllLoops /\ IsRange(lp[c], r)
    BY <1>1 DEF RangesOK
  <2>2. /\ r.first \in Nat /\ r.last \in Nat /\ r.first < r.last
        /\ \E k \in 0..BlockCount(lp[c]) - 1 : k * lp[c].size = r.first
    BY <2>1, RangeBounds
  <2>3. PICK k \in 0..BlockCount(lp[c]) - 1 : k * lp[c].size = r.first
    BY <2>2
  <2>4. r.first \in Indices(r)
    BY <2>2 DEF Indices
  <2>5. Covered(ds, c, k * lp[c].size)
    BY <1>1, <2>3, <2>4 DEF Covered, Covers
  <2> QED BY <2>5 DEF Pending
<1>2. ASSUME Settled(ds, c) PROVE Pending(lp[c], ds, c) = {}
  BY <1>2 DEF Pending, Covered, Covers, Settled
<1> QED BY <1>1, <1>2 DEF Settled

\* When a block is done there is one less.
LEMMA OneLessPending ==
  ASSUME NEW lp \in [Calls -> AllLoops], NEW ds, RangesOK(lp, ds), Disjoint(ds),
         NEW r \in ds, NEW c \in Calls, c = r.call, ShortRange(lp[c], r)
  PROVE  /\ Cardinality(Pending(lp[c], ds, c)) \in Nat \ {0}
         /\ Cardinality(Pending(lp[c], ds \ {r}, c)) = Cardinality(Pending(lp[c], ds, c)) - 1
<1> DEFINE l == lp[c]
           P == Pending(l, ds, c)
           Q == Pending(l, ds \ {r}, c)
           K == 0..BlockCount(l) - 1
<1>1. l \in AllLoops /\ IsRange(l, r)
  BY DEF RangesOK
<1>2. PICK a \in K : \A k \in K : k * l.size \in Indices(r) <=> k = a
  BY <1>1, BlockHasOneStart
<1>3. \A k : k \in P <=> k \in K /\ Covered(ds, c, k * l.size)
  BY DEF Pending
<1>4. \A k : k \in Q <=> k \in K /\ Covered(ds \ {r}, c, k * l.size)
  BY DEF Pending
<1>5. a \in P
  <2>1. Covers(r, c, a * l.size)
    BY <1>2 DEF Covers
  <2> QED BY <1>3, <2>1 DEF Covered
<1>6. a \notin Q
  <2> SUFFICES ASSUME NEW s \in ds \ {r}, Covers(s, c, a * l.size) PROVE FALSE
    BY <1>4 DEF Covered
  <2>1. a * l.size \in Indices(s) /\ a * l.size \in Indices(r) /\ s.call = r.call
    BY <1>2 DEF Covers
  <2> QED BY <2>1 DEF Disjoint
<1>7. ASSUME NEW k \in P, k # a PROVE k \in Q
  <2>1. PICK s \in ds : Covers(s, c, k * l.size)
    BY <1>3 DEF Covered
  <2>2. s # r
    BY <1>2, <1>3, <1>7, <2>1 DEF Covers
  <2> QED BY <1>3, <1>4, <2>1, <2>2 DEF Covered
<1>8. Q \subseteq P
  BY <1>3, <1>4 DEF Covered
<1>9. Q = P \ {a}
  BY <1>5, <1>6, <1>7, <1>8
<1>10. IsFiniteSet(P) /\ Cardinality(P) \in Nat /\ (Cardinality(P) = 0 <=> P = {})
  BY <1>1, PendingIs
<1> HIDE DEF P, Q
<1>11. Cardinality(P \ {a}) = Cardinality(P) - 1
  BY <1>5, <1>10, FS_RemoveElement
<1> QED BY <1>5, <1>9, <1>10, <1>11 DEF P, Q

\* All the blocks of a call are pending when it begins.
LEMMA AllPending ==
  ASSUME NEW l \in AllLoops, NEW ds, NEW c, RangeOf(c, 0, l.n) \in ds
  PROVE  Cardinality(Pending(l, ds, c)) = BlockCount(l)
<1> DEFINE B == BlockCount(l)
           P == Pending(l, ds, c)
<1>1. B \in Nat \ {0}
  BY BlocksOfLoop
<1>2. P = 0..B - 1
  <2> SUFFICES ASSUME NEW k \in 0..B - 1 PROVE Covered(ds, c, k * l.size)
    BY DEF Pending
  <2>1. k * l.size \in 0..l.n - 1
    BY WholeRange
  <2>2. Covers(RangeOf(c, 0, l.n), c, k * l.size)
    BY <2>1 DEF Covers, Indices, RangeOf
  <2> QED BY <2>2 DEF Covered
<1> HIDE DEF P, B
<1>3. Cardinality(0..B - 1) = B
  BY <1>1, FS_Interval
<1> QED BY <1>2, <1>3 DEF P, B

LEMMA Counts ==
  ASSUME NEW l, NEW ds, NEW waits, NEW c
  PROVE  /\ c \in waits => Counted(l, ds, waits, c) = 2 * Cardinality(Pending(l, ds, c)) + 1
         /\ c \notin waits => Counted(l, ds, waits, c) = 2 * Cardinality(Pending(l, ds, c)) + 0
BY DEF Counted

-----------------------------------------------------------------------------
(* What the invariant says of frames, debts and calls.                     *)

LEMMA FramesOK ==
  ASSUME Typed
  PROVE  IsFrames(frames) /\ \A p \in DOMAIN frames : frames[p] \in AllFrames
<1>1. stack \in [AllThreads -> Seq(AllFrames)]
  BY DEF Typed
<1>2. FramesIn(stack) \in [DOMAIN FramesIn(stack) -> AllFrames]
  BY <1>1, FramesTyped
<1> QED BY <1>2 DEF frames, IsFrames

LEMMA DebtIs ==
  ASSUME NEW lp \in [Calls -> AllLoops], NEW f \in AllFrames, FrameOK(lp, f)
  PROVE  /\ f.range \in AllRanges /\ f.range.call \in Calls /\ lp[f.range.call] \in AllLoops
         /\ Debt(lp, f) \in AllRanges /\ Debt(lp, f).call = f.range.call
         /\ IsRange(lp[f.range.call], Debt(lp, f)) /\ IsRange(lp[f.range.call], f.range)
         /\ f.pc # "lower" => Debt(lp, f) = f.range
<1> DEFINE r == f.range
           l == lp[r.call]
<1>1. r \in AllRanges /\ r.call \in Calls /\ r.first \in Nat /\ r.last \in Nat /\ l \in AllLoops
  BY DEF AllFrames, AllRanges
<1>2. IsRange(l, r)
  BY DEF FrameOK
<1>3. CASE f.pc = "lower"
  <2>1. ~ ShortRange(l, r)
    BY <1>3 DEF FrameOK
  <2>2. Debt(lp, f) = RangeOf(r.call, r.first, MidOf(l, r))
    BY <1>3 DEF Debt
  <2>3. MidOf(l, r) \in Nat /\ IsRange(l, RangeOf(r.call, r.first, MidOf(l, r)))
    BY <1>1, <1>2, <2>1, MidInside
  <2>4. RangeOf(r.call, r.first, MidOf(l, r)) \in AllRanges
    BY <1>1, <2>3 DEF AllRanges, RangeOf
  <2>5. RangeOf(r.call, r.first, MidOf(l, r)).call = r.call
    BY DEF RangeOf
  <2> QED BY <1>1, <1>2, <1>3, <2>2, <2>3, <2>4, <2>5
<1>4. CASE f.pc # "lower"
  BY <1>1, <1>2, <1>4 DEF Debt
<1> QED BY <1>3, <1>4

LEMMA FrameFacts ==
  ASSUME FramesInv, NEW p \in DOMAIN frames
  PROVE  /\ loop \in [Calls -> AllLoops]
         /\ frames[p] \in AllFrames /\ FrameOK(loop, frames[p])
         /\ frames[p].range \in AllRanges
         /\ frames[p].range.call \in Calls /\ loop[frames[p].range.call] \in AllLoops
         /\ Debt(loop, frames[p]) \in AllRanges
         /\ Debt(loop, frames[p]).call = frames[p].range.call
         /\ IsRange(loop[frames[p].range.call], Debt(loop, frames[p]))
         /\ IsRange(loop[frames[p].range.call], frames[p].range)
         /\ frames[p].pc # "lower" => Debt(loop, frames[p]) = frames[p].range
<1>1. loop \in [Calls -> AllLoops] /\ frames[p] \in AllFrames /\ FrameOK(loop, frames[p])
  BY FramesOK DEF FramesInv, Typed, WellFormed
<1> QED BY <1>1, DebtIs

LEMMA DueGrows ==
  ASSUME NEW lp, NEW ts, NEW fr
  PROVE  /\ Due(lp, ts, fr, Early) \subseteq Due(lp, ts, fr, Undone)
         /\ Due(lp, ts, fr, Undone) \subseteq Due(lp, ts, fr, Owing)
<1>1. Early \subseteq Undone /\ Undone \subseteq Owing
  BY DEF Undone, Owing
<1>2. ASSUME NEW a, NEW b, a \subseteq b PROVE Due(lp, ts, fr, a) \subseteq Due(lp, ts, fr, b)
  BY <1>2 DEF Due
<1> QED BY <1>1, <1>2

LEMMA OwedFacts ==
  ASSUME FramesInv
  PROVE  /\ RangesOK(loop, Owed) /\ loop \in [Calls -> AllLoops]
         /\ \A r \in Owed : r.call \in InUse
         /\ Unstarted \subseteq Unrun /\ Unrun \subseteq Owed
<1>1. Unstarted \subseteq Unrun /\ Unrun \subseteq Owed
  BY DueGrows DEF Unstarted, Unrun, Owed
<1>2. ASSUME NEW r \in Owed
      PROVE  r \in AllRanges /\ IsRange(loop[r.call], r) /\ r.call \in InUse
  <2>1. CASE r \in tasks
    BY <2>1 DEF FramesInv, Typed, WellFormed, InUse, UsersIn
  <2>2. CASE \E p \in DOMAIN frames : r = Debt(loop, frames[p])
    <3>1. PICK p \in DOMAIN frames : r = Debt(loop, frames[p])
      BY <2>2
    <3>2. /\ r \in AllRanges /\ r.call = frames[p].range.call
          /\ IsRange(loop[frames[p].range.call], r)
      BY <3>1, FrameFacts
    <3>3. frames[p].range.call \in InUse
      BY DEF InUse, UsersIn
    <3> QED BY <3>2, <3>3
  <2>3. r \in tasks \/ \E p \in DOMAIN frames : frames[p].pc \in Owing /\ r = Debt(loop, frames[p])
    BY DueIs DEF Owed
  <2> QED BY <2>1, <2>2, <2>3
<1>3. loop \in [Calls -> AllLoops]
  BY DEF FramesInv, Typed
<1> QED BY <1>1, <1>2, <1>3 DEF RangesOK

\* The frame of a thread, as the invariant sees it.
LEMMA InViews ==
  ASSUME NEW p \in DOMAIN frames
  PROVE  /\ frames[p].range.call \in InUse
         /\ frames[p].caller => frames[p].range.call \in Callers
         /\ frames[p].pc \in Waiting => frames[p].range.call \in Waiters
         /\ frames[p].pc = "signal" => frames[p].range.call \in Wakers
         /\ frames[p].pc \in Early => Debt(loop, frames[p]) \in Unstarted
         /\ frames[p].pc \in Undone => Debt(loop, frames[p]) \in Unrun
         /\ frames[p].pc \in Owing => Debt(loop, frames[p]) \in Owed
<1>1. frames[p].range.call \in InUse
  BY DEF InUse, UsersIn
<1>2. frames[p].caller => frames[p].range.call \in Callers
  BY DEF Callers, CallersIn
<1>3. frames[p].pc \in Waiting => frames[p].range.call \in Waiters
  BY DEF Waiters, WaitersIn
<1>4. frames[p].pc = "signal" => frames[p].range.call \in Wakers
  BY DEF Wakers, WakersIn
<1>5. ASSUME NEW pcs, frames[p].pc \in pcs
      PROVE  Debt(loop, frames[p]) \in Due(loop, tasks, frames, pcs)
  BY <1>5, DueIs
<1> QED BY <1>1, <1>2, <1>3, <1>4, <1>5 DEF Unstarted, Unrun, Owed

\* Halves of a range, in the place of it.
LEMMA SplitIs ==
  ASSUME NEW l \in AllLoops, NEW r \in AllRanges, IsRange(l, r), ~ ShortRange(l, r),
         NEW lo, NEW up, lo = RangeOf(r.call, r.first, MidOf(l, r)),
         up = RangeOf(r.call, MidOf(l, r), r.last)
  PROVE  /\ lo # r /\ up # r /\ lo # up /\ lo.call = r.call /\ up.call = r.call
         /\ Indices(lo) \cup Indices(up) = Indices(r) /\ Indices(lo) \cap Indices(up) = {}
         /\ Indices(lo) # {} /\ Indices(up) # {}
         /\ up \in AllRanges /\ IsRange(l, up)
<1> DEFINE m == MidOf(l, r)
<1>1. /\ m \in Nat /\ r.first < m /\ m < r.last
      /\ IsRange(l, up)
  BY MidInside
<1>2. r.first \in Nat /\ r.last \in Nat /\ r.call \in Calls
  BY DEF AllRanges
<1> HIDE DEF m
<1>3. /\ lo.call = r.call /\ lo.first = r.first /\ lo.last = m
      /\ up.call = r.call /\ up.first = m /\ up.last = r.last
  BY DEF RangeOf, m
<1>4. lo # r /\ up # r /\ lo # up
  BY <1>1, <1>2, <1>3
<1>5. /\ Indices(lo) \cup Indices(up) = Indices(r) /\ Indices(lo) \cap Indices(up) = {}
      /\ r.first \in Indices(lo) /\ m \in Indices(up)
  BY <1>1, <1>2, <1>3 DEF Indices
<1>6. up \in AllRanges
  BY <1>1, <1>2 DEF AllRanges, RangeOf, m
<1> QED BY <1>1, <1>3, <1>4, <1>5, <1>6

LEMMA SplitCovers ==
  ASSUME NEW ds, NEW ds2, NEW r \in ds, NEW lo, NEW up,
         ds2 = (ds \ {r}) \cup {up, lo}, lo.call = r.call, up.call = r.call,
         Indices(lo) \cup Indices(up) = Indices(r), Indices(lo) \cap Indices(up) = {}
  PROVE  /\ \A c, i : Covered(ds2, c, i) <=> Covered(ds, c, i)
         /\ \A c : Settled(ds2, c) <=> Settled(ds, c)
         /\ Disjoint(ds) => Disjoint(ds2)
<1>1. ASSUME NEW c, NEW i PROVE Covered(ds2, c, i) <=> Covered(ds, c, i)
  <2>1. Covers(r, c, i) <=> Covers(lo, c, i) \/ Covers(up, c, i)
    BY DEF Covers
  <2> QED BY <2>1 DEF Covered
<1>2. ASSUME NEW c PROVE Settled(ds2, c) <=> Settled(ds, c)
  BY DEF Settled
<1>3. ASSUME Disjoint(ds), NEW x \in ds2, NEW y \in ds2, x # y, x.call = y.call
      PROVE  Indices(x) \cap Indices(y) = {}
  <2>1. ASSUME NEW z \in ds \ {r}, z.call = r.call PROVE Indices(z) \cap Indices(r) = {}
    BY <1>3, <2>1 DEF Disjoint
  <2>2. CASE x \in ds \ {r} /\ y \in ds \ {r}
    BY <1>3, <2>2 DEF Disjoint
  <2>3. CASE x \in {up, lo} /\ y \in ds \ {r}
    BY <1>3, <2>1, <2>3
  <2>4. CASE x \in ds \ {r} /\ y \in {up, lo}
    BY <1>3, <2>1, <2>4
  <2>5. CASE x \in {up, lo} /\ y \in {up, lo}
    BY <1>3, <2>5
  <2> QED BY <2>2, <2>3, <2>4, <2>5
<1> QED BY <1>1, <1>2, <1>3 DEF Disjoint

-----------------------------------------------------------------------------
(* The steps of a thread, as changes of its innermost frame.               *)

LEMMA MoveFacts ==
  ASSUME NEW fr, IsFrames(fr), Single(fr), NEW p \in DOMAIN fr,
         NEW pc \in Owing \cup Waiting \cup {"signal", "wait"},
         NEW fr2, fr2 = Replace(fr, p, Moved(fr[p], pc))
  PROVE  /\ Elsewhere(fr, fr2, p) /\ p \in DOMAIN fr2
         /\ fr2[p].pc = pc /\ fr2[p].range = fr[p].range /\ fr2[p].caller = fr[p].caller
         /\ \A pcs : Has(fr2, p, pcs) <=> pc \in pcs
         /\ \/ pc # "signal"
            \/ \A q \in DOMAIN fr : fr[q].pc = "signal" => fr[q].range.call # fr[p].range.call
            => Single(fr2)
<1>1. fr[p] \in AllFrames
  BY DEF IsFrames
<1>2. /\ p \in DOMAIN fr2 /\ fr2[p].pc = pc
      /\ fr2[p].range = fr[p].range /\ fr2[p].caller = fr[p].caller
  BY <1>1, MovedIs, ReplaceIs
<1>3. Elsewhere(fr, fr2, p)
  BY ElsewhereIs
<1>4. ASSUME NEW pcs PROVE Has(fr2, p, pcs) <=> pc \in pcs
  BY <1>2 DEF Has
<1>5. ASSUME \/ pc # "signal"
             \/ \A q \in DOMAIN fr : fr[q].pc = "signal" => fr[q].range.call # fr[p].range.call
      PROVE  Single(fr2)
  <2>1. ASSUME NEW q \in DOMAIN fr, q # p, fr[q].range.call = fr2[p].range.call
        PROVE  /\ ~ (fr2[p].caller /\ fr[q].caller)
               /\ ~ (fr2[p].pc = "signal" /\ fr[q].pc = "signal")
    BY <1>2, <1>5, <2>1 DEF Single
  <2> QED BY <1>3, <2>1, StaySingle
<1> QED BY <1>2, <1>3, <1>4, <1>5

\* HandleRange returns in the frame at p.
Left(fr, p) == IF fr[p].caller THEN Replace(fr, p, Moved(fr[p], "wait")) ELSE Remove(fr, p)

LEMMA LeaveFacts ==
  ASSUME NEW lp, NEW fr, IsFrames(fr), Single(fr), NEW p \in DOMAIN fr,
         fr[p].pc \in Owing \cup {"signal"}, FrameOK(lp, fr[p]),
         NEW fr2, fr2 = Left(fr, p)
  PROVE  /\ Elsewhere(fr, fr2, p) /\ Single(fr2)
         /\ p \in DOMAIN fr2 => FrameOK(lp, fr2[p])
         /\ \A pcs : pcs \subseteq Owing => ~ Has(fr2, p, pcs)
         /\ CallersIn(fr2) = CallersIn(fr) /\ WaitersIn(fr2) = WaitersIn(fr)
         /\ \A ts : UsersIn(ts, fr2) \subseteq UsersIn(ts, fr)
         /\ WakersIn(fr2) = WakersIn(fr) \ IF fr[p].pc = "signal" THEN {fr[p].range.call} ELSE {}
<1>1. fr[p].pc \notin Waiting /\ "wait" \notin Waiting /\ "wait" \notin Owing
  BY PcSets
<1>2. CASE fr[p].caller
  <2>1. fr2 = Replace(fr, p, Moved(fr[p], "wait"))
    BY <1>2 DEF Left
  <2>2. /\ Elsewhere(fr, fr2, p) /\ Single(fr2) /\ p \in DOMAIN fr2
        /\ fr2[p].pc = "wait" /\ fr2[p].range = fr[p].range /\ fr2[p].caller = fr[p].caller
        /\ \A pcs : Has(fr2, p, pcs) <=> "wait" \in pcs
    BY <2>1, MoveFacts
  <2>3. FrameOK(lp, fr2[p])
    BY <1>2, <2>2 DEF FrameOK
  <2>4. /\ CallersIn(fr2) = CallersIn(fr) /\ WaitersIn(fr2) = WaitersIn(fr)
        /\ \A ts : UsersIn(ts, fr2) = UsersIn(ts, fr)
        /\ fr[p].pc # "signal" => WakersIn(fr2) = WakersIn(fr)
        /\ fr[p].pc = "signal" => WakersIn(fr2) = WakersIn(fr) \ {fr[p].range.call}
    <3> DEFINE c == fr[p].range.call
               pc == "wait"
    <3>1. pc \in Owing \cup Waiting \cup {"signal", "wait"} /\ pc \notin Waiting /\ pc # "signal"
      BY <1>1
    <3>2. fr2 = Replace(fr, p, Moved(fr[p], pc)) /\ c = fr[p].range.call
      BY <2>1
    <3> HIDE DEF c, pc
    <3> QED BY <1>1, <3>1, <3>2, MoveView
  <2> QED BY <1>1, <2>2, <2>3, <2>4
<1>3. CASE ~ fr[p].caller
  <2>1. fr2 = Remove(fr, p) /\ p \notin DOMAIN fr2
    BY <1>3 DEF Left, Remove
  <2>2. Elsewhere(fr, fr2, p)
    BY <2>1, ElsewhereIs
  <2>3. Single(fr2)
    BY <2>1, <2>2, StaySingle
  <2>4. /\ CallersIn(fr2) = CallersIn(fr) /\ WaitersIn(fr2) = WaitersIn(fr)
        /\ \A ts : UsersIn(ts, fr2) \subseteq UsersIn(ts, fr)
        /\ fr[p].pc # "signal" => WakersIn(fr2) = WakersIn(fr)
        /\ fr[p].pc = "signal" => WakersIn(fr2) = WakersIn(fr) \ {fr[p].range.call}
    <3> DEFINE c == fr[p].range.call
    <3>1. c = fr[p].range.call
      OBVIOUS
    <3> HIDE DEF c
    <3> QED BY <1>1, <1>3, <2>1, <3>1, RemoveView
  <2> QED BY <2>1, <2>2, <2>3, <2>4 DEF Has
<1> QED BY <1>2, <1>3

LEMMA GoToStep ==
  ASSUME Typed, NEW t \in AllThreads, Running(t),
         NEW pc \in Owing \cup Waiting \cup {"signal", "wait"},
         stack' = [stack EXCEPT ![t] = GoTo(t, pc)]
  PROVE  /\ stack' \in [AllThreads -> Seq(AllFrames)]
         /\ frames' = Replace(frames, TopPlace(stack, t), Moved(Top(t), pc))
<1> DEFINE f == Moved(Top(t), pc)
<1>1. stack \in [AllThreads -> Seq(AllFrames)] /\ stack[t] # <<>>
  BY DEF Typed, Running
<1>2. Top(t) \in AllFrames
  BY <1>1 DEF Top
<1>3. f \in AllFrames
  BY <1>2, MovedIs
<1>4. Becomes(stack, stack', t, <<f>>)
  BY DEF Becomes, GoTo, Moved
<1> HIDE DEF f
<1>5. /\ FramesIn(stack') = Replace(FramesIn(stack), TopPlace(stack, t), f)
      /\ stack' \in [AllThreads -> Seq(AllFrames)]
  BY <1>1, <1>3, <1>4, ReplaceStep
<1> QED BY <1>5 DEF frames, f

LEMMA EndStep ==
  ASSUME Typed, NEW t \in AllThreads, Running(t),
         stack' = [stack EXCEPT ![t] = Tail(stack[t])]
  PROVE  /\ stack' \in [AllThreads -> Seq(AllFrames)]
         /\ frames' = Remove(frames, TopPlace(stack, t))
<1>1. stack \in [AllThreads -> Seq(AllFrames)] /\ stack[t] # <<>>
  BY DEF Typed, Running
<1>2. Tail(stack[t]) \in Seq(AllFrames)
  BY <1>1
<1>3. Becomes(stack, stack', t, <<>>)
  <2>1. <<>> \o Tail(stack[t]) = Tail(stack[t])
    BY <1>2
  <2> QED BY <2>1 DEF Becomes
<1>4. /\ FramesIn(stack') = Remove(FramesIn(stack), TopPlace(stack, t))
      /\ stack' \in [AllThreads -> Seq(AllFrames)]
  BY <1>1, <1>3, PopStep
<1> QED BY <1>4 DEF frames

\* The frame of a running thread.
LEMMA TopIs ==
  ASSUME Typed, NEW t \in AllThreads, Running(t)
  PROVE  /\ TopPlace(stack, t) \in DOMAIN frames /\ frames[TopPlace(stack, t)] = Top(t)
         /\ Top(t) \in AllFrames
<1>1. stack \in [AllThreads -> Seq(AllFrames)] /\ stack[t] # <<>>
  BY DEF Typed, Running
<1>2. /\ TopPlace(stack, t) \in DOMAIN FramesIn(stack)
      /\ FramesIn(stack)[TopPlace(stack, t)] = Head(stack[t])
      /\ Head(stack[t]) \in AllFrames
  BY <1>1, TopIsPlace
<1> QED BY <1>2 DEF frames, Top

LEMMA LeaveStep ==
  ASSUME Typed, NEW t \in AllThreads, Running(t),
         stack' = [stack EXCEPT ![t] = Leave(t)]
  PROVE  /\ stack' \in [AllThreads -> Seq(AllFrames)]
         /\ frames' = Left(frames, TopPlace(stack, t))
<1>1. frames[TopPlace(stack, t)] = Top(t)
  BY TopIs
<1>2. CASE Top(t).caller
  <2>1. stack' = [stack EXCEPT ![t] = GoTo(t, "wait")]
    BY <1>2 DEF Leave
  <2> QED BY <1>1, <1>2, <2>1, GoToStep DEF Left
<1>3. CASE ~ Top(t).caller
  <2>1. stack' = [stack EXCEPT ![t] = Tail(stack[t])]
    BY <1>3 DEF Leave
  <2> QED BY <1>1, <1>3, <2>1, EndStep DEF Left
<1> QED BY <1>2, <1>3

\* The invariant of the frames, when one changes.
LEMMA FramesInvStep ==
  ASSUME FramesInv, Typed', loop' = loop, NEW p, Elsewhere(frames, frames', p),
         \A r \in tasks' \ tasks : IsRange(loop[r.call], r),
         p \in DOMAIN frames' => FrameOK(loop, frames'[p]),
         Sole(loop, tasks', frames'), Single(frames')
  PROVE  FramesInv'
<1>1. \A r \in tasks' : IsRange(loop'[r.call], r)
  BY DEF FramesInv, WellFormed
<1>2. \A q \in DOMAIN frames' : FrameOK(loop', frames'[q])
  BY DEF FramesInv, WellFormed, Elsewhere
<1>3. WellFormed'
  BY <1>1, <1>2 DEF WellFormed
<1>4. OneOwner' /\ OneCaller'
  BY DEF OneOwner, OneCaller
<1> QED BY <1>3, <1>4 DEF FramesInv

-----------------------------------------------------------------------------
(* What every action does to the debts and the calls.                      *)

SameCalls == Callers' = Callers /\ Waiters' = Waiters /\ InUse' \subseteq InUse
SameDebts == Owed' = Owed /\ Unrun' = Unrun /\ Unstarted' = Unstarted

LEMMA PcOrder ==
  /\ Early \subseteq Owing /\ Undone \subseteq Owing
  /\ \A pcs : pcs \in {Early, Undone, Owing} => "range" \in pcs /\ "lower" \in pcs
  /\ "body" \notin Early /\ "body" \in Undone /\ "body" \in Owing
  /\ "notify" \notin Undone /\ "notify" \in Owing
  /\ "signal" \notin Owing /\ "wait" \notin Owing /\ "check" \notin Owing /\ "asleep" \notin Owing
  /\ "check" \in Waiting /\ "asleep" \in Waiting
BY PcSets

LEMMA NewFrame ==
  ASSUME NEW r \in AllRanges, NEW b \in BOOLEAN
  PROVE  /\ Frame(r, b) \in AllFrames /\ Frame(r, b).pc = "range"
         /\ Frame(r, b).range = r /\ Frame(r, b).caller = b
         /\ \A lp : Debt(lp, Frame(r, b)) = r
         /\ \A lp : IsRange(lp[r.call], r) => FrameOK(lp, Frame(r, b))
<1> DEFINE f == Frame(r, b)
<1>1. f.pc = "range" /\ f.range = r /\ f.caller = b /\ f = [range |-> r, caller |-> b, pc |-> "range"]
  BY DEF Frame
<1>2. "range" \in Owing /\ "range" \notin Waiting
  BY PcSets
<1> HIDE DEF f
<1>3. f \in AllFrames
  BY <1>1, <1>2 DEF AllFrames
<1>4. \A lp : Debt(lp, f) = r
  BY <1>1 DEF Debt
<1>5. \A lp : IsRange(lp[r.call], r) => FrameOK(lp, f)
  BY <1>1, <1>2 DEF FrameOK
<1> QED BY <1>1, <1>3, <1>4, <1>5 DEF f

LEMMA TakeView ==
  ASSUME FramesInv, NEW w \in Workers, Take(w)
  PROVE  FramesInv' /\ SameCalls /\ SameDebts /\ Wakers' = Wakers
<1>1. PICK r \in tasks : /\ tasks' = tasks \ {r}
                         /\ stack' = [stack EXCEPT ![w] = <<Frame(r, FALSE)>>]
  BY DEF Take
<1> DEFINE f == Frame(r, FALSE)
<1>2. /\ Typed /\ stack \in [AllThreads -> Seq(AllFrames)] /\ stack[w] = <<>> /\ w \in AllThreads
      /\ loop' = loop /\ r \in AllRanges /\ IsRange(loop[r.call], r) /\ IsFrames(frames)
      /\ Sole(loop, tasks, frames) /\ Single(frames)
  BY FramesOK DEF FramesInv, Typed, Take, Running, AllThreads, WellFormed, OneOwner, OneCaller
<1>3. /\ f \in AllFrames /\ f.pc = "range" /\ f.range = r /\ ~ f.caller
      /\ Debt(loop, f) = r /\ FrameOK(loop, f)
  BY <1>2, NewFrame
<1> HIDE DEF f
<1>4. /\ \E q : q \notin DOMAIN FramesIn(stack) /\ FramesIn(stack') = Add(FramesIn(stack), q, f)
      /\ stack' \in [AllThreads -> Seq(AllFrames)]
  <2>1. Enters(stack, stack', w, f)
    BY <1>1 DEF Enters, f
  <2>2. w \in AllThreads /\ stack[w] = <<>> /\ f \in AllFrames
    BY <1>2, <1>3
  <2>3. stack \in [AllThreads -> Seq(AllFrames)]
    BY <1>2
  <2> QED BY <2>1, <2>2, <2>3, EnterStep
<1>5. PICK q : q \notin DOMAIN frames /\ frames' = Add(frames, q, f)
  BY <1>4 DEF frames
<1>6. Typed'
  BY <1>1, <1>2, <1>4 DEF Take, Typed
<1>7. /\ Elsewhere(frames, frames', q) /\ q \in DOMAIN frames' /\ frames'[q] = f
  <2>1. Elsewhere(frames, frames', q)
    BY <1>5, ElsewhereIs
  <2> QED BY <1>5, <2>1 DEF Add
<1>8. \A pcs : "range" \in pcs => ~ Has(frames, q, pcs) /\ Has(frames', q, pcs)
  BY <1>3, <1>5, <1>7 DEF Has
<1>9. ASSUME NEW pcs, "range" \in pcs
      PROVE  Due(loop', tasks', frames', pcs) = Due(loop, tasks, frames, pcs)
  <2>1. Debt(loop, frames'[q]) \in tasks /\ tasks' = tasks \ {Debt(loop, frames'[q])}
    BY <1>1, <1>3, <1>7
  <2>2. ~ Has(frames, q, pcs) /\ Has(frames', q, pcs)
    BY <1>8, <1>9
  <2>3. Due(loop, tasks', frames', pcs) = Due(loop, tasks, frames, pcs)
    BY <1>7, <2>1, <2>2, MovedDue
  <2> QED BY <1>2, <2>3
<1>10. SameDebts
  BY <1>9, PcOrder DEF SameDebts, Owed, Unrun, Unstarted
<1>11. Sole(loop, tasks', frames')
  <2>1. ASSUME NEW x, x # q, Has(frames, x, Owing)
        PROVE  Debt(loop, frames[x]) \notin tasks
    BY <1>2, <2>1 DEF Sole, Has
  <2>2. Debt(loop, frames'[q]) = r
    BY <1>3, <1>7
  <2> QED BY <1>1, <1>2, <1>7, <2>1, <2>2, StaySole
<1>12. Single(frames')
  <2>1. ~ frames'[q].caller /\ frames'[q].pc # "signal"
    BY <1>3, <1>7
  <2> QED BY <1>2, <1>7, <2>1, StaySingle
<1>13. FramesInv'
  BY <1>1, <1>2, <1>3, <1>6, <1>7, <1>11, <1>12, FramesInvStep
<1>14. /\ \A ts : UsersIn(ts, frames') = UsersIn(ts, frames) \cup {r.call}
       /\ CallersIn(frames') = CallersIn(frames)
       /\ WaitersIn(frames') = WaitersIn(frames) /\ WakersIn(frames') = WakersIn(frames)
  <2> DEFINE c == r.call
  <2>1. c = f.range.call
    BY <1>3
  <2> HIDE DEF c
  <2>2. /\ \A ts : UsersIn(ts, frames') = UsersIn(ts, frames) \cup {c}
        /\ CallersIn(frames') = CallersIn(frames) \cup IF f.caller THEN {c} ELSE {}
        /\ WaitersIn(frames') = WaitersIn(frames) /\ WakersIn(frames') = WakersIn(frames)
    BY <1>2, <1>3, <1>5, <2>1, AddView
  <2> QED BY <1>3, <2>2 DEF c
<1>15. InUse' \subseteq InUse
  <2>1. InUse' = UsersIn(tasks', frames) \cup {r.call}
    BY <1>14 DEF InUse
  <2>2. UsersIn(tasks', frames) \subseteq UsersIn(tasks, frames) /\ r.call \in UsersIn(tasks, frames)
    BY <1>1 DEF UsersIn
  <2> QED BY <2>1, <2>2 DEF InUse
<1>16. Callers' = Callers /\ Waiters' = Waiters /\ Wakers' = Wakers
  BY <1>14 DEF Callers, Waiters, Wakers
<1> QED BY <1>10, <1>13, <1>15, <1>16 DEF SameCalls

\* What the invariant says of frames, in every state and half way through a step.
AllGood(lp, ts, fr) ==
  /\ IsFrames(fr) /\ \A p \in DOMAIN fr : FrameOK(lp, fr[p])
  /\ Sole(lp, ts, fr) /\ Single(fr)

LEMMA FramesInvIs ==
  ASSUME Typed
  PROVE  FramesInv <=> /\ AllGood(loop, tasks, frames)
                       /\ \A r \in tasks : IsRange(loop[r.call], r)
BY FramesOK DEF FramesInv, AllGood, WellFormed, OneOwner, OneCaller

LEMMA GoodStep ==
  ASSUME Typed', loop' = loop, AllGood(loop, tasks', frames'),
         \A r \in tasks' : IsRange(loop[r.call], r)
  PROVE  FramesInv'
<1>1. WellFormed'
  BY DEF AllGood, WellFormed
<1>2. OneOwner' /\ OneCaller'
  BY DEF AllGood, OneOwner, OneCaller
<1> QED BY <1>1, <1>2 DEF FramesInv

\* A frame goes on at pc, with the same range.
LEMMA GoGood ==
  ASSUME NEW lp, NEW ts, NEW fr, AllGood(lp, ts, fr), NEW p \in DOMAIN fr,
         NEW pc \in Owing \cup Waiting \cup {"signal", "wait"},
         pc # "lower", fr[p].pc # "lower", pc \in Owing => fr[p].pc \in Owing,
         FrameOK(lp, Moved(fr[p], pc)), pc = "signal" => fr[p].range.call \notin WakersIn(fr),
         NEW fr2, fr2 = Replace(fr, p, Moved(fr[p], pc))
  PROVE  /\ AllGood(lp, ts, fr2)
         /\ \A pcs : (fr[p].pc \in pcs <=> pc \in pcs) =>
              Due(lp, ts, fr2, pcs) = Due(lp, ts, fr, pcs)
         /\ \A pcs : pcs \subseteq Owing /\ fr[p].pc \in pcs /\ pc \notin pcs =>
              Due(lp, ts, fr2, pcs) = Due(lp, ts, fr, pcs) \ {fr[p].range}
<1>1. IsFrames(fr) /\ Single(fr) /\ Sole(lp, ts, fr) /\ fr[p] \in AllFrames
  BY DEF AllGood, IsFrames
<1>2. pc # "signal" \/ \A q \in DOMAIN fr : fr[q].pc = "signal" => fr[q].range.call # fr[p].range.call
  BY DEF WakersIn
<1>3. /\ Elsewhere(fr, fr2, p) /\ p \in DOMAIN fr2
      /\ fr2[p].pc = pc /\ fr2[p].range = fr[p].range
      /\ \A pcs : Has(fr2, p, pcs) <=> pc \in pcs
      /\ Single(fr2)
  BY <1>1, <1>2, MoveFacts
<1>4. IsFrames(fr2) /\ fr2[p] = Moved(fr[p], pc)
  BY <1>1, MovedIs, ReplaceIs
<1>5. Debt(lp, fr2[p]) = fr[p].range /\ Debt(lp, fr[p]) = fr[p].range
  BY <1>3 DEF Debt
<1>6. Sole(lp, ts, fr2)
  <2>1. ASSUME Has(fr2, p, Owing) PROVE Has(fr, p, Owing)
    BY <1>3, <2>1 DEF Has
  <2>2. ASSUME Has(fr2, p, Owing) PROVE Debt(lp, fr2[p]) \notin ts
    BY <1>1, <1>5, <2>1, <2>2 DEF Sole, Has
  <2>3. ASSUME Has(fr2, p, Owing), NEW q, q # p, Has(fr, q, Owing)
        PROVE  Debt(lp, fr[q]) # Debt(lp, fr2[p])
    BY <1>1, <1>5, <2>1, <2>3 DEF Sole, Has
  <2> QED BY <1>1, <1>3, <2>2, <2>3, StaySole
<1>7. \A q \in DOMAIN fr2 : FrameOK(lp, fr2[q])
  BY <1>3, <1>4 DEF AllGood, Elsewhere
<1>8. ASSUME NEW pcs, fr[p].pc \in pcs <=> pc \in pcs
      PROVE  Due(lp, ts, fr2, pcs) = Due(lp, ts, fr, pcs)
  BY <1>3, <1>5, <1>8, SameDue DEF Has
<1>9. ASSUME NEW pcs, pcs \subseteq Owing, fr[p].pc \in pcs, pc \notin pcs
      PROVE  Due(lp, ts, fr2, pcs) = Due(lp, ts, fr, pcs) \ {fr[p].range}
  <2>1. Has(fr, p, pcs) /\ ~ Has(fr2, p, pcs)
    BY <1>3, <1>9 DEF Has
  <2>2. Due(lp, ts, fr2, pcs) = Due(lp, ts, fr, pcs) \ {Debt(lp, fr[p])}
    BY <1>1, <1>3, <1>9, <2>1, LessDue
  <2> QED BY <1>5, <2>2
<1> QED BY <1>3, <1>4, <1>6, <1>7, <1>8, <1>9 DEF AllGood

\* HandleRange returns: after both halves are scheduled, or after a block.
LEMMA LeftDue ==
  ASSUME NEW lp, NEW ts, NEW fr, AllGood(lp, ts, fr), NEW p \in DOMAIN fr,
         fr[p].pc \in Owing \cup {"signal"}, NEW pcs, pcs \subseteq Owing
  PROVE  /\ Due(lp, ts, Left(fr, p), pcs) =
              Due(lp, ts, fr, pcs) \ IF fr[p].pc \in pcs THEN {Debt(lp, fr[p])} ELSE {}
         /\ fr[p].pc \in pcs =>
              Due(lp, ts \cup {Debt(lp, fr[p])}, Left(fr, p), pcs) = Due(lp, ts, fr, pcs)
<1> DEFINE fr2 == Left(fr, p)
           ts2 == ts \cup {Debt(lp, fr[p])}
<1>1. /\ IsFrames(fr) /\ Single(fr) /\ Sole(lp, ts, fr) /\ FrameOK(lp, fr[p])
      /\ fr2 = Left(fr, p) /\ ts2 = ts \cup {Debt(lp, fr[p])}
  BY DEF AllGood
<1> HIDE DEF fr2, ts2
<1>2. Elsewhere(fr, fr2, p) /\ ~ Has(fr2, p, pcs)
  BY <1>1, LeaveFacts
<1>3. ASSUME fr[p].pc \in pcs
      PROVE  /\ Due(lp, ts, fr2, pcs) = Due(lp, ts, fr, pcs) \ {Debt(lp, fr[p])}
             /\ Due(lp, ts2, fr2, pcs) = Due(lp, ts, fr, pcs)
  <2>1. Has(fr, p, pcs)
    BY <1>3 DEF Has
  <2> QED BY <1>1, <1>2, <2>1, LessDue, MovedDue
<1>4. ASSUME fr[p].pc \notin pcs
      PROVE  Due(lp, ts, fr2, pcs) = Due(lp, ts, fr, pcs)
  <2>1. ~ Has(fr, p, pcs)
    BY <1>4 DEF Has
  <2> QED BY <1>2, <2>1, SameDue
<1>5. Due(lp, ts, fr2, pcs) =
        Due(lp, ts, fr, pcs) \ IF fr[p].pc \in pcs THEN {Debt(lp, fr[p])} ELSE {}
  <2>1. CASE fr[p].pc \in pcs
    BY <1>3, <2>1
  <2>2. CASE fr[p].pc \notin pcs
    BY <1>4, <2>2
  <2> QED BY <2>1, <2>2
<1> QED BY <1>1, <1>3, <1>5

LEMMA LeftSame ==
  ASSUME NEW lp, NEW ts, NEW fr, NEW p \in DOMAIN fr, NEW pcs, AllGood(lp, ts, fr),
         fr[p].pc \in Owing \cup {"signal"}, pcs \subseteq Owing, fr[p].pc \notin pcs
  PROVE  Due(lp, ts, Left(fr, p), pcs) = Due(lp, ts, fr, pcs)
<1> DEFINE fr2 == Left(fr, p)
<1>1. IsFrames(fr) /\ Single(fr) /\ FrameOK(lp, fr[p]) /\ fr2 = Left(fr, p)
  BY DEF AllGood
<1> HIDE DEF fr2
<1>2. Elsewhere(fr, fr2, p) /\ ~ Has(fr2, p, pcs)
  BY <1>1, LeaveFacts
<1>3. ~ Has(fr, p, pcs)
  BY DEF Has
<1> QED BY <1>1, <1>2, <1>3, SameDue

LEMMA LeftGood ==
  ASSUME NEW lp, NEW ts, NEW fr, AllGood(lp, ts, fr), NEW p \in DOMAIN fr,
         fr[p].pc \in Owing \cup {"signal"}
  PROVE  /\ AllGood(lp, ts, Left(fr, p))
         /\ fr[p].pc \in Owing => AllGood(lp, ts \cup {Debt(lp, fr[p])}, Left(fr, p))
<1> DEFINE fr2 == Left(fr, p)
<1>1. /\ IsFrames(fr) /\ Single(fr) /\ Sole(lp, ts, fr) /\ fr[p] \in AllFrames /\ FrameOK(lp, fr[p])
      /\ fr2 = Left(fr, p)
  BY DEF AllGood, IsFrames
<1> HIDE DEF fr2
<1>2. /\ Elsewhere(fr, fr2, p) /\ Single(fr2)
      /\ p \in DOMAIN fr2 => FrameOK(lp, fr2[p])
      /\ ~ Has(fr2, p, Owing)
  BY <1>1, LeaveFacts
<1>3. IsFrames(fr2)
  <2>1. CASE fr[p].caller
    BY <1>1, <2>1, MovedIs, ReplaceIs DEF Left
  <2>2. CASE ~ fr[p].caller
    BY <1>1, <2>2, RemoveIs DEF Left
  <2> QED BY <2>1, <2>2
<1>4. \A q \in DOMAIN fr2 : FrameOK(lp, fr2[q])
  BY <1>2 DEF AllGood, Elsewhere
<1>5. Sole(lp, ts, fr2)
  BY <1>1, <1>2, StaySole
<1>6. ASSUME fr[p].pc \in Owing PROVE Sole(lp, ts \cup {Debt(lp, fr[p])}, fr2)
  <2>1. ASSUME NEW q, q # p, Has(fr, q, Owing) PROVE Debt(lp, fr[q]) # Debt(lp, fr[p])
    BY <1>1, <1>6, <2>1 DEF Sole, Has
  <2> QED BY <1>1, <1>2, <2>1, StaySole
<1> QED BY <1>1, <1>2, <1>3, <1>4, <1>5, <1>6 DEF AllGood

\* The frame of a new call.
MayAdd(lp, ts, fr, q, r) ==
  /\ AllGood(lp, ts, fr) /\ q \notin DOMAIN fr /\ r \in AllRanges /\ IsRange(lp[r.call], r)
  /\ r \notin Due(lp, ts, fr, Owing) /\ r.call \notin CallersIn(fr)
Added(lp, ts, fr, fr2, r) ==
  /\ AllGood(lp, ts, fr2)
  /\ \A pcs : "range" \in pcs => Due(lp, ts, fr2, pcs) = Due(lp, ts, fr, pcs) \cup {r}
  /\ \A us : UsersIn(us, fr2) = UsersIn(us, fr) \cup {r.call}
  /\ CallersIn(fr2) = CallersIn(fr) \cup {r.call}
  /\ WaitersIn(fr2) = WaitersIn(fr) /\ WakersIn(fr2) = WakersIn(fr)

LEMMA AddGood ==
  ASSUME NEW lp, NEW ts, NEW fr, NEW q, NEW r, MayAdd(lp, ts, fr, q, r)
  PROVE  Added(lp, ts, fr, Add(fr, q, Frame(r, TRUE)), r)
<1> DEFINE fr2 == Add(fr, q, Frame(r, TRUE))
<1>a. /\ AllGood(lp, ts, fr) /\ q \notin DOMAIN fr /\ r \in AllRanges /\ IsRange(lp[r.call], r)
      /\ r \notin Due(lp, ts, fr, Owing) /\ r.call \notin CallersIn(fr)
      /\ fr2 = Add(fr, q, Frame(r, TRUE))
  BY DEF MayAdd
<1> SUFFICES Added(lp, ts, fr, fr2, r)
  OBVIOUS
<1> HIDE DEF fr2
<1> DEFINE f == Frame(r, TRUE)
           c == r.call
<1>1. /\ f \in AllFrames /\ f.pc = "range" /\ f.range = r /\ f.caller
      /\ Debt(lp, f) = r /\ FrameOK(lp, f) /\ c = f.range.call /\ fr2 = Add(fr, q, f)
  BY <1>a, NewFrame
<1>2. IsFrames(fr) /\ Single(fr) /\ Sole(lp, ts, fr) /\ \A p \in DOMAIN fr : FrameOK(lp, fr[p])
  BY <1>a DEF AllGood
<1>3. r \notin Due(lp, ts, fr, Owing) /\ c \notin CallersIn(fr) /\ r.call = c
  BY <1>a
<1> HIDE DEF f, c
<1>4. /\ IsFrames(fr2)
      /\ \A us : UsersIn(us, fr2) = UsersIn(us, fr) \cup {c}
      /\ CallersIn(fr2) = CallersIn(fr) \cup IF f.caller THEN {c} ELSE {}
      /\ WaitersIn(fr2) = WaitersIn(fr) /\ WakersIn(fr2) = WakersIn(fr)
  <2>1. f \in AllFrames /\ f.pc = "range" /\ c = f.range.call /\ fr2 = Add(fr, q, f)
    BY <1>1
  <2>2. IsFrames(fr) /\ q \notin DOMAIN fr
    BY <1>2, <1>a
  <2> QED BY ONLY <2>1, <2>2, AddView
<1>5. Elsewhere(fr, fr2, q)
  BY <1>1, <1>a, ElsewhereIs
<1>6. q \in DOMAIN fr2 /\ fr2[q] = f
  BY <1>1 DEF Add
<1>7. \A p \in DOMAIN fr2 : FrameOK(lp, fr2[p])
  BY <1>1, <1>2, <1>5, <1>6 DEF Elsewhere
<1>8. Single(fr2)
  <2>1. ASSUME NEW p \in DOMAIN fr, fr[p].range.call = c PROVE ~ fr[p].caller
    BY <1>3, <2>1 DEF CallersIn
  <2> QED BY <1>1, <1>2, <1>5, <1>6, <2>1, StaySingle
<1>9. Sole(lp, ts, fr2)
  <2>1. r \notin ts
    BY <1>3, DueIs
  <2>2. ASSUME NEW p, Has(fr, p, Owing) PROVE Debt(lp, fr[p]) # r
    BY <1>3, <2>2, DueIs DEF Has
  <2> QED BY <1>1, <1>2, <1>5, <1>6, <2>1, <2>2, StaySole
<1>10. ASSUME NEW pcs, "range" \in pcs
       PROVE  Due(lp, ts, fr2, pcs) = Due(lp, ts, fr, pcs) \cup {r}
  <2>1. ~ Has(fr, q, pcs) /\ Has(fr2, q, pcs)
    BY <1>1, <1>a, <1>6, <1>10 DEF Has
  <2>2. Due(lp, ts, fr2, pcs) = Due(lp, ts, fr, pcs) \cup {Debt(lp, fr2[q])}
    BY ONLY <1>5, <2>1, MoreDue
  <2> QED BY <1>1, <1>6, <2>2
<1> QED BY <1>1, <1>3, <1>4, <1>7, <1>8, <1>9, <1>10 DEF AllGood, Added

\* The frame of a call ends with the call.
LEMMA RemoveGood ==
  ASSUME NEW lp, NEW ts, NEW fr, AllGood(lp, ts, fr), NEW p \in DOMAIN fr,
         fr[p].pc \in Waiting \cup {"wait"}, NEW fr2, fr2 = Remove(fr, p),
         NEW c, c = fr[p].range.call
  PROVE  /\ AllGood(lp, ts, fr2)
         /\ \A pcs : pcs \subseteq Owing => Due(lp, ts, fr2, pcs) = Due(lp, ts, fr, pcs)
         /\ CallersIn(fr2) = CallersIn(fr) \ {c} /\ WaitersIn(fr2) = WaitersIn(fr) \ {c}
         /\ WakersIn(fr2) = WakersIn(fr)
         /\ \A us : UsersIn(us, fr2) \subseteq UsersIn(us, fr)
<1>1. /\ IsFrames(fr) /\ Single(fr) /\ Sole(lp, ts, fr)
      /\ \A q \in DOMAIN fr : FrameOK(lp, fr[q])
  BY DEF AllGood
<1>2. fr[p].pc \notin Owing /\ fr[p].pc # "signal"
  BY PcSets
<1>3. fr[p].caller /\ \A q \in DOMAIN fr : fr[q].pc \in Waiting => fr[q].caller
  BY <1>1 DEF FrameOK
<1>4. Elsewhere(fr, fr2, p)
  BY ElsewhereIs
<1>5. p \notin DOMAIN fr2 /\ IsFrames(fr2)
  BY <1>1, RemoveIs DEF Remove
<1>6. Single(fr2) /\ Sole(lp, ts, fr2)
  <2>1. Single(fr2)
    BY <1>1, <1>4, <1>5, StaySingle
  <2>2. ~ Has(fr2, p, Owing)
    BY <1>5 DEF Has
  <2> QED BY <1>1, <1>4, <2>1, <2>2, StaySole
<1>7. \A q \in DOMAIN fr2 : FrameOK(lp, fr2[q])
  BY <1>1, <1>4, <1>5 DEF Elsewhere
<1>8. ASSUME NEW pcs, pcs \subseteq Owing
      PROVE  Due(lp, ts, fr2, pcs) = Due(lp, ts, fr, pcs)
  <2>1. ~ Has(fr, p, pcs) /\ ~ Has(fr2, p, pcs)
    BY <1>2, <1>5, <1>8 DEF Has
  <2> QED BY <1>4, <2>1, SameDue
<1>9. /\ \A us : UsersIn(us, fr2) \subseteq UsersIn(us, fr)
      /\ CallersIn(fr2) = CallersIn(fr) \ {c} /\ WakersIn(fr2) = WakersIn(fr)
      /\ fr[p].pc \notin Waiting => WaitersIn(fr2) = WaitersIn(fr)
      /\ fr[p].pc \in Waiting => WaitersIn(fr2) = WaitersIn(fr) \ {c}
  BY <1>1, <1>2, <1>3, RemoveView
<1>10. WaitersIn(fr2) = WaitersIn(fr) \ {c}
  <2>1. ASSUME fr[p].pc \notin Waiting PROVE c \notin WaitersIn(fr)
    BY <1>1, <1>3, <2>1 DEF WaitersIn, Single
  <2> QED BY <1>9, <2>1
<1> QED BY <1>5, <1>6, <1>7, <1>8, <1>9, <1>10 DEF AllGood

LEMMA AtTop ==
  ASSUME FramesInv, NEW t \in AllThreads, NEW pc, At(t, pc),
         NEW p, p = TopPlace(stack, t)
  PROVE  /\ p \in DOMAIN frames /\ frames[p] = Top(t) /\ Top(t).pc = pc /\ Running(t) /\ Typed
         /\ AllGood(loop, tasks, frames) /\ \A r \in tasks : IsRange(loop[r.call], r)
         /\ FrameOK(loop, frames[p]) /\ loop \in [Calls -> AllLoops]
         /\ Top(t) \in AllFrames /\ Top(t).range \in AllRanges
         /\ call(t) \in Calls /\ call(t) = Top(t).range.call /\ loop[call(t)] \in AllLoops
         /\ IsRange(loop[call(t)], Top(t).range)
<1>1. Typed /\ Running(t) /\ Top(t).pc = pc
  BY DEF FramesInv, At
<1>2. p \in DOMAIN frames /\ frames[p] = Top(t) /\ Top(t) \in AllFrames
  BY <1>1, TopIs
<1>3. AllGood(loop, tasks, frames) /\ \A r \in tasks : IsRange(loop[r.call], r)
  BY <1>1, FramesInvIs
<1>4. FrameOK(loop, frames[p]) /\ loop \in [Calls -> AllLoops]
  BY <1>1, <1>2, <1>3 DEF AllGood, Typed
<1> QED BY <1>1, <1>2, <1>3, <1>4, DebtIs DEF call

\* A thread's innermost frame goes on at pc.
LEMMA GoView ==
  ASSUME FramesInv, NEW t \in AllThreads, NEW from, At(t, from),
         NEW pc \in Owing \cup Waiting \cup {"signal", "wait"},
         stack' = [stack EXCEPT ![t] = GoTo(t, pc)],
         Typed', loop' = loop, tasks' = tasks,
         pc # "lower", from # "lower", pc \in Owing => from \in Owing,
         FrameOK(loop, Moved(Top(t), pc)), pc = "signal" => call(t) \notin Wakers
  PROVE  /\ FramesInv' /\ Callers' = Callers /\ InUse' = InUse
         /\ (from \in Waiting <=> pc \in Waiting) => Waiters' = Waiters
         /\ pc \in Waiting /\ from \notin Waiting => Waiters' = Waiters \cup {call(t)}
         /\ (from = "signal" <=> pc = "signal") => Wakers' = Wakers
         /\ pc = "signal" /\ from # "signal" => Wakers' = Wakers \cup {call(t)}
         /\ (from \in Early <=> pc \in Early) => Unstarted' = Unstarted
         /\ (from \in Undone <=> pc \in Undone) => Unrun' = Unrun
         /\ (from \in Owing <=> pc \in Owing) => Owed' = Owed
         /\ from \in Early /\ pc \notin Early => Unstarted' = Unstarted \ {Top(t).range}
         /\ from \in Undone /\ pc \notin Undone => Unrun' = Unrun \ {Top(t).range}
         /\ from \in Owing /\ pc \notin Owing => Owed' = Owed \ {Top(t).range}
<1> DEFINE p == TopPlace(stack, t)
           c == call(t)
           fr2 == frames'
<1>1. /\ p \in DOMAIN frames /\ frames[p] = Top(t) /\ Top(t).pc = from /\ Running(t) /\ Typed
      /\ AllGood(loop, tasks, frames) /\ \A r \in tasks : IsRange(loop[r.call], r)
      /\ c = Top(t).range.call
  BY AtTop
<1>2. fr2 = Replace(frames, p, Moved(frames[p], pc))
  BY <1>1, GoToStep
<1> HIDE DEF p, fr2
<1>3. c \notin WakersIn(frames) \/ pc # "signal"
  BY DEF Wakers
<1>4. /\ AllGood(loop, tasks, fr2)
      /\ \A pcs : (frames[p].pc \in pcs <=> pc \in pcs) =>
           Due(loop, tasks, fr2, pcs) = Due(loop, tasks, frames, pcs)
      /\ \A pcs : pcs \subseteq Owing /\ frames[p].pc \in pcs /\ pc \notin pcs =>
           Due(loop, tasks, fr2, pcs) = Due(loop, tasks, frames, pcs) \ {frames[p].range}
  BY <1>1, <1>2, <1>3, GoGood
<1>5. /\ CallersIn(fr2) = CallersIn(frames)
      /\ \A ts : UsersIn(ts, fr2) = UsersIn(ts, frames)
      /\ (frames[p].pc \in Waiting <=> pc \in Waiting) => WaitersIn(fr2) = WaitersIn(frames)
      /\ pc \in Waiting /\ frames[p].pc \notin Waiting => WaitersIn(fr2) = WaitersIn(frames) \cup {c}
      /\ (frames[p].pc = "signal" <=> pc = "signal") => WakersIn(fr2) = WakersIn(frames)
      /\ pc = "signal" /\ frames[p].pc # "signal" => WakersIn(fr2) = WakersIn(frames) \cup {c}
  <2>1. IsFrames(frames)
    BY <1>1 DEF AllGood
  <2>2. c = frames[p].range.call
    BY <1>1
  <2> HIDE DEF c
  <2> QED BY <1>1, <1>2, <2>1, <2>2, MoveView
<1>6. FramesInv'
  BY <1>1, <1>4, GoodStep DEF fr2
<1>7. Callers' = Callers /\ InUse' = InUse
  BY <1>5 DEF Callers, InUse, fr2
<1>8. /\ (from \in Waiting <=> pc \in Waiting) => Waiters' = Waiters
      /\ pc \in Waiting /\ from \notin Waiting => Waiters' = Waiters \cup {c}
      /\ (from = "signal" <=> pc = "signal") => Wakers' = Wakers
      /\ pc = "signal" /\ from # "signal" => Wakers' = Wakers \cup {c}
  BY <1>1, <1>5 DEF Waiters, Wakers, fr2
<1>9. ASSUME NEW pcs, from \in pcs <=> pc \in pcs
      PROVE  Due(loop', tasks', frames', pcs) = Due(loop, tasks, frames, pcs)
  BY <1>1, <1>4, <1>9 DEF fr2
<1>10. ASSUME NEW pcs, pcs \subseteq Owing, from \in pcs, pc \notin pcs
       PROVE  Due(loop', tasks', frames', pcs) = Due(loop, tasks, frames, pcs) \ {Top(t).range}
  BY <1>1, <1>4, <1>10 DEF fr2
<1>11. Early \subseteq Owing /\ Undone \subseteq Owing
  BY PcOrder
<1>12. /\ (from \in Early <=> pc \in Early) => Unstarted' = Unstarted
       /\ (from \in Undone <=> pc \in Undone) => Unrun' = Unrun
       /\ (from \in Owing <=> pc \in Owing) => Owed' = Owed
  BY <1>9 DEF Unstarted, Unrun, Owed
<1>13. /\ from \in Early /\ pc \notin Early => Unstarted' = Unstarted \ {Top(t).range}
       /\ from \in Undone /\ pc \notin Undone => Unrun' = Unrun \ {Top(t).range}
       /\ from \in Owing /\ pc \notin Owing => Owed' = Owed \ {Top(t).range}
  BY <1>10, <1>11 DEF Unstarted, Unrun, Owed
<1> QED BY <1>6, <1>7, <1>8, <1>12, <1>13 DEF c

\* HandleRange returns in a thread's innermost frame.
LEMMA LeftView ==
  ASSUME FramesInv, NEW t \in AllThreads, NEW from, At(t, from), from \in Owing \cup {"signal"},
         stack' = [stack EXCEPT ![t] = Leave(t)], Typed', loop' = loop,
         NEW p, p = TopPlace(stack, t),
         \/ tasks' = tasks
         \/ from \in Owing /\ tasks' = tasks \cup {Debt(loop, frames[p])}
  PROVE  /\ FramesInv' /\ Callers' = Callers /\ Waiters' = Waiters
         /\ tasks' = tasks => InUse' \subseteq InUse
         /\ Wakers' = Wakers \ IF from = "signal" THEN {call(t)} ELSE {}
         /\ tasks' = tasks /\ from \notin Undone =>
              /\ Unrun' = Unrun /\ Unstarted' = Unstarted
              /\ Owed' = Owed \ IF from \in Owing THEN {Debt(loop, frames[p])} ELSE {}
         /\ tasks' = tasks \cup {Debt(loop, frames[p])} /\ from = "lower" => SameDebts
<1> DEFINE c == call(t)
           fr2 == frames'
           d == Debt(loop, frames[p])
<1>1. /\ p \in DOMAIN frames /\ frames[p] = Top(t) /\ Top(t).pc = from /\ Running(t) /\ Typed
      /\ AllGood(loop, tasks, frames) /\ \A r \in tasks : IsRange(loop[r.call], r)
      /\ c = Top(t).range.call /\ FrameOK(loop, frames[p])
      /\ IsFrames(frames) /\ Single(frames)
  BY AtTop DEF AllGood
<1>2. fr2 = Left(frames, p)
  BY <1>1, LeaveStep
<1>a. d = Debt(loop, frames[p]) /\ (tasks' = tasks \/ (from \in Owing /\ tasks' = tasks \cup {d}))
  OBVIOUS
<1> HIDE DEF fr2, c, d
<1>b. frames[p].pc \in Owing \cup {"signal"} /\ d = Debt(loop, frames[p])
  BY <1>1, <1>a
<1>3. /\ AllGood(loop, tasks, fr2)
      /\ frames[p].pc \in Owing => AllGood(loop, tasks \cup {d}, fr2)
  BY <1>1, <1>2, <1>b, LeftGood
<1>c. ASSUME NEW pcs, pcs \subseteq Owing
      PROVE  /\ Due(loop, tasks, fr2, pcs) =
                  Due(loop, tasks, frames, pcs) \ IF frames[p].pc \in pcs THEN {d} ELSE {}
             /\ frames[p].pc \in pcs =>
                  Due(loop, tasks \cup {d}, fr2, pcs) = Due(loop, tasks, frames, pcs)
  BY <1>1, <1>2, <1>b, <1>c, LeftDue
<1>4. /\ CallersIn(fr2) = CallersIn(frames) /\ WaitersIn(fr2) = WaitersIn(frames)
      /\ \A ts : UsersIn(ts, fr2) \subseteq UsersIn(ts, frames)
      /\ WakersIn(fr2) = WakersIn(frames) \ IF frames[p].pc = "signal" THEN {frames[p].range.call} ELSE {}
  <2>1. CallersIn(fr2) = CallersIn(frames) /\ WaitersIn(fr2) = WaitersIn(frames)
    BY ONLY <1>1, <1>2, <1>b, LeaveFacts
  <2>2. \A ts : UsersIn(ts, fr2) \subseteq UsersIn(ts, frames)
    BY ONLY <1>1, <1>2, <1>b, LeaveFacts
  <2>3. WakersIn(fr2) = WakersIn(frames) \ IF frames[p].pc = "signal" THEN {frames[p].range.call} ELSE {}
    BY ONLY <1>1, <1>2, <1>b, LeaveFacts
  <2> QED BY <2>1, <2>2, <2>3
<1>5. AllGood(loop, tasks', fr2)
  BY <1>1, <1>a, <1>3
<1>6. \A r \in tasks' : IsRange(loop[r.call], r)
  <2>1. IsRange(loop[d.call], d)
    BY <1>1, AtTop, DebtIs DEF d
  <2> QED BY <1>1, <1>a, <2>1
<1>7. FramesInv'
  BY <1>5, <1>6, GoodStep DEF fr2
<1>8. /\ Callers' = Callers /\ Waiters' = Waiters
      /\ Wakers' = Wakers \ IF from = "signal" THEN {c} ELSE {}
  BY <1>1, <1>4 DEF Callers, Waiters, Wakers, fr2
<1>9. tasks' = tasks => InUse' \subseteq InUse
  BY <1>4 DEF InUse, fr2
<1>10. ASSUME NEW pcs, pcs \subseteq Owing, tasks' = tasks
       PROVE  Due(loop', tasks', frames', pcs) =
                Due(loop, tasks, frames, pcs) \ IF from \in pcs THEN {d} ELSE {}
  BY <1>1, <1>c, <1>10 DEF fr2
<1>11. ASSUME NEW pcs, pcs \subseteq Owing, from \in pcs, tasks' = tasks \cup {d}
       PROVE  Due(loop', tasks', frames', pcs) = Due(loop, tasks, frames, pcs)
  BY <1>1, <1>c, <1>11 DEF fr2
<1>12. /\ Early \subseteq Owing /\ Undone \subseteq Owing /\ Early \subseteq Undone
       /\ "lower" \in Early /\ "lower" \in Undone /\ "lower" \in Owing
  BY PcSets
<1>13. ASSUME tasks' = tasks, from \notin Undone
       PROVE  /\ Unrun' = Unrun /\ Unstarted' = Unstarted
              /\ Owed' = Owed \ IF from \in Owing THEN {d} ELSE {}
  <2>1. /\ Due(loop', tasks', frames', Owing) = Due(loop, tasks, frames, Owing) \ IF from \in Owing THEN {d} ELSE {}
        /\ Due(loop', tasks', frames', Undone) = Due(loop, tasks, frames, Undone) \ IF from \in Undone THEN {d} ELSE {}
        /\ Due(loop', tasks', frames', Early) = Due(loop, tasks, frames, Early) \ IF from \in Early THEN {d} ELSE {}
    BY <1>10, <1>12, <1>13
  <2>2. from \notin Undone /\ from \notin Early
    BY <1>12, <1>13
  <2> QED BY <2>1, <2>2 DEF Unrun, Unstarted, Owed
<1>14. ASSUME tasks' = tasks \cup {d}, from = "lower" PROVE SameDebts
  BY <1>11, <1>12, <1>14 DEF SameDebts, Unrun, Unstarted, Owed
<1> QED BY <1>7, <1>8, <1>9, <1>13, <1>14 DEF c, d

\* The halves of a range, as HandleRange cuts it, are what the frame owes.
LEMMA Halves ==
  ASSUME FramesInv, NEW t \in AllThreads, NEW p, p = TopPlace(stack, t),
         NEW r, r = Top(t).range, NEW l, l = loop[call(t)]
  PROVE  /\ At(t, "lower") => /\ RangeOf(call(t), r.first, Mid(t)) = Debt(loop, frames[p])
                              /\ Debt(loop, frames[p]).call = call(t)
                              /\ Debt(loop, frames[p]) \in AllRanges
         /\ At(t, "range") /\ ~ IsBlock(t) => ~ ShortRange(l, r)
         /\ At(t, "range") /\ IsBlock(t) => ShortRange(l, r)
         /\ Mid(t) = MidOf(l, r)
<1>1. Mid(t) = MidOf(l, r)
  BY DEF Mid, MidOf, Length, size
<1>2. IsBlock(t) <=> ShortRange(l, r)
  BY DEF IsBlock, ShortRange, Length, size
<1>3. ASSUME At(t, "lower")
      PROVE  /\ RangeOf(call(t), r.first, Mid(t)) = Debt(loop, frames[p])
             /\ Debt(loop, frames[p]).call = call(t) /\ Debt(loop, frames[p]) \in AllRanges
  <2>1. /\ p \in DOMAIN frames /\ frames[p] = Top(t) /\ Top(t).pc = "lower"
        /\ FrameOK(loop, frames[p]) /\ loop \in [Calls -> AllLoops] /\ Top(t) \in AllFrames
        /\ call(t) = Top(t).range.call
    BY <1>3, AtTop
  <2>2. Debt(loop, frames[p]) = RangeOf(call(t), r.first, Mid(t))
    BY <1>1, <2>1 DEF Debt
  <2> QED BY <2>1, <2>2, DebtIs
<1> QED BY <1>1, <1>2, <1>3

LEMMA LowerView ==
  ASSUME FramesInv, NEW t \in AllThreads, ScheduleLower(t)
  PROVE  FramesInv' /\ SameCalls /\ SameDebts /\ Wakers' = Wakers
<1> DEFINE p == TopPlace(stack, t)
           d == Debt(loop, frames[p])
<1>1. /\ At(t, "lower") /\ loop' = loop /\ stack' = [stack EXCEPT ![t] = Leave(t)]
      /\ tasks' = tasks \cup {d} /\ d.call = call(t) /\ d \in AllRanges
  BY Halves DEF ScheduleLower
<1>2. /\ p \in DOMAIN frames /\ frames[p] = Top(t) /\ Running(t) /\ Typed
      /\ call(t) = Top(t).range.call
  BY <1>1, AtTop
<1>3. stack' \in [AllThreads -> Seq(AllFrames)] /\ frames' = Left(frames, p)
  BY <1>1, <1>2, LeaveStep
<1>4. Typed'
  BY <1>1, <1>2, <1>3 DEF ScheduleLower, Typed
<1>5. "lower" \in Owing /\ "lower" \in Undone /\ "lower" \in Early /\ Early \subseteq Owing /\ Undone \subseteq Owing
  BY PcOrder
<1>6. FramesInv' /\ Callers' = Callers /\ Waiters' = Waiters /\ Wakers' = Wakers /\ SameDebts
  <2> DEFINE from == "lower"
  <2>1. At(t, from) /\ from \in Owing \cup {"signal"} /\ from # "signal" /\ from \in Owing
    BY <1>1, <1>5
  <2> HIDE DEF from, p
  <2>2. p = TopPlace(stack, t) /\ (tasks' = tasks \/ (from \in Owing /\ tasks' = tasks \cup {Debt(loop, frames[p])}))
    BY <1>1, <2>1 DEF p
  <2>3. /\ FramesInv' /\ Callers' = Callers /\ Waiters' = Waiters
        /\ Wakers' = Wakers \ IF from = "signal" THEN {call(t)} ELSE {}
        /\ tasks' = tasks \cup {Debt(loop, frames[p])} /\ from = "lower" => SameDebts
    BY <1>1, <1>4, <2>1, <2>2, LeftView
  <2> QED BY <1>1, <2>1, <2>3 DEF from
<1>8. InUse' \subseteq InUse
  <2>1. \A ts : UsersIn(ts, frames') \subseteq UsersIn(ts, frames)
    <3>1. AllGood(loop, tasks, frames) /\ FrameOK(loop, frames[p]) /\ frames[p].pc \in Owing \cup {"signal"}
      BY <1>1, <1>2, <1>5, AtTop
    <3>2. IsFrames(frames) /\ Single(frames)
      BY <3>1 DEF AllGood
    <3> DEFINE fr2 == frames'
    <3>3. fr2 = Left(frames, p)
      BY <1>3
    <3> HIDE DEF fr2
    <3> QED BY <1>2, <3>1, <3>2, <3>3, LeaveFacts DEF fr2
  <2>2. UsersIn(tasks', frames) \subseteq UsersIn(tasks, frames)
    BY <1>1, <1>2 DEF UsersIn
  <2> QED BY <2>1, <2>2 DEF InUse
<1> QED BY <1>6, <1>8 DEF SameCalls

LEMMA UpperView ==
  ASSUME FramesInv, Apart, NEW t \in AllThreads, ScheduleUpper(t), NEW r, r = Top(t).range
  PROVE  /\ FramesInv' /\ SameCalls /\ Wakers' = Wakers
         /\ \E lo, up :
              /\ lo.call = r.call /\ up.call = r.call
              /\ Indices(lo) \cup Indices(up) = Indices(r) /\ Indices(lo) \cap Indices(up) = {}
              /\ Halved(Owed, Owed', r, up, lo) /\ Halved(Unrun, Unrun', r, up, lo)
              /\ Halved(Unstarted, Unstarted', r, up, lo)
<1> DEFINE p == TopPlace(stack, t)
           l == loop[call(t)]
           lo == RangeOf(r.call, r.first, MidOf(l, r))
           up == RangeOf(r.call, MidOf(l, r), r.last)
           fr2 == frames'
<1>1. /\ At(t, "range") /\ ~ IsBlock(t) /\ loop' = loop
      /\ stack' = [stack EXCEPT ![t] = GoTo(t, "lower")]
  BY DEF ScheduleUpper
<1>2. /\ p \in DOMAIN frames /\ frames[p] = Top(t) /\ Top(t).pc = "range" /\ Running(t) /\ Typed
      /\ AllGood(loop, tasks, frames) /\ \A x \in tasks : IsRange(loop[x.call], x)
      /\ Top(t) \in AllFrames /\ r \in AllRanges /\ call(t) = r.call /\ r.call \in Calls
      /\ loop \in [Calls -> AllLoops] /\ l \in AllLoops /\ IsRange(l, r)
      /\ Debt(loop, frames[p]) = r
  BY <1>1, AtTop DEF Debt
<1>3. Mid(t) = MidOf(l, r) /\ ~ ShortRange(l, r)
  BY <1>1, Halves
<1>4. /\ tasks' = tasks \cup {up} /\ lo = RangeOf(r.call, r.first, MidOf(l, r))
      /\ up = RangeOf(r.call, MidOf(l, r), r.last)
  BY <1>2, <1>3 DEF ScheduleUpper
<1> HIDE DEF l, lo, up
<1>5. /\ lo # r /\ up # r /\ lo # up /\ lo.call = r.call /\ up.call = r.call
      /\ Indices(lo) \cup Indices(up) = Indices(r) /\ Indices(lo) \cap Indices(up) = {}
      /\ Indices(lo) # {} /\ Indices(up) # {}
      /\ up \in AllRanges /\ IsRange(l, up)
  <2>1. l \in AllLoops /\ r \in AllRanges /\ IsRange(l, r) /\ ~ ShortRange(l, r)
    BY <1>2, <1>3
  <2> QED BY ONLY <1>4, <2>1, SplitIs
<1>6. /\ stack' \in [AllThreads -> Seq(AllFrames)]
      /\ fr2 = Replace(frames, p, Moved(Top(t), "lower"))
  BY <1>1, <1>2, PcSets, GoToStep
<1>7. Typed'
  BY <1>1, <1>2, <1>4, <1>5, <1>6 DEF ScheduleUpper, Typed
<1> HIDE DEF p, fr2
<1>8. /\ IsFrames(frames) /\ Single(frames) /\ Sole(loop, tasks, frames)
      /\ "lower" \in Owing \cup Waiting \cup {"signal", "wait"}
      /\ fr2 = Replace(frames, p, Moved(frames[p], "lower"))
  BY <1>2, <1>6, PcSets DEF AllGood
<1>9. /\ Elsewhere(frames, fr2, p) /\ p \in DOMAIN fr2 /\ fr2[p].pc = "lower"
      /\ fr2[p].range = r /\ fr2[p].caller = frames[p].caller /\ Single(fr2)
      /\ \A pcs : Has(fr2, p, pcs) <=> "lower" \in pcs
  BY <1>2, <1>8, MoveFacts
<1>10. IsFrames(fr2)
  BY <1>2, <1>8, MovedIs, ReplaceIs
<1>11. Debt(loop, fr2[p]) = lo
  BY <1>2, <1>4, <1>9 DEF Debt, l
<1>12. \A q \in DOMAIN fr2 : FrameOK(loop, fr2[q])
  <2>1. FrameOK(loop, fr2[p])
    <3>1. "lower" \notin Waiting
      BY PcSets
    <3> QED BY <1>2, <1>3, <1>9, <3>1 DEF FrameOK, l
  <2> QED BY <1>2, <1>9, <2>1 DEF AllGood, Elsewhere
<1>13. r \in Unstarted /\ r \in Unrun /\ r \in Owed
  <2>1. frames[p].pc \in Early /\ frames[p].pc \in Undone /\ frames[p].pc \in Owing
    BY <1>2, PcSets
  <2> QED BY <1>2, <2>1, InViews
\* Nobody else owes a part of r.
<1>14. ASSUME NEW d \in Owed, d # r PROVE d # lo /\ d # up
  <2>1. d.call = r.call => Indices(d) \cap Indices(r) = {}
    BY <1>13, <1>14 DEF Apart
  <2> QED BY <1>5, <2>1
<1>15. Sole(loop, tasks', fr2)
  <2>1. ASSUME NEW q, q # p, Has(frames, q, Owing)
        PROVE  Debt(loop, frames[q]) \in Owed /\ Debt(loop, frames[q]) # r
    BY <1>2, <1>8, <2>1, InViews, PcSets DEF Has, Sole
  <2>2. lo \notin tasks'
    <3>1. \A x \in tasks : x \in Owed
      BY DueIs DEF Owed
    <3>2. r \notin tasks
      BY <1>2, <1>8, PcSets DEF Sole
    <3> QED BY <1>4, <1>5, <1>14, <3>1, <3>2
  <2>3. \A q : q # p /\ Has(frames, q, Owing) =>
           /\ Debt(loop, frames[q]) \notin tasks' \ tasks
           /\ Has(fr2, p, Owing) => Debt(loop, frames[q]) # Debt(loop, fr2[p])
    BY <1>4, <1>11, <1>14, <2>1
  <2> QED BY <1>8, <1>9, <1>11, <2>2, <2>3, StaySole
<1>16. FramesInv'
  <2>1. AllGood(loop, tasks', fr2)
    BY <1>9, <1>10, <1>12, <1>15 DEF AllGood
  <2>2. \A x \in tasks' : IsRange(loop[x.call], x)
    BY <1>2, <1>4, <1>5 DEF l
  <2> QED BY <1>1, <1>7, <2>1, <2>2, GoodStep DEF fr2
<1>17. ASSUME NEW pcs, pcs \subseteq Owing, "range" \in pcs, "lower" \in pcs
       PROVE  Halved(Due(loop, tasks, frames, pcs), Due(loop', tasks', frames', pcs), r, up, lo)
  <2>1. Has(frames, p, pcs) /\ Has(fr2, p, pcs)
    BY <1>2, <1>9, <1>17 DEF Has
  <2>2. /\ Elsewhere(frames, fr2, p) /\ Sole(loop, tasks, frames)
        /\ up # Debt(loop, frames[p]) /\ Debt(loop, fr2[p]) # Debt(loop, frames[p])
    BY <1>2, <1>5, <1>8, <1>9, <1>11
  <2>3. Halved(Due(loop, tasks, frames, pcs), Due(loop, tasks \cup {up}, fr2, pcs),
               Debt(loop, frames[p]), up, Debt(loop, fr2[p]))
    BY ONLY <1>17, <2>1, <2>2, SplitDue
  <2> QED BY <1>1, <1>2, <1>4, <1>11, <2>3 DEF fr2
<1>18. /\ Halved(Owed, Owed', r, up, lo) /\ Halved(Unrun, Unrun', r, up, lo)
       /\ Halved(Unstarted, Unstarted', r, up, lo)
  BY <1>17, PcOrder DEF Owed, Unrun, Unstarted
<1>19. /\ CallersIn(fr2) = CallersIn(frames)
       /\ \A ts : UsersIn(ts, fr2) = UsersIn(ts, frames)
       /\ WaitersIn(fr2) = WaitersIn(frames) /\ WakersIn(fr2) = WakersIn(frames)
  <2> DEFINE pc == "lower"
  <2>1. /\ pc \in Owing \cup Waiting \cup {"signal", "wait"} /\ pc \notin Waiting /\ pc # "signal"
        /\ frames[p].pc \notin Waiting /\ frames[p].pc # "signal"
        /\ fr2 = Replace(frames, p, Moved(frames[p], pc))
    BY <1>2, <1>8, PcSets
  <2> HIDE DEF pc
  <2> QED BY <1>2, <1>8, <2>1, MoveView
<1>20. SameCalls /\ Wakers' = Wakers
  <2>1. Callers' = Callers /\ Waiters' = Waiters /\ Wakers' = Wakers
    BY <1>19 DEF Callers, Waiters, Wakers, fr2
  <2>2. InUse' \subseteq InUse
    <3>1. UsersIn(tasks \cup {up}, frames) \subseteq UsersIn(tasks, frames)
      BY <1>2, <1>5 DEF UsersIn
    <3> QED BY <1>4, <1>19, <3>1 DEF InUse, fr2
  <2> QED BY <2>1, <2>2 DEF SameCalls
<1> QED BY <1>5, <1>16, <1>18, <1>20

\* A block starts: on its own, or with a call that it makes.
LEMMA BlockView ==
  ASSUME FramesInv, NEW t \in AllThreads, StartBlock(t),
         stack' = [stack EXCEPT ![t] = GoTo(t, "body")], NEW r, r = Top(t).range
  PROVE  /\ FramesInv' /\ SameCalls /\ Wakers' = Wakers
         /\ Owed' = Owed /\ Unrun' = Unrun /\ Unstarted' = Unstarted \ {r}
<1> DEFINE from == "range"
           pc == "body"
<1>1. /\ At(t, from) /\ IsBlock(t) /\ loop' = loop /\ tasks' = tasks
      /\ stack' = [stack EXCEPT ![t] = GoTo(t, pc)]
  BY DEF StartBlock
<1>2. /\ Running(t) /\ Typed /\ Top(t).pc = from /\ Top(t) \in AllFrames
      /\ FrameOK(loop, Top(t)) /\ call(t) = r.call
  BY <1>1, AtTop
<1>3. /\ pc \in Owing \cup Waiting \cup {"signal", "wait"} /\ pc # "lower" /\ from # "lower"
      /\ from \in Owing /\ pc \in Owing /\ from \notin Waiting /\ pc \notin Waiting /\ pc # "signal"
      /\ from # "signal" /\ from \in Early /\ pc \notin Early /\ from \in Undone /\ pc \in Undone
  BY PcSets
<1>4. pc \notin Waiting \cup {"wait"}
  BY PcSets
<1> HIDE DEF from, pc
<1>5. Typed'
  BY <1>1, <1>2, <1>3, GoToStep DEF StartBlock, Typed
<1>6. FrameOK(loop, Moved(Top(t), pc))
  <2>1. ShortRange(loop[call(t)], r)
    BY <1>1, <1>2, Halves DEF from
  <2>2. Moved(Top(t), pc).range = r /\ Moved(Top(t), pc).pc = pc
    BY <1>2, <1>3, MovedIs
  <2> QED BY <1>2, <1>3, <1>4, <2>1, <2>2 DEF FrameOK
<1> QED BY <1>1, <1>3, <1>5, <1>6, GoView DEF SameCalls

LEMMA FinishView ==
  ASSUME FramesInv, NEW t \in AllThreads, FinishBlock(t), NEW r, r = Top(t).range
  PROVE  /\ FramesInv' /\ SameCalls /\ Wakers' = Wakers
         /\ r \in Unrun /\ r \in Owed
         /\ Owed' = Owed /\ Unrun' = Unrun \ {r} /\ Unstarted' = Unstarted
<1> DEFINE from == "body"
           pc == "notify"
<1>1. /\ At(t, from) /\ loop' = loop /\ tasks' = tasks
      /\ stack' = [stack EXCEPT ![t] = GoTo(t, pc)]
  BY DEF FinishBlock
<1>2. /\ Running(t) /\ Typed /\ Top(t).pc = from /\ Top(t) \in AllFrames
      /\ FrameOK(loop, Top(t)) /\ call(t) = r.call /\ r.call \in Calls
      /\ TopPlace(stack, t) \in DOMAIN frames /\ frames[TopPlace(stack, t)] = Top(t)
  BY <1>1, AtTop
<1>3. /\ pc \in Owing \cup Waiting \cup {"signal", "wait"} /\ pc # "lower" /\ from # "lower"
      /\ from \in Owing /\ pc \in Owing /\ from \notin Waiting /\ pc \notin Waiting /\ pc # "signal"
      /\ from # "signal" /\ from \notin Early /\ pc \notin Early /\ from \in Undone /\ pc \notin Undone
  BY PcSets
<1>4. pc \notin Waiting \cup {"wait"} /\ from \in {"body", "notify"}
  BY PcSets
<1> HIDE DEF from, pc
<1>5. Typed'
  <2>1. stack' \in [AllThreads -> Seq(AllFrames)]
    BY <1>1, <1>2, <1>3, GoToStep
  <2>2. /\ DOMAIN ran = Calls
        /\ \A c \in Calls : ran[c] \in [0..loop[c].n - 1 -> Int]
    BY <1>2 DEF Typed
  <2>3. ran' = [ran EXCEPT ![call(t)] =
                  [i \in DOMAIN ran[call(t)] |-> IF i \in Indices(Top(t).range)
                                                 THEN ran[call(t)][i] + 1 ELSE ran[call(t)][i]]]
    BY DEF FinishBlock
  <2>4. DOMAIN ran' = Calls /\ \A c \in Calls : ran'[c] \in [0..loop[c].n - 1 -> Int]
    <3> DEFINE c0 == call(t)
               f == ran[c0]
               g == [i \in DOMAIN f |-> IF i \in Indices(Top(t).range) THEN f[i] + 1 ELSE f[i]]
    <3>1. f \in [0..loop[c0].n - 1 -> Int] /\ c0 \in Calls
      BY <1>2, <2>2
    <3>2. g \in [0..loop[c0].n - 1 -> Int]
      <4> DEFINE D == 0..loop[c0].n - 1
      <4> HIDE DEF f, D
      <4>1. f \in [D -> Int]
        BY <3>1 DEF D
      <4>2. g \in [D -> Int]
        BY <4>1
      <4> QED BY <4>2 DEF D
    <3>3. ran' = [ran EXCEPT ![c0] = g]
      BY <2>3
    <3> HIDE DEF g, c0, f
    <3> QED BY <2>2, <3>1, <3>2, <3>3
  <2> QED BY <1>1, <1>2, <2>1, <2>4 DEF FinishBlock, Typed
<1>6. FrameOK(loop, Moved(Top(t), pc))
  <2>1. ShortRange(loop[r.call], r)
    BY <1>2, <1>4 DEF FrameOK
  <2>2. Moved(Top(t), pc).range = r /\ Moved(Top(t), pc).pc = pc
    BY <1>2, <1>3, MovedIs
  <2> QED BY <1>2, <1>3, <1>4, <2>1, <2>2 DEF FrameOK
<1>7. r \in Unrun /\ r \in Owed
  <2>1. Debt(loop, Top(t)) = r
    BY <1>2, <1>3 DEF Debt
  <2> QED BY <1>2, <1>3, <2>1, InViews
<1> QED BY <1>1, <1>3, <1>5, <1>6, <1>7, GoView DEF SameCalls

\* A thread reports a block: it goes on to wake the caller, or HandleRange returns.
LEMMA NotifyView ==
  ASSUME FramesInv, NEW t \in AllThreads, Notify(t), NEW r, r = Top(t).range,
         state_'[call(t)] = 1 => call(t) \notin Wakers
  PROVE  /\ FramesInv' /\ SameCalls
         /\ Wakers' = Wakers \cup IF state_'[call(t)] = 1 THEN {call(t)} ELSE {}
         /\ r \in Owed /\ ShortRange(loop[call(t)], r) /\ call(t) = r.call /\ r.call \in Calls
         /\ Owed' = Owed \ {r} /\ Unrun' = Unrun /\ Unstarted' = Unstarted
<1> DEFINE from == "notify"
           pc == "signal"
           p == TopPlace(stack, t)
<1>1. At(t, from) /\ loop' = loop /\ tasks' = tasks
  BY DEF Notify
<1>2. /\ Running(t) /\ Typed /\ Top(t).pc = from /\ Top(t) \in AllFrames
      /\ FrameOK(loop, Top(t)) /\ call(t) = r.call /\ r.call \in Calls
      /\ p \in DOMAIN frames /\ frames[p] = Top(t)
  BY <1>1, AtTop
<1>3. /\ pc \in Owing \cup Waiting \cup {"signal", "wait"} /\ pc # "lower" /\ from # "lower"
      /\ from \in Owing /\ pc \notin Owing /\ from \notin Waiting /\ pc \notin Waiting /\ pc = "signal"
      /\ from # "signal" /\ from \notin Early /\ pc \notin Early /\ from \notin Undone /\ pc \notin Undone
  BY PcSets
<1>4. pc \notin Waiting \cup {"wait"} /\ pc \notin {"body", "notify"} /\ from \in {"body", "notify"}
  BY PcSets
<1> HIDE DEF from, pc
<1>5. Debt(loop, Top(t)) = r /\ r \in Owed
  <2>1. Debt(loop, Top(t)) = r
    BY <1>2, <1>3 DEF Debt
  <2> QED BY <1>2, <1>3, <2>1, InViews
<1>6. ShortRange(loop[call(t)], r)
  BY <1>2, <1>4 DEF FrameOK
<1>7. state_' \in [Calls -> Int]
  BY <1>2 DEF Notify, Typed
<1>8. CASE state_'[call(t)] = 1
  <2>1. stack' = [stack EXCEPT ![t] = GoTo(t, pc)]
    BY <1>8 DEF Notify, pc
  <2>2. Typed'
    BY <1>1, <1>2, <1>3, <1>7, <2>1, GoToStep DEF Notify, Typed
  <2>3. FrameOK(loop, Moved(Top(t), pc))
    <3>1. Moved(Top(t), pc).range = r /\ Moved(Top(t), pc).pc = pc
      BY <1>2, <1>3, MovedIs
    <3> QED BY <1>2, <1>3, <1>4, <3>1 DEF FrameOK
  <2>4. call(t) \notin Wakers
    BY <1>8
  <2>5. /\ FramesInv' /\ SameCalls /\ Wakers' = Wakers \cup {call(t)}
        /\ Owed' = Owed \ {r} /\ Unrun' = Unrun /\ Unstarted' = Unstarted
    BY <1>1, <1>3, <2>1, <2>2, <2>3, <2>4, GoView DEF SameCalls
  <2> QED BY <1>2, <1>5, <1>6, <1>8, <2>5
<1>9. CASE state_'[call(t)] # 1
  <2>1. stack' = [stack EXCEPT ![t] = Leave(t)]
    BY <1>9 DEF Notify
  <2>2. Typed'
    BY <1>1, <1>2, <1>7, <2>1, LeaveStep DEF Notify, Typed
  <2> HIDE DEF p
  <2>3. p = TopPlace(stack, t) /\ from \in Owing \cup {"signal"}
    BY <1>3 DEF p
  <2>4. /\ FramesInv' /\ Callers' = Callers /\ Waiters' = Waiters /\ InUse' \subseteq InUse
        /\ Wakers' = Wakers \ IF from = "signal" THEN {call(t)} ELSE {}
        /\ Unrun' = Unrun /\ Unstarted' = Unstarted
        /\ Owed' = Owed \ IF from \in Owing THEN {Debt(loop, frames[p])} ELSE {}
    BY <1>1, <1>3, <2>1, <2>2, <2>3, LeftView
  <2>5. Owed' = Owed \ {r} /\ Wakers' = Wakers
    BY <1>2, <1>3, <1>5, <2>4
  <2> QED BY <1>2, <1>5, <1>6, <1>9, <2>4, <2>5 DEF SameCalls
<1> QED BY <1>8, <1>9

LEMMA Singles ==
  ASSUME NEW S, NEW f \in S, NEW g \in S
  PROVE  <<g>> \o <<f>> = <<g, f>>
<1> DEFINE a == <<g>>
           b == <<f>>
           d == <<g, f>>
<1>1. a \in Seq(S) /\ Len(a) = 1 /\ a[1] = g
  OBVIOUS
<1>a. b \in Seq(S) /\ Len(b) = 1 /\ b[1] = f
  OBVIOUS
<1>b. d \in Seq(S) /\ Len(d) = 2 /\ d[1] = g /\ d[2] = f
  OBVIOUS
<1> HIDE DEF a, b, d
<1>2. /\ a \o b \in Seq(S) /\ Len(a \o b) = Len(a) + Len(b)
      /\ \A i \in 1 .. Len(a) + Len(b) : (a \o b)[i] = IF i <= Len(a) THEN a[i] ELSE b[i - Len(a)]
  BY <1>1, <1>a, ConcatProperties
<1>3. (a \o b)[1] = a[1] /\ (a \o b)[2] = b[1]
  BY <1>1, <1>a, <1>2
<1>4. a \o b = d
  <2>1. \A i \in 1..Len(a \o b) : (a \o b)[i] = d[i]
    BY <1>1, <1>a, <1>b, <1>2, <1>3
  <2>2. Len(a \o b) = Len(d)
    BY <1>1, <1>a, <1>b, <1>2
  <2>3. a \o b \in Seq(S) /\ d \in Seq(S)
    BY <1>2, <1>b
  <2> QED BY <2>1, <2>2, <2>3, SeqEqual
<1> QED BY <1>4 DEF a, b, d

LEMMA TwoFrames ==
  ASSUME NEW S, NEW f \in S, NEW g \in S, NEW s \in Seq(S)
  PROVE  <<g>> \o (<<f>> \o s) = <<g, f>> \o s
<1> DEFINE a == <<g>>
           b == <<f>>
<1>1. a \in Seq(S) /\ b \in Seq(S)
  OBVIOUS
<1>2. a \o b = <<g, f>>
  BY Singles
<1> HIDE DEF a, b
<1>3. (a \o b) \o s = a \o (b \o s)
  BY <1>1, ConcatAssociative
<1> QED BY <1>2, <1>3 DEF a, b

DebtsOfCall(r, w) ==
  /\ Owed' = Owed \cup {w} /\ Unrun' = Unrun \cup {w}
  /\ Unstarted' = (Unstarted \ {r}) \cup {w}

\* The block makes a call, which nobody has made before.
LEMMA InnerView ==
  ASSUME FramesInv, NEW t \in AllThreads, StartBlock(t),
         NEW c \in Calls, c \notin InUse, c \notin Callers,
         stack' = [stack EXCEPT ![t] = <<CallFrame(c)>> \o GoTo(t, "body")],
         NEW r, r = Top(t).range, NEW w, w = RangeOf(c, 0, loop[c].n)
  PROVE  /\ FramesInv' /\ Callers' = Callers \cup {c} /\ InUse' = InUse \cup {c}
         /\ Waiters' = Waiters /\ Wakers' = Wakers
         /\ r \in Unstarted /\ r \in Owed /\ call(t) = r.call /\ r.call \in Calls
         /\ DebtsOfCall(r, w)
<1> DEFINE from == "range"
           pc == "body"
           p == TopPlace(stack, t)
           f == Moved(Top(t), pc)
           g == Frame(w, TRUE)
           fr1 == Replace(frames, p, Moved(frames[p], pc))
           fr2 == frames'
<1>1. At(t, from) /\ IsBlock(t) /\ loop' = loop /\ tasks' = tasks
  BY DEF StartBlock
<1>2. /\ p \in DOMAIN frames /\ frames[p] = Top(t) /\ Top(t).pc = from /\ Running(t) /\ Typed
      /\ AllGood(loop, tasks, frames) /\ \A x \in tasks : IsRange(loop[x.call], x)
      /\ FrameOK(loop, frames[p]) /\ loop \in [Calls -> AllLoops]
      /\ Top(t) \in AllFrames /\ call(t) = r.call /\ r.call \in Calls
      /\ stack \in [AllThreads -> Seq(AllFrames)] /\ stack[t] # <<>>
  BY <1>1, AtTop DEF Typed, Running
<1>3. /\ pc \in Owing \cup Waiting \cup {"signal", "wait"} /\ pc # "lower" /\ from # "lower"
      /\ from \in Owing /\ pc \in Owing /\ from \notin Waiting /\ pc \notin Waiting /\ pc # "signal"
      /\ from # "signal" /\ from \in Early /\ pc \notin Early /\ from \in Undone /\ pc \in Undone
      /\ pc \notin Waiting \cup {"wait"} /\ Early \subseteq Owing
      /\ "range" \in Owing /\ "range" \in Undone /\ "range" \in Early
  BY PcSets
<1>4. w.call = c /\ w \in AllRanges /\ IsRange(loop[w.call], w)
  <2>1. loop[c] \in AllLoops /\ loop[c].n \in Nat
    BY <1>2, BlocksOfLoop
  <2>2. IsRange(loop[c], w)
    BY <2>1, WholeRange
  <2>3. w.call = c
    BY DEF RangeOf
  <2> QED BY <2>1, <2>2, <2>3 DEF AllRanges, RangeOf
<1>5. f \in AllFrames /\ g \in AllFrames /\ f = Moved(frames[p], pc) /\ f.range = r /\ f.pc = pc
  <2>1. f \in AllFrames /\ f.range = r /\ f.pc = pc
    BY <1>2, <1>3, MovedIs
  <2>2. g \in AllFrames
    BY <1>4, NewFrame
  <2> QED BY <1>2, <2>1, <2>2
<1>6. Becomes(stack, stack', t, <<g, f>>)
  <2>1. Tail(stack[t]) \in Seq(AllFrames)
    BY <1>2
  <2>2. stack' = [stack EXCEPT ![t] = <<g>> \o (<<f>> \o Tail(stack[t]))]
    BY DEF CallFrame, GoTo, Moved
  <2> DEFINE tl == Tail(stack[t])
  <2>3. f \in AllFrames /\ g \in AllFrames /\ tl \in Seq(AllFrames)
    BY <1>5, <2>1
  <2>4. stack' = [stack EXCEPT ![t] = <<g>> \o (<<f>> \o tl)]
    BY <2>2
  <2> HIDE DEF f, g, tl
  <2>5. <<g>> \o (<<f>> \o tl) = <<g, f>> \o tl
    BY ONLY <2>3, TwoFrames
  <2> QED BY <2>4, <2>5 DEF Becomes, tl
<1>7. fr1 = Replace(frames, p, Moved(frames[p], pc)) /\ fr1 = Replace(FramesIn(stack), p, f)
  BY <1>5 DEF frames
<1>a. g = Frame(w, TRUE)
  OBVIOUS
<1> HIDE DEF from, pc, f, g, fr1
<1>8. /\ \E q : q \notin DOMAIN frames /\ fr2 = Add(fr1, q, g)
      /\ stack' \in [AllThreads -> Seq(AllFrames)]
  <2>1. /\ \E q : /\ q \notin DOMAIN FramesIn(stack)
                  /\ FramesIn(stack') = Add(Replace(FramesIn(stack), p, f), q, g)
        /\ stack' \in [AllThreads -> Seq(AllFrames)]
    <3>1. /\ stack \in [AllThreads -> Seq(AllFrames)] /\ stack[t] # <<>> /\ t \in AllThreads
          /\ f \in AllFrames /\ g \in AllFrames /\ Becomes(stack, stack', t, <<g, f>>)
      BY <1>2, <1>5, <1>6
    <3>2. Pushed(stack, stack', t, f, g)
      BY ONLY <3>1, PushStep
    <3> QED BY <3>2 DEF Pushed, p
  <2> QED BY <1>7, <2>1 DEF frames
<1> HIDE DEF fr2, p
<1>9. PICK q : q \notin DOMAIN frames /\ fr2 = Add(fr1, q, g)
  BY <1>8
<1>10. DOMAIN fr1 = DOMAIN frames
  BY <1>7 DEF Replace
<1>11. FrameOK(loop, Moved(frames[p], pc))
  <2>1. ShortRange(loop[call(t)], r)
    BY <1>1, Halves DEF from
  <2> QED BY <1>2, <1>3, <1>5, <2>1 DEF FrameOK
<1>12. /\ AllGood(loop, tasks, fr1)
       /\ \A pcs : (frames[p].pc \in pcs <=> pc \in pcs) =>
            Due(loop, tasks, fr1, pcs) = Due(loop, tasks, frames, pcs)
       /\ \A pcs : pcs \subseteq Owing /\ frames[p].pc \in pcs /\ pc \notin pcs =>
            Due(loop, tasks, fr1, pcs) = Due(loop, tasks, frames, pcs) \ {frames[p].range}
  <2>1. /\ AllGood(loop, tasks, frames) /\ p \in DOMAIN frames
        /\ pc \in Owing \cup Waiting \cup {"signal", "wait"} /\ pc # "lower" /\ pc # "signal"
        /\ frames[p].pc # "lower" /\ frames[p].pc \in Owing
        /\ FrameOK(loop, Moved(frames[p], pc)) /\ fr1 = Replace(frames, p, Moved(frames[p], pc))
    BY <1>2, <1>3, <1>7, <1>11
  <2> QED BY ONLY <2>1, GoGood
<1>13. /\ Due(loop, tasks, fr1, Owing) = Owed /\ Due(loop, tasks, fr1, Undone) = Unrun
       /\ Due(loop, tasks, fr1, Early) = Unstarted \ {r}
  BY <1>2, <1>3, <1>12 DEF Owed, Unrun, Unstarted
<1>14. /\ CallersIn(fr1) = Callers /\ \A ts : UsersIn(ts, fr1) = UsersIn(ts, frames)
       /\ WaitersIn(fr1) = Waiters /\ WakersIn(fr1) = Wakers
  <2>1. /\ IsFrames(frames) /\ p \in DOMAIN frames
        /\ pc \in Owing \cup Waiting \cup {"signal", "wait"} /\ pc \notin Waiting /\ pc # "signal"
        /\ frames[p].pc \notin Waiting /\ frames[p].pc # "signal"
        /\ fr1 = Replace(frames, p, Moved(frames[p], pc))
    BY <1>2, <1>3, <1>7 DEF AllGood
  <2>2. /\ CallersIn(fr1) = CallersIn(frames) /\ \A ts : UsersIn(ts, fr1) = UsersIn(ts, frames)
        /\ WaitersIn(fr1) = WaitersIn(frames) /\ WakersIn(fr1) = WakersIn(frames)
    BY ONLY <2>1, MoveView
  <2> QED BY <2>2 DEF Callers, Waiters, Wakers
<1>15. w \notin Owed
  BY <1>4, OwedFacts
<1>16. /\ AllGood(loop, tasks, fr2)
       /\ \A pcs : "range" \in pcs => Due(loop, tasks, fr2, pcs) = Due(loop, tasks, fr1, pcs) \cup {w}
       /\ \A us : UsersIn(us, fr2) = UsersIn(us, fr1) \cup {c}
       /\ CallersIn(fr2) = CallersIn(fr1) \cup {c}
       /\ WaitersIn(fr2) = WaitersIn(fr1) /\ WakersIn(fr2) = WakersIn(fr1)
  <2>1. /\ AllGood(loop, tasks, fr1) /\ q \notin DOMAIN fr1 /\ w \in AllRanges
        /\ IsRange(loop[w.call], w) /\ w \notin Due(loop, tasks, fr1, Owing)
        /\ w.call \notin CallersIn(fr1) /\ fr2 = Add(fr1, q, Frame(w, TRUE)) /\ w.call = c
    BY <1>4, <1>9, <1>10, <1>12, <1>13, <1>14, <1>15, <1>a
  <2>2. MayAdd(loop, tasks, fr1, q, w)
    BY <2>1 DEF MayAdd
  <2>3. Added(loop, tasks, fr1, fr2, w)
    BY ONLY <2>1, <2>2, AddGood
  <2> QED BY <2>1, <2>3 DEF Added
<1>17. Typed'
  BY <1>1, <1>2, <1>8 DEF StartBlock, Typed
<1>18. FramesInv'
  BY <1>1, <1>2, <1>16, <1>17, GoodStep DEF fr2
<1>19. /\ Callers' = Callers \cup {c} /\ InUse' = InUse \cup {c}
       /\ Waiters' = Waiters /\ Wakers' = Wakers
  BY <1>1, <1>14, <1>16 DEF Callers, InUse, Waiters, Wakers, fr2
<1>20. Owed' = Owed \cup {w} /\ Unrun' = Unrun \cup {w} /\ Unstarted' = (Unstarted \ {r}) \cup {w}
  <2>1. /\ Due(loop, tasks, fr2, Owing) = Owed \cup {w} /\ Due(loop, tasks, fr2, Undone) = Unrun \cup {w}
        /\ Due(loop, tasks, fr2, Early) = (Unstarted \ {r}) \cup {w}
    BY <1>3, <1>13, <1>16
  <2>2. /\ Owed' = Due(loop', tasks', fr2, Owing) /\ Unrun' = Due(loop', tasks', fr2, Undone)
        /\ Unstarted' = Due(loop', tasks', fr2, Early)
    BY DEF Owed, Unrun, Unstarted, fr2
  <2> QED BY <1>1, <2>1, <2>2
<1>21. r \in Unstarted /\ r \in Owed
  <2>1. Debt(loop, frames[p]) = r
    BY <1>2, <1>3 DEF Debt
  <2> QED BY <1>2, <1>3, <2>1, InViews
<1> QED BY <1>2, <1>18, <1>19, <1>20, <1>21 DEF DebtsOfCall

\* ParallelFor returns, when nobody else is left to use the frame of its call.
LEMMA ReturnView ==
  ASSUME FramesInv, NEW t \in AllThreads, NEW from, At(t, from), from \in Waiting \cup {"wait"},
         stack' = [stack EXCEPT ![t] = Tail(stack[t])],
         Typed', loop' = loop, tasks' = tasks,
         NEW c, c = call(t), Settled(Owed, c), c \notin Wakers
  PROVE  /\ FramesInv' /\ SameDebts /\ Wakers' = Wakers
         /\ c \in Callers /\ Callers' = Callers \ {c} /\ Waiters' = Waiters \ {c}
         /\ InUse' \subseteq InUse \ {c}
<1> DEFINE p == TopPlace(stack, t)
           fr2 == frames'
<1>1. /\ p \in DOMAIN frames /\ frames[p] = Top(t) /\ Top(t).pc = from /\ Running(t) /\ Typed
      /\ AllGood(loop, tasks, frames) /\ \A r \in tasks : IsRange(loop[r.call], r)
      /\ c = frames[p].range.call /\ FrameOK(loop, frames[p])
  BY AtTop
<1>2. fr2 = Remove(frames, p)
  BY <1>1, EndStep
<1> HIDE DEF fr2, p
<1>3. /\ AllGood(loop, tasks, fr2)
      /\ \A pcs : pcs \subseteq Owing => Due(loop, tasks, fr2, pcs) = Due(loop, tasks, frames, pcs)
      /\ CallersIn(fr2) = CallersIn(frames) \ {c} /\ WaitersIn(fr2) = WaitersIn(frames) \ {c}
      /\ WakersIn(fr2) = WakersIn(frames)
      /\ \A us : UsersIn(us, fr2) \subseteq UsersIn(us, frames)
  <2>1. frames[p].pc \in Waiting \cup {"wait"}
    BY <1>1
  <2> QED BY <1>1, <1>2, <2>1, RemoveGood
<1>4. FramesInv'
  BY <1>1, <1>3, GoodStep DEF fr2
<1>5. SameDebts
  <2>1. Early \subseteq Owing /\ Undone \subseteq Owing
    BY PcOrder
  <2> QED BY <1>3, <2>1 DEF SameDebts, Owed, Unrun, Unstarted, fr2
<1>6. Callers' = Callers \ {c} /\ Waiters' = Waiters \ {c} /\ Wakers' = Wakers
  BY <1>3 DEF Callers, Waiters, Wakers, fr2
<1>7. frames[p].caller /\ c \in Callers
  <2>1. frames[p].caller
    BY <1>1 DEF FrameOK
  <2> QED BY <1>1, <2>1, InViews
<1>8. c \notin InUse'
  <2>1. ASSUME NEW r \in tasks PROVE r.call # c
    <3>1. r \in Owed
      BY DueIs DEF Owed
    <3> QED BY <3>1 DEF Settled
  <2>2. ASSUME NEW q \in DOMAIN fr2, fr2[q].range.call = c PROVE FALSE
    <3>1. q # p /\ q \in DOMAIN frames /\ fr2[q] = frames[q] /\ frames[q].range.call = c
      BY <1>2, <2>2 DEF Remove
    <3>2. CASE frames[q].pc \in Owing
      <4>1. Debt(loop, frames[q]) \in Owed /\ Debt(loop, frames[q]).call = c
        BY <3>1, <3>2, InViews, FrameFacts
      <4> QED BY <4>1 DEF Settled
    <3>3. CASE frames[q].pc = "signal"
      BY <3>1, <3>3, InViews
    <3>4. CASE frames[q].pc \in Waiting \cup {"wait"}
      <4>1. frames[q].caller /\ Single(frames)
        BY <1>1, <3>1, <3>4 DEF AllGood, FrameOK
      <4> QED BY <1>1, <1>7, <3>1, <4>1 DEF Single
    <3>5. frames[q].pc \in Owing \cup Waiting \cup {"signal", "wait"}
      BY <3>1, FrameFacts DEF AllFrames
    <3> QED BY <3>2, <3>3, <3>4, <3>5
  <2> QED BY <2>1, <2>2 DEF InUse, UsersIn, fr2
<1>9. InUse' \subseteq InUse
  BY <1>3 DEF InUse, fr2
<1> QED BY <1>4, <1>5, <1>6, <1>7, <1>8, <1>9

\* Leave, of any stack.
Leaves(st, st2, t) ==
  st2 = [st EXCEPT ![t] = IF Head(st[t]).caller THEN <<Moved(Head(st[t]), "wait")>> \o Tail(st[t])
                          ELSE Tail(st[t])]

LEMMA LeavesStep ==
  ASSUME NEW st, NEW st2, NEW t \in AllThreads,
         st \in [AllThreads -> Seq(AllFrames)], st[t] # <<>>, Leaves(st, st2, t)
  PROVE  st2 \in [AllThreads -> Seq(AllFrames)] /\ FramesIn(st2) = Left(FramesIn(st), TopPlace(st, t))
<1> DEFINE f == Head(st[t])
           g == Moved(f, "wait")
<1>1. /\ FramesIn(st)[TopPlace(st, t)] = f /\ f \in AllFrames /\ Tail(st[t]) \in Seq(AllFrames)
  BY TopIsPlace
<1>2. g \in AllFrames
  BY <1>1, MovedIs
<1>3. CASE f.caller
  <2>1. Becomes(st, st2, t, <<g>>)
    BY <1>3 DEF Leaves, Becomes
  <2> HIDE DEF g
  <2>2. /\ FramesIn(st2) = Replace(FramesIn(st), TopPlace(st, t), g)
        /\ st2 \in [AllThreads -> Seq(AllFrames)]
    BY <1>2, <2>1, ReplaceStep
  <2> QED BY <1>1, <1>3, <2>2 DEF Left, g
<1>4. CASE ~ f.caller
  <2>1. <<>> \o Tail(st[t]) = Tail(st[t])
    BY <1>1
  <2>2. Becomes(st, st2, t, <<>>)
    BY <1>4, <2>1 DEF Leaves, Becomes
  <2>3. /\ FramesIn(st2) = Remove(FramesIn(st), TopPlace(st, t))
        /\ st2 \in [AllThreads -> Seq(AllFrames)]
    BY <2>2, PopStep
  <2> QED BY <1>1, <1>4, <2>3 DEF Left
<1> QED BY <1>3, <1>4

\* At most one thread sleeps in a call.
LEMMA OneSleeper ==
  ASSUME FramesInv, NEW u \in AllThreads, NEW v \in AllThreads, NEW c, Sleeps(u, c), Sleeps(v, c)
  PROVE  u = v
<1> DEFINE p == TopPlace(stack, u)
           q == TopPlace(stack, v)
           pc == "asleep"
<1>1. At(u, pc) /\ call(u) = c /\ At(v, pc) /\ call(v) = c
  BY DEF Sleeps
<1>2. pc \in Waiting \cup {"wait"}
  BY PcSets
<1> HIDE DEF pc
<1>3. /\ p \in DOMAIN frames /\ frames[p] = Top(u) /\ Top(u).pc = pc /\ AllGood(loop, tasks, frames)
      /\ FrameOK(loop, frames[p]) /\ call(u) = Top(u).range.call
  BY <1>1, AtTop
<1>4. /\ q \in DOMAIN frames /\ frames[q] = Top(v) /\ Top(v).pc = pc
      /\ FrameOK(loop, frames[q]) /\ call(v) = Top(v).range.call
  BY <1>1, AtTop
<1>5. frames[p].caller /\ frames[q].caller
  BY <1>2, <1>3, <1>4 DEF FrameOK
<1> HIDE DEF p, q
<1>6. p = q
  BY <1>1, <1>3, <1>4, <1>5 DEF AllGood, Single
<1> QED BY <1>6 DEF p, q, TopPlace

\* The thread that reported the last block wakes the caller, if it sleeps.
LEMMA SignalView ==
  ASSUME FramesInv, NEW t \in AllThreads, Signal(t), NEW c, c = call(t)
  PROVE  /\ FramesInv' /\ SameCalls /\ SameDebts /\ Wakers' = Wakers \ {c}
         /\ c \in Wakers /\ c \in Calls
<1> DEFINE from == "signal"
           p == TopPlace(stack, t)
<1>1. At(t, from) /\ loop' = loop /\ tasks' = tasks
  BY DEF Signal
<1>2. /\ Running(t) /\ Typed /\ Top(t).pc = from /\ Top(t) \in AllFrames
      /\ p \in DOMAIN frames /\ frames[p] = Top(t) /\ c = Top(t).range.call /\ c \in Calls
      /\ AllGood(loop, tasks, frames) /\ \A r \in tasks : IsRange(loop[r.call], r)
      /\ stack \in [AllThreads -> Seq(AllFrames)] /\ stack[t] # <<>>
  BY <1>1, AtTop DEF Typed, Running
<1>3. /\ from \in Owing \cup {"signal"} /\ from \notin Owing /\ from \notin Waiting /\ from = "signal"
      /\ Early \subseteq Owing /\ Undone \subseteq Owing /\ Owing \subseteq Owing
      /\ from \notin Early /\ from \notin Undone
  BY PcSets
<1>4. c \in Wakers
  BY <1>2, InViews
<1>5. /\ stack' = [u \in AllThreads |-> CASE u = t -> Leave(t)
                                          [] Sleeps(u, c) -> GoTo(u, "check")
                                          [] OTHER -> stack[u]]
      /\ returned' = returned /\ notified_' = notified_ \cup {c} /\ state_' = state_ /\ ran' = ran
  BY DEF Signal
<1>6. ASSUME stack' \in [AllThreads -> Seq(AllFrames)] PROVE Typed'
  BY <1>1, <1>2, <1>5, <1>6 DEF Typed
<1> HIDE DEF from, p
<1>7. CASE ~ \E u \in AllThreads : u # t /\ Sleeps(u, c)
  <2>1. stack' = [stack EXCEPT ![t] = Leave(t)]
    <3>a. \A u \in AllThreads : ~ Sleeps(u, c)
      BY <1>2, <1>7 DEF Sleeps, At, from
    <3>1. \A u \in AllThreads : stack'[u] = IF u = t THEN Leave(t) ELSE stack[u]
      BY <1>5, <3>a
    <3> QED BY <1>2, <1>5, <3>1
  <2>2. Typed'
    BY <1>2, <1>6, <2>1, LeaveStep
  <2>3. /\ FramesInv' /\ Callers' = Callers /\ Waiters' = Waiters /\ InUse' \subseteq InUse
        /\ Wakers' = Wakers \ IF from = "signal" THEN {call(t)} ELSE {}
        /\ Unrun' = Unrun /\ Unstarted' = Unstarted
        /\ Owed' = Owed \ IF from \in Owing THEN {Debt(loop, frames[p])} ELSE {}
    BY <1>1, <1>3, <2>1, <2>2, LeftView DEF p
  <2> QED BY <1>2, <1>3, <1>4, <2>3 DEF SameCalls, SameDebts
<1>8. ASSUME NEW u \in AllThreads, u # t, Sleeps(u, c)
      PROVE  /\ FramesInv' /\ SameCalls /\ SameDebts /\ Wakers' = Wakers \ {c}
  <2> DEFINE st1 == [stack EXCEPT ![u] = GoTo(u, "check")]
             q == TopPlace(stack, u)
             pc == "check"
             at == "asleep"
             f == Moved(Top(u), pc)
             fr1 == FramesIn(st1)
             fr2 == frames'
  <2>1. /\ pc \in Owing \cup Waiting \cup {"signal", "wait"} /\ pc # "lower" /\ at # "lower"
        /\ pc \notin Owing /\ at \notin Owing /\ at \in Waiting /\ pc \in Waiting
        /\ pc # "signal" /\ at # "signal" /\ pc \notin {"body", "notify"}
        /\ pc \notin Early /\ at \notin Early /\ pc \notin Undone /\ at \notin Undone
    BY PcSets
  <2>2. At(u, at) /\ call(u) = c
    BY <1>8 DEF Sleeps
  <2>3. /\ Running(u) /\ Top(u).pc = at /\ Top(u) \in AllFrames /\ FrameOK(loop, frames[q])
        /\ q \in DOMAIN frames /\ frames[q] = Top(u) /\ c = Top(u).range.call
        /\ stack[u] # <<>>
    BY <2>2, AtTop DEF Running
  <2>4. f \in AllFrames /\ f.pc = pc /\ f.range = Top(u).range /\ f.caller = Top(u).caller
    BY <2>1, <2>3, MovedIs
  <2>5. Becomes(stack, st1, u, <<f>>)
    BY DEF Becomes, GoTo, Moved
  <2>6. /\ st1 \in [AllThreads -> Seq(AllFrames)]
        /\ fr1 = Replace(frames, q, f)
    <3> HIDE DEF f, st1
    <3> QED BY <1>2, <2>3, <2>4, <2>5, ReplaceStep DEF frames
  <2>7. st1[t] = stack[t]
    BY <1>2, <1>8
  <2>8. Leaves(st1, stack', t)
    <3>1. \A v \in AllThreads : Sleeps(v, c) => v = u
      BY <1>8, OneSleeper
    <3>2. Leave(t) = IF Head(st1[t]).caller THEN <<Moved(Head(st1[t]), "wait")>> \o Tail(st1[t])
                     ELSE Tail(st1[t])
      BY <2>7 DEF Leave, GoTo, Moved, Top
    <3>3. \A v \in AllThreads : stack'[v] = IF v = t THEN Leave(t) ELSE st1[v]
      BY <1>2, <1>5, <1>8, <3>1
    <3>4. stack' = [st1 EXCEPT ![t] = Leave(t)]
      <4> HIDE DEF st1
      <4> QED BY <1>5, <2>6, <3>3
    <3> HIDE DEF st1
    <3> QED BY <3>2, <3>4 DEF Leaves
  <2>9. /\ stack' \in [AllThreads -> Seq(AllFrames)] /\ fr2 = Left(fr1, TopPlace(st1, t))
        /\ TopPlace(st1, t) = p
    <3>1. TopPlace(st1, t) = p
      BY <2>7 DEF TopPlace, p
    <3> HIDE DEF st1
    <3>2. st1[t] # <<>>
      BY <1>2, <2>7
    <3>3. stack' \in [AllThreads -> Seq(AllFrames)] /\ FramesIn(stack') = Left(FramesIn(st1), TopPlace(st1, t))
      BY ONLY <2>6, <2>8, <3>2, LeavesStep
    <3> QED BY <3>1, <3>3 DEF frames
  <2>10. Typed'
    BY <1>6, <2>9
  <2>11. q # p
    BY <1>8 DEF p, TopPlace
  <2>12. frames[q].caller /\ FrameOK(loop, f)
    BY <2>1, <2>3, <2>4 DEF FrameOK
  <2> HIDE DEF st1, q, pc, at, fr1, fr2
  <2>13. /\ AllGood(loop, tasks, fr1)
         /\ \A pcs : (frames[q].pc \in pcs <=> pc \in pcs) =>
              Due(loop, tasks, fr1, pcs) = Due(loop, tasks, frames, pcs)
    BY <1>2, <2>1, <2>3, <2>6, <2>12, GoGood
  <2>14. /\ CallersIn(fr1) = Callers /\ \A ts : UsersIn(ts, fr1) = UsersIn(ts, frames)
         /\ WaitersIn(fr1) = Waiters /\ WakersIn(fr1) = Wakers
    <3>1. /\ IsFrames(frames) /\ q \in DOMAIN frames
          /\ pc \in Owing \cup Waiting \cup {"signal", "wait"} /\ pc # "signal"
          /\ (frames[q].pc \in Waiting <=> pc \in Waiting) /\ frames[q].pc # "signal"
          /\ fr1 = Replace(frames, q, Moved(frames[q], pc))
      BY <1>2, <2>1, <2>3, <2>6 DEF AllGood
    <3>2. /\ CallersIn(fr1) = CallersIn(frames) /\ \A ts : UsersIn(ts, fr1) = UsersIn(ts, frames)
          /\ WaitersIn(fr1) = WaitersIn(frames) /\ WakersIn(fr1) = WakersIn(frames)
      BY ONLY <3>1, MoveView
    <3> QED BY <3>2 DEF Callers, Waiters, Wakers
  <2>15. p \in DOMAIN fr1 /\ fr1[p] = Top(t)
    BY <1>2, <2>6, <2>11 DEF Replace
  <2>16. fr1[p].pc = from /\ fr1[p].pc \in Owing \cup {"signal"} /\ fr1[p].range.call = c
    BY <1>2, <1>3, <2>15
  <2>17. AllGood(loop, tasks, fr2)
    BY <2>9, <2>13, <2>15, <2>16, LeftGood
  <2>18. /\ CallersIn(fr2) = CallersIn(fr1) /\ WaitersIn(fr2) = WaitersIn(fr1)
         /\ \A ts : UsersIn(ts, fr2) \subseteq UsersIn(ts, fr1)
         /\ WakersIn(fr2) = WakersIn(fr1) \ IF fr1[p].pc = "signal" THEN {fr1[p].range.call} ELSE {}
    <3>1. /\ IsFrames(fr1) /\ Single(fr1) /\ p \in DOMAIN fr1 /\ fr1[p].pc \in Owing \cup {"signal"}
          /\ FrameOK(loop, fr1[p]) /\ fr2 = Left(fr1, p)
      BY <2>9, <2>13, <2>15, <2>16 DEF AllGood
    <3> QED BY ONLY <3>1, LeaveFacts
  <2>19. ASSUME NEW pcs, pcs \subseteq Owing, from \notin pcs, pc \notin pcs, at \notin pcs
         PROVE  Due(loop, tasks, fr2, pcs) = Due(loop, tasks, frames, pcs)
    <3>a. /\ AllGood(loop, tasks, fr1) /\ p \in DOMAIN fr1 /\ fr1[p].pc \in Owing \cup {"signal"}
          /\ pcs \subseteq Owing /\ fr1[p].pc \notin pcs
      BY <2>13, <2>15, <2>16, <2>19
    <3>b. Due(loop, tasks, Left(fr1, p), pcs) = Due(loop, tasks, fr1, pcs)
      BY ONLY <3>a, LeftSame
    <3>1. Due(loop, tasks, fr2, pcs) = Due(loop, tasks, fr1, pcs)
      BY <2>9, <3>a, <3>b
    <3> QED BY <2>3, <2>13, <2>19, <3>1
  <2>20. SameDebts
    <3>1. /\ Due(loop, tasks, fr2, Owing) = Owed /\ Due(loop, tasks, fr2, Undone) = Unrun
          /\ Due(loop, tasks, fr2, Early) = Unstarted
      BY <1>3, <2>1, <2>19 DEF Owed, Unrun, Unstarted
    <3>2. /\ Owed' = Due(loop', tasks', fr2, Owing) /\ Unrun' = Due(loop', tasks', fr2, Undone)
          /\ Unstarted' = Due(loop', tasks', fr2, Early)
      BY DEF Owed, Unrun, Unstarted, fr2
    <3> QED BY <1>1, <3>1, <3>2 DEF SameDebts
  <2>21. SameCalls /\ Wakers' = Wakers \ {c}
    BY <1>1, <1>3, <2>14, <2>16, <2>18 DEF SameCalls, Callers, Waiters, Wakers, InUse, fr2
  <2>22. FramesInv'
    BY <1>1, <1>2, <2>10, <2>17, GoodStep DEF fr2
  <2> QED BY <2>20, <2>21, <2>22
<1> QED BY <1>2, <1>4, <1>7, <1>8

\* A caller starts to wait, goes to sleep, or returns.
LEMMA WaitGo ==
  ASSUME FramesInv, NEW t \in AllThreads, Wait(t), stack' = [stack EXCEPT ![t] = GoTo(t, "check")],
         NEW c, c = call(t), returned' = returned
  PROVE  /\ FramesInv' /\ Callers' = Callers /\ InUse' = InUse /\ SameDebts
         /\ Waiters' = Waiters \cup {c} /\ Wakers' = Wakers /\ c \in Callers \ Waiters
<1> DEFINE from == "wait"
           pc == "check"
<1>1. /\ At(t, from) /\ loop' = loop /\ tasks' = tasks
      /\ stack' = [stack EXCEPT ![t] = GoTo(t, pc)]
  BY DEF Wait
<1>2. /\ Running(t) /\ Typed /\ Top(t).pc = from /\ Top(t) \in AllFrames /\ call(t) = Top(t).range.call
      /\ FrameOK(loop, Top(t)) /\ TopPlace(stack, t) \in DOMAIN frames
      /\ frames[TopPlace(stack, t)] = Top(t) /\ AllGood(loop, tasks, frames)
      /\ call(t) \in Calls
  BY <1>1, AtTop
<1>3. /\ pc \in Owing \cup Waiting \cup {"signal", "wait"} /\ pc # "lower" /\ from # "lower"
      /\ pc \notin Owing /\ from \notin Owing /\ from \notin Waiting /\ pc \in Waiting
      /\ pc # "signal" /\ from # "signal" /\ pc \notin Early /\ from \notin Early
      /\ pc \notin Undone /\ from \notin Undone /\ pc \notin {"body", "notify"}
      /\ from \in Waiting \cup {"wait"}
  BY PcSets
<1> HIDE DEF from, pc
<1>4. Top(t).caller
  BY <1>2, <1>3 DEF FrameOK
<1>5. Typed'
  <2>1. state_' \in [Calls -> Int]
    BY <1>2 DEF Wait, Typed
  <2> QED BY <1>1, <1>2, <1>3, <2>1, GoToStep DEF Wait, Typed
<1>6. FrameOK(loop, Moved(Top(t), pc))
  BY <1>2, <1>3, <1>4, MovedIs DEF FrameOK
<1>7. /\ FramesInv' /\ Callers' = Callers /\ InUse' = InUse /\ Wakers' = Wakers
      /\ Waiters' = Waiters \cup {c} /\ SameDebts
  BY <1>1, <1>3, <1>5, <1>6, GoView DEF SameDebts
<1>8. c \in Callers
  BY <1>2, <1>4, InViews
<1>9. c \notin Waiters
  <2>1. ASSUME NEW q \in DOMAIN frames, frames[q].pc \in Waiting, frames[q].range.call = c PROVE FALSE
    <3>1. frames[q].caller /\ q # TopPlace(stack, t)
      BY <1>2, <1>3, <2>1 DEF FrameOK, AllGood
    <3> QED BY <1>2, <1>4, <2>1, <3>1 DEF AllGood, Single
  <2> QED BY <2>1 DEF Waiters, WaitersIn
<1> QED BY <1>7, <1>8, <1>9

LEMMA SleepView ==
  ASSUME FramesInv, NEW t \in AllThreads, Check(t),
         stack' = [stack EXCEPT ![t] = GoTo(t, "asleep")], returned' = returned
  PROVE  FramesInv' /\ SameCalls /\ SameDebts /\ Wakers' = Wakers
<1> DEFINE from == "check"
           pc == "asleep"
<1>1. /\ At(t, from) /\ loop' = loop /\ tasks' = tasks
      /\ stack' = [stack EXCEPT ![t] = GoTo(t, pc)]
  BY DEF Check
<1>2. /\ Running(t) /\ Typed /\ Top(t).pc = from /\ Top(t) \in AllFrames /\ call(t) = Top(t).range.call
      /\ FrameOK(loop, Top(t)) /\ frames[TopPlace(stack, t)] = Top(t)
  BY <1>1, AtTop
<1>3. /\ pc \in Owing \cup Waiting \cup {"signal", "wait"} /\ pc # "lower" /\ from # "lower"
      /\ pc \notin Owing /\ from \notin Owing /\ from \in Waiting /\ pc \in Waiting
      /\ pc # "signal" /\ from # "signal" /\ pc \notin Early /\ from \notin Early
      /\ pc \notin Undone /\ from \notin Undone /\ pc \notin {"body", "notify"}
  BY PcSets
<1> HIDE DEF from, pc
<1>4. Top(t).caller
  BY <1>2, <1>3 DEF FrameOK
<1>5. Typed'
  BY <1>1, <1>2, <1>3, GoToStep DEF Check, Typed
<1>6. FrameOK(loop, Moved(Top(t), pc))
  BY <1>2, <1>3, <1>4, MovedIs DEF FrameOK
<1> QED BY <1>1, <1>3, <1>5, <1>6, GoView DEF SameCalls, SameDebts

LEMMA WaitReturn ==
  ASSUME FramesInv, NEW t \in AllThreads, Wait(t) \/ Check(t), Return(t), NEW c, c = call(t),
         Settled(Owed, c), c \notin Wakers
  PROVE  /\ FramesInv' /\ SameDebts /\ Wakers' = Wakers
         /\ c \in Callers /\ Callers' = Callers \ {c} /\ Waiters' = Waiters \ {c}
         /\ InUse' \subseteq InUse \ {c}
<1>1. PICK from \in Waiting \cup {"wait"} : At(t, from)
  BY PcSets DEF Wait, Check
<1>2. /\ Typed /\ Running(t) /\ c \in Calls
  BY <1>1, AtTop
<1>3. loop' = loop /\ tasks' = tasks /\ notified_' = notified_ /\ ran' = ran
      /\ (state_' = state_ \/ state_' = [state_ EXCEPT ![c] = @ + 1])
  BY DEF Wait, Check
<1>4. /\ stack' = [stack EXCEPT ![t] = Tail(stack[t])] /\ returned' = returned \cup {c}
  BY DEF Return
<1>5. state_' \in [Calls -> Int]
  BY <1>2, <1>3 DEF Typed
<1>6. Typed'
  BY <1>2, <1>3, <1>4, <1>5, EndStep DEF Typed
<1> QED BY <1>1, <1>3, <1>4, <1>6, ReturnView

-----------------------------------------------------------------------------
(* The calls.  What a step leaves alone, it keeps.                         *)

LEMMA FramedSame ==
  ASSUME Framed, SameCalls, returned' = returned
  PROVE  Framed'
BY DEF Framed, SameCalls

LEMMA MadeSame ==
  ASSUME MadeInTurn, Made' = Made, \A c, i : Covered(Unstarted', c, i) => Covered(Unstarted, c, i)
  PROVE  MadeInTurn'
BY DEF MadeInTurn

LEMMA CountSame ==
  ASSUME CountRight, Callers' = Callers, Waiters' = Waiters, returned' = returned,
         loop' = loop, state_' = state_, \A c, i : Covered(Owed', c, i) <=> Covered(Owed, c, i)
  PROVE  CountRight'
<1>1. \A c : Counted(loop[c], Owed', Waiters, c) = Counted(loop[c], Owed, Waiters, c)
  <2>1. \A l, c : Pending(l, Owed', c) = Pending(l, Owed, c)
    BY PendingSame
  <2> QED BY <2>1 DEF Counted
<1> QED BY <1>1 DEF CountRight, Made

LEMMA SignalsSame ==
  ASSUME SignalsOK, Callers' = Callers, Waiters' = Waiters, Wakers' = Wakers,
         returned' = returned, notified_' = notified_,
         \A c : Settled(Owed, c) => Settled(Owed', c)
  PROVE  SignalsOK'
BY DEF SignalsOK

LEMMA RanSame ==
  ASSUME RanRight, Callers' = Callers, returned' = returned, loop' = loop, ran' = ran,
         \A c, i : Covered(Unrun', c, i) <=> Covered(Unrun, c, i)
  PROVE  RanRight'
<1> SUFFICES ASSUME NEW c \in Calls, NEW i \in 0..loop[c].n - 1
             PROVE  ran[c][i] = IF c \in returned \/ (c \in Callers /\ ~ Covered(Unrun', c, i)) THEN 1 ELSE 0
  BY DEF RanRight
<1> QED BY DEF RanRight

\* A step that is seen in no call.
LEMMA QuietStep ==
  ASSUME CallsInv, SameCalls, Wakers' = Wakers, Disjoint(Owed'),
         loop' = loop, state_' = state_, notified_' = notified_, ran' = ran, returned' = returned,
         \A c, i : Covered(Unstarted', c, i) => Covered(Unstarted, c, i),
         \A c, i : Covered(Unrun', c, i) <=> Covered(Unrun, c, i),
         \A c, i : Covered(Owed', c, i) <=> Covered(Owed, c, i),
         \A c : Settled(Owed, c) => Settled(Owed', c)
  PROVE  CallsInv'
<1>1. /\ Callers' = Callers /\ Waiters' = Waiters /\ Made' = Made /\ Framed /\ MadeInTurn /\ CountRight
      /\ SignalsOK /\ RanRight
  BY DEF SameCalls, CallsInv, Made
<1>2. Apart'
  BY DEF Apart, Disjoint
<1>3. Framed' /\ MadeInTurn'
  BY <1>1, FramedSame, MadeSame
<1>4. CountRight' /\ SignalsOK' /\ RanRight'
  BY <1>1, CountSame, SignalsSame, RanSame
<1> QED BY <1>2, <1>3, <1>4 DEF CallsInv

LEMMA QuietSame ==
  ASSUME CallsInv, SameCalls, SameDebts, Wakers' = Wakers,
         loop' = loop, state_' = state_, notified_' = notified_, ran' = ran, returned' = returned
  PROVE  CallsInv'
<1>1. Disjoint(Owed')
  BY DEF CallsInv, Apart, Disjoint, SameDebts
<1> QED BY <1>1, QuietStep DEF SameDebts

LEMMA TakeInv ==
  ASSUME ParInv, NEW w \in Workers, Take(w)
  PROVE  ParInv'
BY TakeView, QuietSame DEF ParInv, Take

LEMMA LowerInv ==
  ASSUME ParInv, NEW t \in AllThreads, ScheduleLower(t)
  PROVE  ParInv'
BY LowerView, QuietSame DEF ParInv, ScheduleLower

LEMMA UpperInv ==
  ASSUME ParInv, NEW t \in AllThreads, ScheduleUpper(t)
  PROVE  ParInv'
<1> DEFINE r == Top(t).range
<1>1. FramesInv /\ CallsInv /\ Apart /\ Disjoint(Owed)
  BY DEF ParInv, CallsInv, Apart, Disjoint
<1>2. /\ FramesInv' /\ SameCalls /\ Wakers' = Wakers
      /\ \E lo, up :
           /\ lo.call = r.call /\ up.call = r.call
           /\ Indices(lo) \cup Indices(up) = Indices(r) /\ Indices(lo) \cap Indices(up) = {}
           /\ Halved(Owed, Owed', r, up, lo) /\ Halved(Unrun, Unrun', r, up, lo)
           /\ Halved(Unstarted, Unstarted', r, up, lo)
  BY <1>1, UpperView
<1> HIDE DEF r
<1>3. PICK lo, up :
           /\ lo.call = r.call /\ up.call = r.call
           /\ Indices(lo) \cup Indices(up) = Indices(r) /\ Indices(lo) \cap Indices(up) = {}
           /\ Halved(Owed, Owed', r, up, lo) /\ Halved(Unrun, Unrun', r, up, lo)
           /\ Halved(Unstarted, Unstarted', r, up, lo)
  BY <1>2
<1>4. ASSUME NEW ds, NEW ds2, Halved(ds, ds2, r, up, lo)
      PROVE  /\ \A c, i : Covered(ds2, c, i) <=> Covered(ds, c, i)
             /\ \A c : Settled(ds2, c) <=> Settled(ds, c)
             /\ Disjoint(ds) => Disjoint(ds2)
  <2>1. r \in ds /\ ds2 = (ds \ {r}) \cup {up, lo}
    BY <1>4 DEF Halved
  <2>2. /\ lo.call = r.call /\ up.call = r.call
        /\ Indices(lo) \cup Indices(up) = Indices(r) /\ Indices(lo) \cap Indices(up) = {}
    BY <1>3
  <2>3. \A c, i : Covered(ds2, c, i) <=> Covered(ds, c, i)
    BY ONLY <2>1, <2>2, SplitCovers
  <2>4. \A c : Settled(ds2, c) <=> Settled(ds, c)
    BY <2>1, <2>2 DEF Settled
  <2>5. Disjoint(ds) => Disjoint(ds2)
    BY ONLY <2>1, <2>2, SplitCovers
  <2> QED BY <2>3, <2>4, <2>5
<1>5. /\ Disjoint(Owed') /\ \A c : Settled(Owed, c) => Settled(Owed', c)
      /\ \A c, i : Covered(Owed', c, i) <=> Covered(Owed, c, i)
      /\ \A c, i : Covered(Unrun', c, i) <=> Covered(Unrun, c, i)
      /\ \A c, i : Covered(Unstarted', c, i) => Covered(Unstarted, c, i)
  BY <1>1, <1>3, <1>4
<1>6. /\ loop' = loop /\ state_' = state_ /\ notified_' = notified_ /\ ran' = ran /\ returned' = returned
  BY DEF ScheduleUpper
<1>7. CallsInv'
  BY <1>1, <1>2, <1>5, <1>6, QuietStep
<1> QED BY <1>2, <1>7 DEF ParInv

\* A block starts and makes no call.
LEMMA BlockInv ==
  ASSUME ParInv, NEW t \in AllThreads, StartBlock(t), stack' = [stack EXCEPT ![t] = GoTo(t, "body")]
  PROVE  ParInv'
<1> DEFINE r == Top(t).range
<1>1. FramesInv /\ CallsInv /\ Disjoint(Owed)
  BY DEF ParInv, CallsInv, Apart, Disjoint
<1>2. /\ FramesInv' /\ SameCalls /\ Wakers' = Wakers
      /\ Owed' = Owed /\ Unrun' = Unrun /\ Unstarted' = Unstarted \ {r}
  BY <1>1, BlockView
<1>3. \A c, i : Covered(Unstarted', c, i) => Covered(Unstarted, c, i)
  BY <1>2 DEF Covered
<1>4. /\ loop' = loop /\ state_' = state_ /\ notified_' = notified_ /\ ran' = ran /\ returned' = returned
  BY DEF StartBlock
<1>5. CallsInv'
  BY <1>1, <1>2, <1>3, <1>4, QuietStep
<1> QED BY <1>2, <1>5 DEF ParInv

\* The caller's frame outlives every other one of its call.
LEMMA CallerOf ==
  ASSUME ParInv, NEW r \in Owed
  PROVE  /\ r.call \in Callers /\ r.call \in Calls /\ r.call \notin returned /\ r.call \in Made
         /\ r.call \notin Wakers /\ r.call \notin notified_
<1>1. r.call \in InUse /\ Framed /\ SignalsOK
  BY OwedFacts DEF ParInv, CallsInv
<1>2. ~ Settled(Owed, r.call)
  BY DEF Settled
<1> QED BY <1>1, <1>2 DEF Framed, SignalsOK, Made

\* A call that f makes is new.
LEMMA NewCall ==
  ASSUME ParInv, NEW r \in Unstarted, NEW c \in Calls \ Outside,
         MadeAt[c].call = r.call, MadeAt[c].index \in Indices(r)
  PROVE  c \notin Made /\ c \notin Callers /\ c \notin InUse /\ c \notin returned
<1>1. Covered(Unstarted, MadeAt[c].call, MadeAt[c].index)
  BY DEF Covered, Covers
<1>2. c \notin Made
  BY <1>1 DEF ParInv, CallsInv, MadeInTurn
<1> QED BY <1>2 DEF ParInv, CallsInv, Framed, Made

LEMMA OtherCall ==
  ASSUME NEW ds, NEW w, NEW d, w.call # d
  PROVE  /\ \A i : Covered(ds \cup {w}, d, i) <=> Covered(ds, d, i)
         /\ Settled(ds \cup {w}, d) <=> Settled(ds, d)
BY DEF Covered, Covers, Settled

\* The call that a block makes as it starts.
LEMMA InnerInv ==
  ASSUME ParInv, NEW t \in AllThreads, StartBlock(t), NEW c \in Calls \ Outside,
         MadeAt[c].call = call(t), MadeAt[c].index \in Indices(Top(t).range),
         stack' = [stack EXCEPT ![t] = <<CallFrame(c)>> \o GoTo(t, "body")]
  PROVE  ParInv'
<1> DEFINE r == Top(t).range
           w == RangeOf(c, 0, loop[c].n)
<1>1. /\ FramesInv /\ CallsInv /\ Disjoint(Owed) /\ loop \in [Calls -> AllLoops]
      /\ Framed /\ MadeInTurn /\ CountRight /\ SignalsOK /\ RanRight
      /\ Unstarted \subseteq Owed /\ \A s \in Owed : s.call \in InUse
  BY OwedFacts DEF ParInv, CallsInv, Apart, Disjoint
<1>2. r \in Unstarted /\ call(t) = r.call
  <2> DEFINE from == "range"
  <2>1. At(t, from) /\ from \in Early /\ from # "lower"
    BY PcSets DEF StartBlock
  <2> HIDE DEF from
  <2>2. /\ TopPlace(stack, t) \in DOMAIN frames /\ frames[TopPlace(stack, t)] = Top(t)
        /\ Top(t).pc = from /\ call(t) = r.call
    BY <1>1, <2>1, AtTop
  <2>3. Debt(loop, Top(t)) = r
    BY <2>1, <2>2 DEF Debt
  <2> QED BY <2>1, <2>2, <2>3, InViews
<1>3. c \notin Made /\ c \notin Callers /\ c \notin InUse /\ c \notin returned
  BY <1>2, NewCall
<1>a. r = Top(t).range /\ w = RangeOf(c, 0, loop[c].n)
  OBVIOUS
<1> HIDE DEF r, w
<1>4. /\ FramesInv' /\ Callers' = Callers \cup {c} /\ InUse' = InUse \cup {c}
      /\ Waiters' = Waiters /\ Wakers' = Wakers
      /\ Owed' = Owed \cup {w} /\ Unrun' = Unrun \cup {w} /\ Unstarted' = (Unstarted \ {r}) \cup {w}
  <2>1. /\ FramesInv /\ t \in AllThreads /\ StartBlock(t)
        /\ c \in Calls /\ c \notin InUse /\ c \notin Callers
        /\ stack' = [stack EXCEPT ![t] = <<CallFrame(c)>> \o GoTo(t, "body")]
        /\ r = Top(t).range /\ w = RangeOf(c, 0, loop[c].n)
    BY <1>1, <1>3, <1>a
  <2>2. FramesInv' /\ Callers' = Callers \cup {c} /\ InUse' = InUse \cup {c}
    BY ONLY <2>1, InnerView
  <2>3. Waiters' = Waiters /\ Wakers' = Wakers
    BY ONLY <2>1, InnerView
  <2>4. DebtsOfCall(r, w)
    BY ONLY <2>1, InnerView
  <2> QED BY <2>2, <2>3, <2>4 DEF DebtsOfCall
<1>5. /\ loop' = loop /\ state_' = state_ /\ notified_' = notified_ /\ ran' = ran /\ returned' = returned
  BY DEF StartBlock
<1>6. w.call = c /\ Made' = Made \cup {c} /\ r \in Owed /\ r.call \in Callers /\ r.call \in Made
  BY <1>1, <1>2, <1>4, <1>5, <1>a, CallerOf DEF RangeOf, Made
<1>7. loop[c] \in AllLoops /\ loop[c].n \in Nat /\ w = RangeOf(c, 0, loop[c].n) /\ Indices(w) = 0..loop[c].n - 1
  BY <1>1, <1>a, BlocksOfLoop DEF RangeOf, Indices
<1>8. Apart'
  BY <1>1, <1>3, <1>4, <1>6 DEF Apart, Disjoint
<1>9. Framed'
  BY <1>1, <1>3, <1>4, <1>5 DEF Framed
<1>10. MadeInTurn'
  <2> SUFFICES ASSUME NEW d \in (Made \cup {c}) \ Outside
               PROVE  /\ MadeAt[d].call \in Made
                      /\ ~ Covered((Unstarted \ {r}) \cup {w}, MadeAt[d].call, MadeAt[d].index)
    BY <1>4, <1>6 DEF MadeInTurn
  <2>1. MadeAt[d].call \in Made /\ ~ Covered(Unstarted \ {r}, MadeAt[d].call, MadeAt[d].index)
    <3>1. CASE d = c
      <4>1. MadeAt[c].call = r.call /\ MadeAt[c].index \in Indices(r)
        BY <1>2 DEF r
      <4>2. ASSUME NEW s \in Unstarted, s # r PROVE ~ Covers(s, r.call, MadeAt[c].index)
        BY <1>1, <1>6, <4>1, <4>2 DEF Covers, Disjoint
      <4> QED BY <1>6, <3>1, <4>1, <4>2 DEF Covered
    <3>2. CASE d \in Made
      BY <1>1, <3>2 DEF MadeInTurn, Covered
    <3> QED BY <3>1, <3>2
  <2> QED BY <1>3, <1>6, <2>1, OtherCall
<1>11. CountRight'
  <2>1. ASSUME NEW d \in Callers
        PROVE  state_[d] = Counted(loop[d], Owed \cup {w}, Waiters, d)
    <3>1. w.call # d
      BY <1>3, <1>6
    <3>2. Pending(loop[d], Owed, d) = Pending(loop[d], Owed \cup {w}, d)
      BY <3>1, OtherCall, PendingSame
    <3> QED BY <1>1, <3>2 DEF CountRight, Counted
  <2>2. state_[c] = Counted(loop[c], Owed \cup {w}, Waiters, c)
    <3>1. state_[c] = 2 * BlockCount(loop[c])
      BY <1>1, <1>3 DEF CountRight
    <3>2. c \notin Waiters
      BY <1>1, <1>3 DEF SignalsOK
    <3>3. w \in Owed \cup {w}
      OBVIOUS
    <3>4. Cardinality(Pending(loop[c], Owed \cup {w}, c)) = BlockCount(loop[c])
      BY <1>7, <3>3, AllPending
    <3>5. BlockCount(loop[c]) \in Nat
      BY <1>7, BlocksOfLoop
    <3> QED BY <3>1, <3>2, <3>4, <3>5 DEF Counted
  <2> QED BY <1>1, <1>4, <1>5, <1>6, <2>1, <2>2 DEF CountRight
<1>12. SignalsOK'
  <2>1. ASSUME NEW d \in Wakers \cup notified_ PROVE Settled(Owed \cup {w}, d)
    <3>1. d # c /\ Settled(Owed, d)
      BY <1>1, <1>3 DEF SignalsOK, Made
    <3> QED BY <1>6, <3>1, OtherCall
  <2> QED BY <1>1, <1>4, <1>5, <2>1 DEF SignalsOK
<1>13. RanRight'
  <2> SUFFICES ASSUME NEW d \in Calls, NEW i \in 0..loop[d].n - 1
               PROVE  ran[d][i] = IF d \in returned \/ (d \in Callers' /\ ~ Covered(Unrun', d, i))
                                  THEN 1 ELSE 0
    BY <1>5 DEF RanRight
  <2>1. ran[d][i] = IF d \in returned \/ (d \in Callers /\ ~ Covered(Unrun, d, i)) THEN 1 ELSE 0
    BY <1>1 DEF RanRight
  <2>2. CASE d = c
    <3>1. Covered(Unrun', c, i)
      BY <1>4, <1>6, <1>7, <2>2 DEF Covered, Covers
    <3> QED BY <1>3, <2>1, <2>2, <3>1
  <2>3. CASE d # c
    <3>1. Covered(Unrun', d, i) <=> Covered(Unrun, d, i)
      BY <1>4, <1>6, <2>3, OtherCall
    <3>2. d \in Callers' <=> d \in Callers
      BY <1>4, <2>3
    <3> QED BY <2>1, <3>1, <3>2
  <2> QED BY <2>2, <2>3
<1>14. CallsInv'
  BY <1>8, <1>9, <1>10, <1>11, <1>12, <1>13 DEF CallsInv
<1> QED BY <1>4, <1>14 DEF ParInv

LEMMA StartInv ==
  ASSUME ParInv, NEW t \in AllThreads, StartBlock(t)
  PROVE  ParInv'
<1>1. CASE stack' = [stack EXCEPT ![t] = GoTo(t, "body")]
  BY <1>1, BlockInv
<1>2. ASSUME NEW c \in Calls \ Outside, MadeAt[c].call = call(t),
             MadeAt[c].index \in Indices(Top(t).range),
             stack' = [stack EXCEPT ![t] = <<CallFrame(c)>> \o GoTo(t, "body")]
      PROVE  ParInv'
  BY <1>2, InnerInv
<1> QED BY <1>1, <1>2 DEF StartBlock

\* f finishes a block.
LEMMA FinishInv ==
  ASSUME ParInv, NEW t \in AllThreads, FinishBlock(t)
  PROVE  ParInv'
<1> DEFINE r == Top(t).range
<1>1. /\ FramesInv /\ CallsInv /\ Apart /\ Disjoint(Owed) /\ Typed
      /\ Framed /\ MadeInTurn /\ CountRight /\ SignalsOK /\ RanRight /\ Unrun \subseteq Owed
  BY OwedFacts DEF ParInv, CallsInv, Apart, Disjoint, FramesInv
<1>2. /\ FramesInv' /\ SameCalls /\ Wakers' = Wakers /\ r \in Unrun /\ r \in Owed
      /\ Owed' = Owed /\ Unrun' = Unrun \ {r} /\ Unstarted' = Unstarted
  BY <1>1, FinishView
<1>3. call(t) = r.call
  BY DEF call
<1>4. /\ loop' = loop /\ state_' = state_ /\ notified_' = notified_ /\ returned' = returned
      /\ ran' = [ran EXCEPT ![r.call] =
                   [i \in DOMAIN ran[r.call] |-> IF i \in Indices(r) THEN ran[r.call][i] + 1
                                                 ELSE ran[r.call][i]]]
  BY <1>3 DEF FinishBlock
<1> HIDE DEF r
<1>5. Callers' = Callers /\ Waiters' = Waiters /\ Made' = Made
  BY <1>2, <1>4 DEF SameCalls, Made
<1>6. Apart' /\ Framed' /\ MadeInTurn' /\ CountRight' /\ SignalsOK'
  <2>1. Apart'
    BY <1>1, <1>2 DEF Apart
  <2>2. Framed' /\ MadeInTurn'
    BY <1>1, <1>2, <1>4, <1>5, FramedSame, MadeSame
  <2>3. CountRight'
    BY <1>1, <1>2, <1>4, <1>5, CountSame
  <2>4. SignalsOK'
    BY <1>1, <1>2, <1>4, <1>5, SignalsSame
  <2> QED BY <2>1, <2>2, <2>3, <2>4
<1>7. r.call \in Calls /\ r.call \in Callers /\ r.call \notin returned
  BY <1>2, CallerOf
<1>8. RanRight'
  <2> SUFFICES ASSUME NEW c \in Calls, NEW i \in 0..loop[c].n - 1
               PROVE  ran'[c][i] = IF c \in returned \/ (c \in Callers /\ ~ Covered(Unrun', c, i))
                                   THEN 1 ELSE 0
    BY <1>4, <1>5 DEF RanRight
  <2>1. ran[c][i] = IF c \in returned \/ (c \in Callers /\ ~ Covered(Unrun, c, i)) THEN 1 ELSE 0
    BY <1>1 DEF RanRight
  <2>2. DOMAIN ran = Calls /\ DOMAIN ran[c] = 0..loop[c].n - 1
    BY <1>1 DEF Typed
  <2>3. CASE c = r.call /\ i \in Indices(r)
    <3>1. Covered(Unrun, c, i)
      BY <1>2, <2>3 DEF Covered, Covers
    <3>2. ~ Covered(Unrun', c, i)
      <4>1. ASSUME NEW s \in Unrun, s # r, s.call = c PROVE i \notin Indices(s)
        BY <1>1, <1>2, <2>3, <4>1 DEF Disjoint
      <4> QED BY <1>2, <4>1 DEF Covered, Covers
    <3>3. ran[c][i] = 0
      BY <1>7, <2>1, <2>3, <3>1
    <3>4. ran'[c][i] = ran[c][i] + 1
      BY <1>4, <2>2, <2>3
    <3> QED BY <1>7, <2>3, <3>2, <3>3, <3>4
  <2>4. CASE ~ (c = r.call /\ i \in Indices(r))
    <3>1. Covered(Unrun', c, i) <=> Covered(Unrun, c, i)
      BY <1>2, <2>4 DEF Covered, Covers
    <3>2. ran'[c][i] = ran[c][i]
      BY <1>4, <2>2, <2>4
    <3> QED BY <2>1, <3>1, <3>2
  <2> QED BY <2>3, <2>4
<1>9. CallsInv'
  BY <1>6, <1>8 DEF CallsInv
<1> QED BY <1>2, <1>9 DEF ParInv

\* A thread that reports a block takes one from the count.
LEMMA NotifyInv ==
  ASSUME ParInv, NEW t \in AllThreads, Notify(t)
  PROVE  ParInv'
<1> DEFINE r == Top(t).range
           c == call(t)
           now == state_'[call(t)] = 1
<1>1. /\ FramesInv /\ CallsInv /\ Apart /\ Disjoint(Owed) /\ RangesOK(loop, Owed)
      /\ loop \in [Calls -> AllLoops] /\ state_ \in [Calls -> Int]
      /\ Framed /\ MadeInTurn /\ CountRight /\ SignalsOK /\ RanRight /\ Unrun \subseteq Owed
  BY OwedFacts DEF ParInv, CallsInv, Apart, Disjoint, FramesInv, Typed
<1>2. r \in Owed /\ c = r.call
  <2> DEFINE from == "notify"
  <2>1. At(t, from) /\ from \in Owing /\ from # "lower"
    BY PcSets DEF Notify
  <2> HIDE DEF from
  <2>2. /\ TopPlace(stack, t) \in DOMAIN frames /\ frames[TopPlace(stack, t)] = Top(t)
        /\ Top(t).pc = from /\ call(t) = r.call
    BY <1>1, <2>1, AtTop
  <2>3. Debt(loop, Top(t)) = r
    BY <2>1, <2>2 DEF Debt
  <2> QED BY <2>1, <2>2, <2>3, InViews
<1>3. /\ c \in Callers /\ c \in Calls /\ c \notin returned /\ c \in Made
      /\ c \notin Wakers /\ c \notin notified_
  BY <1>2, CallerOf
<1>4. /\ FramesInv' /\ SameCalls
      /\ Wakers' = Wakers \cup IF now THEN {c} ELSE {}
      /\ ShortRange(loop[c], r)
      /\ Owed' = Owed \ {r} /\ Unrun' = Unrun /\ Unstarted' = Unstarted
  BY <1>1, <1>3, NotifyView
<1>5. /\ loop' = loop /\ notified_' = notified_ /\ ran' = ran /\ returned' = returned
      /\ state_' = [state_ EXCEPT ![c] = @ - 2]
  BY DEF Notify
<1>6. now <=> state_'[c] = 1
  OBVIOUS
<1> HIDE DEF r, c, now
<1>7. Callers' = Callers /\ Waiters' = Waiters /\ Made' = Made
  BY <1>4, <1>5 DEF SameCalls, Made
<1>8. Apart' /\ Framed' /\ MadeInTurn' /\ RanRight'
  <2>1. Apart'
    BY <1>1, <1>4 DEF Apart
  <2>2. Framed' /\ MadeInTurn'
    BY <1>1, <1>4, <1>5, <1>7, FramedSame, MadeSame
  <2>3. RanRight'
    BY <1>1, <1>4, <1>5, <1>7, RanSame
  <2> QED BY <2>1, <2>2, <2>3
<1> DEFINE k == Cardinality(Pending(loop[c], Owed, c))
           k2 == Cardinality(Pending(loop[c], Owed \ {r}, c))
<1>9. k \in Nat \ {0} /\ k2 = k - 1
  BY <1>1, <1>2, <1>3, <1>4, OneLessPending
<1>10. /\ state_[c] = Counted(loop[c], Owed, Waiters, c)
       /\ state_[c] = 2 * k + IF c \in Waiters THEN 1 ELSE 0
       /\ Counted(loop[c], Owed \ {r}, Waiters, c) = 2 * k2 + IF c \in Waiters THEN 1 ELSE 0
  BY <1>1, <1>3 DEF CountRight, Counted
<1> HIDE DEF k, k2
<1>11. /\ state_'[c] = state_[c] - 2 /\ \A d \in Calls \ {c} : state_'[d] = state_[d]
  BY <1>1, <1>3, <1>5
<1>12. state_'[c] = 2 * k2 + IF c \in Waiters THEN 1 ELSE 0
  BY <1>9, <1>10, <1>11
<1>13. CountRight'
  <2>1. ASSUME NEW d \in Callers
        PROVE  state_'[d] = Counted(loop[d], Owed \ {r}, Waiters, d)
    <3>1. CASE d = c
      BY <1>10, <1>12, <3>1
    <3>2. CASE d # c
      <4>1. \A i : Covered(Owed, d, i) <=> Covered(Owed \ {r}, d, i)
        BY <1>2, <3>2 DEF Covered, Covers
      <4>2. Pending(loop[d], Owed, d) = Pending(loop[d], Owed \ {r}, d)
        BY <4>1, PendingSame
      <4>3. d \in Calls
        BY <1>1 DEF Framed
      <4> QED BY <1>1, <1>11, <3>2, <4>2, <4>3 DEF CountRight, Counted
    <3> QED BY <3>1, <3>2
  <2>2. ASSUME NEW d \in returned PROVE state_'[d] = 1
    BY <1>1, <1>3, <1>11 DEF CountRight, ParInv, FramesInv, Typed
  <2>3. ASSUME NEW d \in Calls \ Made PROVE state_'[d] = 2 * BlockCount(loop[d])
    BY <1>1, <1>3, <1>11 DEF CountRight
  <2> QED BY <1>4, <1>5, <1>7, <2>1, <2>2, <2>3 DEF CountRight
<1>14. now => c \in Waiters /\ Settled(Owed \ {r}, c)
  <2> SUFFICES ASSUME now PROVE c \in Waiters /\ Settled(Owed \ {r}, c)
    OBVIOUS
  <2>1. c \in Waiters /\ k2 = 0
    BY <1>6, <1>9, <1>12
  <2>2. RangesOK(loop, Owed \ {r}) /\ loop[c] \in AllLoops
    BY <1>1, <1>3 DEF RangesOK
  <2>3. Pending(loop[c], Owed \ {r}, c) = {}
    BY <2>1, <2>2, PendingIs DEF k2
  <2> QED BY <1>1, <1>3, <2>1, <2>2, <2>3, NothingPending
<1>15. SignalsOK'
  <2>1. \A d : Settled(Owed, d) => Settled(Owed \ {r}, d)
    BY DEF Settled
  <2>2. ASSUME NEW d \in Wakers' PROVE d \notin notified_ /\ d \in Waiters /\ Settled(Owed \ {r}, d)
    <3>1. CASE d \in Wakers
      BY <1>1, <2>1, <3>1 DEF SignalsOK
    <3>2. CASE d = c /\ now
      BY <1>3, <1>14, <3>2
    <3> QED BY <1>4, <3>1, <3>2
  <2>3. ASSUME NEW d \in notified_ PROVE Settled(Owed \ {r}, d) /\ d \in Waiters \cup returned
    BY <1>1, <2>1 DEF SignalsOK
  <2> QED BY <1>1, <1>4, <1>5, <1>7, <2>2, <2>3 DEF SignalsOK
<1>16. CallsInv'
  BY <1>8, <1>13, <1>15 DEF CallsInv
<1> QED BY <1>4, <1>16 DEF ParInv

LEMMA SignalInv ==
  ASSUME ParInv, NEW t \in AllThreads, Signal(t)
  PROVE  ParInv'
<1> DEFINE c == call(t)
<1>1. /\ FramesInv /\ CallsInv /\ Apart /\ Disjoint(Owed)
      /\ Framed /\ MadeInTurn /\ CountRight /\ SignalsOK /\ RanRight
  BY DEF ParInv, CallsInv, Apart, Disjoint
<1>2. /\ FramesInv' /\ SameCalls /\ SameDebts /\ Wakers' = Wakers \ {c} /\ c \in Wakers
  BY <1>1, SignalView
<1>3. /\ loop' = loop /\ state_' = state_ /\ ran' = ran /\ returned' = returned
      /\ notified_' = notified_ \cup {c}
  BY DEF Signal
<1> HIDE DEF c
<1>4. Callers' = Callers /\ Waiters' = Waiters /\ Made' = Made
  BY <1>2, <1>3 DEF SameCalls, Made
<1>5. Apart' /\ Framed' /\ MadeInTurn' /\ CountRight' /\ RanRight'
  <2>1. Owed' = Owed /\ Unrun' = Unrun /\ Unstarted' = Unstarted
    BY <1>2 DEF SameDebts
  <2>2. Apart'
    BY <1>1, <2>1 DEF Apart
  <2>3. Framed' /\ MadeInTurn'
    BY <1>1, <1>2, <1>3, <1>4, <2>1, FramedSame, MadeSame
  <2>4. CountRight'
    BY <1>1, <1>3, <1>4, <2>1, CountSame
  <2>5. RanRight'
    BY <1>1, <1>3, <1>4, <2>1, RanSame
  <2> QED BY <2>2, <2>3, <2>4, <2>5
<1>6. SignalsOK'
  BY <1>1, <1>2, <1>3, <1>4 DEF SignalsOK, SameDebts
<1>7. CallsInv'
  BY <1>5, <1>6 DEF CallsInv
<1> QED BY <1>2, <1>7 DEF ParInv

\* The caller counts itself in.
LEMMA WaitGoInv ==
  ASSUME ParInv, NEW t \in AllThreads, Wait(t), stack' = [stack EXCEPT ![t] = GoTo(t, "check")],
         returned' = returned
  PROVE  ParInv'
<1> DEFINE c == call(t)
<1>1. /\ FramesInv /\ CallsInv /\ Apart /\ Framed /\ MadeInTurn /\ CountRight /\ SignalsOK /\ RanRight
      /\ loop \in [Calls -> AllLoops] /\ state_ \in [Calls -> Int]
  BY DEF ParInv, CallsInv, FramesInv, Typed
<1>2. /\ FramesInv' /\ Callers' = Callers /\ InUse' = InUse /\ SameDebts
      /\ Waiters' = Waiters \cup {c} /\ Wakers' = Wakers /\ c \in Callers \ Waiters
  BY <1>1, WaitGo
<1>3. /\ loop' = loop /\ ran' = ran /\ notified_' = notified_
      /\ state_' = [state_ EXCEPT ![c] = @ + 1]
  BY DEF Wait
<1> HIDE DEF c
<1>4. Made' = Made /\ Owed' = Owed /\ Unrun' = Unrun /\ Unstarted' = Unstarted
  BY <1>2 DEF SameDebts, Made
<1>5. c \in Calls /\ c \notin returned /\ c \in Made
  BY <1>1, <1>2 DEF Framed, Made
<1>6. Apart' /\ Framed' /\ MadeInTurn' /\ RanRight'
  <2>1. Apart' /\ Framed'
    BY <1>1, <1>2, <1>4 DEF Apart, Framed
  <2>2. MadeInTurn'
    BY <1>1, <1>4, MadeSame
  <2>3. RanRight'
    BY <1>1, <1>2, <1>3, <1>4, RanSame
  <2> QED BY <2>1, <2>2, <2>3
<1>7. SignalsOK'
  BY <1>1, <1>2, <1>3, <1>4 DEF SignalsOK
<1>8. /\ state_'[c] = state_[c] + 1 /\ \A d \in Calls \ {c} : state_'[d] = state_[d]
  BY <1>1, <1>3, <1>5
<1>9. CountRight'
  <2>1. ASSUME NEW d \in Callers
        PROVE  state_'[d] = Counted(loop[d], Owed, Waiters', d)
    <3>1. state_[d] = Counted(loop[d], Owed, Waiters, d) /\ d \in Calls
      BY <1>1 DEF CountRight, Framed
    <3>2. CASE d = c
      <4> DEFINE k == Cardinality(Pending(loop[c], Owed, c))
      <4>1. k \in Nat
        BY <1>1, <1>5, PendingIs
      <4>2. Counted(loop[c], Owed, Waiters, c) = 2 * k + 0
        BY <1>2, Counts
      <4>3. Counted(loop[c], Owed, Waiters', c) = 2 * k + 1
        BY <1>2, Counts
      <4> HIDE DEF k
      <4> QED BY <1>8, <3>1, <3>2, <4>1, <4>2, <4>3
    <3>3. CASE d # c
      BY <1>2, <1>8, <3>1, <3>3 DEF Counted
    <3> QED BY <3>2, <3>3
  <2>2. ASSUME NEW d \in returned PROVE state_'[d] = 1
    BY <1>1, <1>5, <1>8 DEF CountRight, ParInv, FramesInv, Typed
  <2>3. ASSUME NEW d \in Calls \ Made PROVE state_'[d] = 2 * BlockCount(loop[d])
    BY <1>1, <1>5, <1>8 DEF CountRight
  <2> QED BY <1>2, <1>3, <1>4, <2>1, <2>2, <2>3 DEF CountRight
<1>10. CallsInv'
  BY <1>6, <1>7, <1>9 DEF CallsInv
<1> QED BY <1>2, <1>10 DEF ParInv

\* ParallelFor returns with nothing outstanding.
LEMMA ReturnInv ==
  ASSUME ParInv, NEW t \in AllThreads, Wait(t) \/ Check(t), Return(t), NEW c, c = call(t),
         Settled(Owed, c), c \notin Wakers, state_'[c] = 1
  PROVE  ParInv'
<1>1. /\ FramesInv /\ CallsInv /\ Apart /\ Framed /\ MadeInTurn /\ CountRight /\ SignalsOK /\ RanRight
      /\ loop \in [Calls -> AllLoops] /\ state_ \in [Calls -> Int] /\ returned \subseteq Calls
      /\ Unrun \subseteq Owed
  BY OwedFacts DEF ParInv, CallsInv, FramesInv, Typed
<1>2. /\ FramesInv' /\ SameDebts /\ Wakers' = Wakers
      /\ c \in Callers /\ Callers' = Callers \ {c} /\ Waiters' = Waiters \ {c}
      /\ InUse' \subseteq InUse \ {c}
  BY <1>1, WaitReturn
<1>3. /\ loop' = loop /\ ran' = ran /\ notified_' = notified_ /\ returned' = returned \cup {c}
      /\ \A d \in Calls \ {c} : state_'[d] = state_[d]
  BY <1>1 DEF Wait, Check, Return
<1>4. Made' = Made /\ Owed' = Owed /\ Unrun' = Unrun /\ Unstarted' = Unstarted
  BY <1>2, <1>3 DEF SameDebts, Made
<1>5. c \in Calls /\ c \notin returned /\ c \in Made
  BY <1>1, <1>2 DEF Framed, Made
<1>6. Apart' /\ Framed' /\ MadeInTurn' /\ SignalsOK'
  <2>1. Apart' /\ Framed'
    BY <1>1, <1>2, <1>3, <1>4, <1>5 DEF Apart, Framed
  <2>2. MadeInTurn'
    BY <1>1, <1>4, MadeSame
  <2>3. SignalsOK'
    BY <1>1, <1>2, <1>3, <1>4 DEF SignalsOK
  <2> QED BY <2>1, <2>2, <2>3
<1>7. CountRight'
  <2>1. ASSUME NEW d \in Callers \ {c}
        PROVE  state_'[d] = Counted(loop[d], Owed, Waiters', d)
    <3>1. state_[d] = Counted(loop[d], Owed, Waiters, d) /\ d \in Calls
      BY <1>1 DEF CountRight, Framed
    <3> QED BY <1>2, <1>3, <3>1 DEF Counted
  <2>2. ASSUME NEW d \in returned \cup {c} PROVE state_'[d] = 1
    BY <1>1, <1>3, <1>5 DEF CountRight
  <2>3. ASSUME NEW d \in Calls \ Made PROVE state_'[d] = 2 * BlockCount(loop[d])
    BY <1>1, <1>3, <1>5 DEF CountRight
  <2> QED BY <1>2, <1>3, <1>4, <2>1, <2>2, <2>3 DEF CountRight
<1>8. RanRight'
  <2> SUFFICES ASSUME NEW d \in Calls, NEW i \in 0..loop[d].n - 1
               PROVE  ran[d][i] = IF d \in returned' \/ (d \in Callers' /\ ~ Covered(Unrun, d, i))
                                  THEN 1 ELSE 0
    BY <1>3, <1>4 DEF RanRight
  <2>1. ran[d][i] = IF d \in returned \/ (d \in Callers /\ ~ Covered(Unrun, d, i)) THEN 1 ELSE 0
    BY <1>1 DEF RanRight
  <2>2. ~ Covered(Unrun, c, i)
    BY <1>1 DEF Covered, Covers, Settled
  <2> QED BY <1>2, <1>3, <2>1, <2>2
<1>9. CallsInv'
  BY <1>6, <1>7, <1>8 DEF CallsInv
<1> QED BY <1>2, <1>9 DEF ParInv

\* At fetch_or: the count was 0 and nobody is to wake a caller that does not wait.
LEMMA WaitInv ==
  ASSUME ParInv, NEW t \in AllThreads, Wait(t)
  PROVE  ParInv'
<1> DEFINE c == call(t)
           from == "wait"
           p == TopPlace(stack, t)
<1>1. CASE stack' = [stack EXCEPT ![t] = GoTo(t, "check")] /\ returned' = returned
  BY <1>1, WaitGoInv
<1>2. CASE state_[c] \div 2 = 0 /\ Return(t)
  <2>1. /\ FramesInv /\ Framed /\ CountRight /\ SignalsOK /\ RangesOK(loop, Owed)
        /\ loop \in [Calls -> AllLoops] /\ state_ \in [Calls -> Int]
    BY OwedFacts DEF ParInv, CallsInv, FramesInv, Typed
  <2>2. At(t, from) /\ from \in Waiting \cup {"wait"} /\ from \notin Waiting
    BY PcSets DEF Wait
  <2> HIDE DEF from
  <2>3. /\ p \in DOMAIN frames /\ frames[p] = Top(t) /\ Top(t).pc = from /\ c = Top(t).range.call
        /\ AllGood(loop, tasks, frames) /\ FrameOK(loop, frames[p]) /\ c \in Calls
        /\ loop[c] \in AllLoops
    BY <2>1, <2>2, AtTop
  <2>4. frames[p].caller /\ c \in Callers
    <3>1. frames[p].caller
      BY <2>2, <2>3 DEF FrameOK
    <3> QED BY <2>3, <3>1, InViews
  <2> HIDE DEF c, p
  <2>5. c \notin Waiters
    <3>1. ASSUME NEW q \in DOMAIN frames, frames[q].pc \in Waiting, frames[q].range.call = c PROVE FALSE
      <4>1. frames[q].caller /\ q # p
        BY <2>2, <2>3, <3>1 DEF FrameOK, AllGood
      <4> QED BY <2>3, <2>4, <3>1, <4>1 DEF AllGood, Single
    <3> QED BY <3>1 DEF Waiters, WaitersIn
  <2>6. c \notin Wakers
    BY <2>1, <2>5 DEF SignalsOK
  <2> DEFINE k == Cardinality(Pending(loop[c], Owed, c))
  <2>7. k \in Nat /\ (k = 0 <=> Pending(loop[c], Owed, c) = {})
    BY <2>3, PendingIs
  <2>8. state_[c] = 2 * k + 0
    BY <2>1, <2>4, <2>5, Counts DEF CountRight
  <2>9. k = 0 /\ state_[c] = 0
    <3> HIDE DEF k
    <3>1. state_[c] \div 2 = k
      BY <2>7, <2>8
    <3> QED BY <1>2, <2>8, <3>1
  <2>10. Settled(Owed, c)
    BY <2>1, <2>3, <2>7, <2>9, NothingPending
  <2>11. state_'[c] = 1
    BY <2>1, <2>3, <2>9 DEF Wait, c
  <2> QED BY <1>2, <2>6, <2>10, <2>11, ReturnInv DEF c
<1> QED BY <1>1, <1>2 DEF Wait

\* In the critical section: notified_ is set once nothing is outstanding.
LEMMA CheckInv ==
  ASSUME ParInv, NEW t \in AllThreads, Check(t)
  PROVE  ParInv'
<1> DEFINE c == call(t)
           from == "check"
           p == TopPlace(stack, t)
<1>1. /\ FramesInv /\ CallsInv /\ Framed /\ CountRight /\ SignalsOK /\ RangesOK(loop, Owed)
      /\ loop \in [Calls -> AllLoops] /\ state_ \in [Calls -> Int]
  BY OwedFacts DEF ParInv, CallsInv, FramesInv, Typed
<1>2. CASE stack' = [stack EXCEPT ![t] = GoTo(t, "asleep")] /\ returned' = returned
  <2>1. FramesInv' /\ SameCalls /\ SameDebts /\ Wakers' = Wakers
    BY <1>1, <1>2, SleepView
  <2>2. loop' = loop /\ state_' = state_ /\ notified_' = notified_ /\ ran' = ran
    BY DEF Check
  <2>3. CallsInv'
    BY <1>1, <1>2, <2>1, <2>2, QuietSame
  <2> QED BY <2>1, <2>3 DEF ParInv
<1>3. CASE c \in notified_ /\ Return(t)
  <2>1. Settled(Owed, c) /\ c \notin Wakers /\ c \in Waiters \cup returned
    BY <1>1, <1>3 DEF SignalsOK
  <2>2. At(t, from) /\ from \in Waiting
    BY PcSets DEF Check
  <2> HIDE DEF from
  <2>3. /\ p \in DOMAIN frames /\ frames[p] = Top(t) /\ Top(t).pc = from /\ c = Top(t).range.call
        /\ c \in Calls /\ loop[c] \in AllLoops
    BY <1>1, <2>2, AtTop
  <2>4. c \in Waiters
    BY <2>2, <2>3, InViews
  <2> HIDE DEF c, p
  <2>5. state_[c] = 1
    <3>1. Pending(loop[c], Owed, c) = {}
      BY <1>1, <2>1, <2>3, NothingPending
    <3>2. Cardinality(Pending(loop[c], Owed, c)) = 0
      BY <2>3, <3>1, PendingIs
    <3>3. state_[c] = 2 * Cardinality(Pending(loop[c], Owed, c)) + 1
      <4>1. c \in Callers
        BY <1>1, <2>4 DEF SignalsOK
      <4> QED BY <1>1, <2>4, <4>1, Counts DEF CountRight
    <3> QED BY <3>2, <3>3
  <2>6. state_'[c] = 1
    BY <2>5 DEF Check
  <2> QED BY <1>3, <2>1, <2>6, ReturnInv DEF c
<1> QED BY <1>2, <1>3 DEF Check

-----------------------------------------------------------------------------
(* The beginning.                                                          *)

LEMMA InitFrames ==
  ASSUME CallsAssumption, Init
  PROVE  /\ Typed
         /\ DOMAIN frames = Outside \X {1}
         /\ \A t \in Outside : frames[<<t, 1>>] = CallFrame(t)
         /\ \A t \in Outside : CallFrame(t) \in AllFrames /\ FrameOK(loop, CallFrame(t))
         /\ \A t \in Outside : loop[t] \in AllLoops /\ t \in Calls
<1>1. /\ loop \in [Calls -> AllLoops] /\ Outside \subseteq Calls
      /\ tasks = {} /\ returned = {} /\ notified_ = {}
      /\ stack = [t \in AllThreads |-> IF t \in Outside THEN <<CallFrame(t)>> ELSE <<>>]
  BY DEF Init, CallsAssumption, AllLoops
<1>2. ASSUME NEW t \in Outside
      PROVE  CallFrame(t) \in AllFrames /\ FrameOK(loop, CallFrame(t)) /\ loop[t] \in AllLoops /\ t \in Calls
  <2> DEFINE r == RangeOf(t, 0, loop[t].n)
  <2>1. t \in Calls /\ loop[t] \in AllLoops /\ r.call = t
    BY <1>1 DEF RangeOf
  <2>2. r \in AllRanges /\ IsRange(loop[r.call], r)
    <3>1. IsRange(loop[t], r)
      BY <2>1, WholeRange
    <3>2. loop[t].n \in Nat
      BY <2>1, BlocksOfLoop
    <3> QED BY <2>1, <3>1, <3>2 DEF AllRanges, RangeOf
  <2>3. CallFrame(t) = Frame(r, TRUE)
    BY DEF CallFrame
  <2> HIDE DEF r
  <2> QED BY <2>1, <2>2, <2>3, NewFrame
<1>3. stack \in [AllThreads -> Seq(AllFrames)]
  <2>1. ASSUME NEW t \in AllThreads
        PROVE  (IF t \in Outside THEN <<CallFrame(t)>> ELSE <<>>) \in Seq(AllFrames)
    BY <1>2
  <2> HIDE DEF CallFrame
  <2> QED BY <1>1, <2>1
<1>4. \A t \in AllThreads : \A d : d \in 1..Len(stack[t]) <=> t \in Outside /\ d = 1
  <2> SUFFICES ASSUME NEW t \in AllThreads, NEW d PROVE d \in 1..Len(stack[t]) <=> t \in Outside /\ d = 1
    OBVIOUS
  <2>1. CASE t \in Outside
    <3>1. Len(stack[t]) = 1
      BY <1>1, <2>1
    <3> QED BY <2>1, <3>1
  <2>2. CASE t \notin Outside
    <3>1. Len(stack[t]) = 0
      BY <1>1, <2>2
    <3> QED BY <2>2, <3>1
  <2> QED BY <2>1, <2>2
<1>5. DOMAIN frames = Outside \X {1}
  <2>1. DOMAIN frames = Places(stack)
    BY FrameIs DEF frames
  <2>2. Outside \subseteq AllThreads
    BY DEF AllThreads
  <2>3. ASSUME NEW p PROVE p \in Places(stack) <=> p \in Outside \X {1}
    <3>1. p \in Places(stack) <=> \E t \in AllThreads : \E d \in 1..Len(stack[t]) : p = <<t, d>>
      BY PlaceIs
    <3> QED BY <1>4, <2>2, <3>1
  <2> QED BY <2>1, <2>3
<1>6. ASSUME NEW t \in Outside PROVE frames[<<t, 1>>] = CallFrame(t)
  <2>1. t \in AllThreads /\ 1 \in 1..Len(stack[t]) /\ stack[t] = <<CallFrame(t)>>
    BY <1>1, <1>4 DEF AllThreads
  <2>2. Len(stack[t]) = 1 /\ stack[t][1] = CallFrame(t) /\ 1 + 1 - 1 = 1
    BY <2>1
  <2>3. frames[<<t, 1>>] = stack[t][Len(stack[t]) + 1 - 1]
    BY <2>1, FrameIs DEF frames
  <2> QED BY <2>2, <2>3
<1>7. Typed
  <2>1. state_ \in [Calls -> Int]
    <3>1. \A c \in Calls : 2 * BlockCount(loop[c]) \in Int
      <4> SUFFICES ASSUME NEW c \in Calls PROVE 2 * BlockCount(loop[c]) \in Int
        OBVIOUS
      <4>1. loop[c] \in AllLoops
        BY <1>1
      <4> QED BY <4>1, BlocksOfLoop
    <3> QED BY <3>1 DEF Init
  <2>2. DOMAIN ran = Calls /\ \A c \in Calls : ran[c] \in [0..loop[c].n - 1 -> Int]
    BY DEF Init
  <2> QED BY <1>1, <1>3, <2>1, <2>2 DEF Typed
<1> QED BY <1>2, <1>5, <1>6, <1>7

LEMMA InitInv ==
  ASSUME CallsAssumption, Init
  PROVE  ParInv
<1> DEFINE whole(c) == RangeOf(c, 0, loop[c].n)
<1>1. /\ Typed /\ Outside \subseteq Calls /\ tasks = {} /\ returned = {} /\ notified_ = {}
      /\ DOMAIN frames = Outside \X {1}
      /\ state_ = [c \in Calls |-> 2 * BlockCount(loop[c])]
      /\ ran = [c \in Calls |-> [i \in 0..loop[c].n - 1 |-> 0]]
  BY InitFrames DEF Init, CallsAssumption
<1>2. ASSUME NEW p \in DOMAIN frames
      PROVE  /\ p[1] \in Outside /\ p = <<p[1], 1>> /\ frames[p] = CallFrame(p[1])
             /\ FrameOK(loop, frames[p]) /\ frames[p].pc = "range" /\ frames[p].caller
             /\ frames[p].range = whole(p[1]) /\ frames[p].range.call = p[1]
             /\ Debt(loop, frames[p]) = whole(p[1])
  <2>1. p[1] \in Outside /\ p = <<p[1], 1>>
    BY <1>1
  <2>2. frames[p] = CallFrame(p[1]) /\ FrameOK(loop, frames[p])
    BY <2>1, InitFrames
  <2>3. /\ frames[p].pc = "range" /\ frames[p].caller /\ frames[p].range = whole(p[1])
        /\ frames[p].range.call = p[1]
    BY <2>2 DEF CallFrame, Frame, RangeOf
  <2> QED BY <2>1, <2>2, <2>3 DEF Debt
<1>3. ASSUME NEW pcs, "range" \in pcs
      PROVE  Due(loop, tasks, frames, pcs) = {whole(c) : c \in Outside}
  <2> HIDE DEF whole
  <2>1. \A p \in DOMAIN frames : frames[p].pc \in pcs
    BY <1>2, <1>3
  <2>2. \A c \in Outside : <<c, 1>> \in DOMAIN frames /\ Debt(loop, frames[<<c, 1>>]) = whole(c)
    BY <1>1, <1>2
  <2>3. ASSUME NEW d PROVE d \in Due(loop, tasks, frames, pcs) <=> \E c \in Outside : d = whole(c)
    <3>1. d \in Due(loop, tasks, frames, pcs) <=> \E p \in DOMAIN frames : d = Debt(loop, frames[p])
      BY <1>1, <2>1 DEF Due
    <3>2. ASSUME NEW p \in DOMAIN frames, d = Debt(loop, frames[p])
          PROVE  \E c \in Outside : d = whole(c)
      BY <1>2, <3>2
    <3>3. ASSUME NEW c \in Outside, d = whole(c)
          PROVE  \E p \in DOMAIN frames : d = Debt(loop, frames[p])
      BY <2>2, <3>3
    <3> QED BY <3>1, <3>2, <3>3
  <2> QED BY <2>3
<1>4. /\ Owed = {whole(c) : c \in Outside} /\ Unrun = {whole(c) : c \in Outside}
      /\ Unstarted = {whole(c) : c \in Outside}
  BY <1>3, PcOrder DEF Owed, Unrun, Unstarted
<1>5. /\ Callers = Outside /\ InUse = Outside /\ Waiters = {} /\ Wakers = {} /\ Made = Outside
  <2> HIDE DEF whole
  <2>1. \A c \in Outside : <<c, 1>> \in DOMAIN frames /\ frames[<<c, 1>>].range.call = c
    BY <1>1, <1>2
  <2>a. \A p \in DOMAIN frames : frames[p].caller /\ frames[p].range.call \in Outside
    BY <1>2
  <2>2. Callers = Outside
    <3>1. Callers \subseteq Outside
      BY <2>a DEF Callers, CallersIn
    <3>2. ASSUME NEW c \in Outside PROVE c \in Callers
      BY <2>1, <2>a, InViews
    <3> QED BY <3>1, <3>2
  <2>3. InUse = Outside
    <3>1. InUse \subseteq Outside
      BY <1>1, <2>a DEF InUse, UsersIn
    <3>2. ASSUME NEW c \in Outside PROVE c \in InUse
      BY <2>1, InViews
    <3> QED BY <3>1, <3>2
  <2>4. Waiters = {}
    BY <1>2, PcSets DEF Waiters, WaitersIn
  <2>5. Wakers = {}
    BY <1>2 DEF Wakers, WakersIn
  <2> QED BY <1>1, <2>2, <2>3, <2>4, <2>5 DEF Made
<1>6. \A c : whole(c).call = c
  BY DEF RangeOf
<1> HIDE DEF whole
<1>7. FramesInv
  <2>1. WellFormed
    BY <1>1, <1>2 DEF WellFormed
  <2>2. OneOwner
    BY <1>1, <1>2, <1>6 DEF OneOwner, Sole
  <2>3. OneCaller
    BY <1>2 DEF OneCaller, Single
  <2> QED BY <1>1, <2>1, <2>2, <2>3 DEF FramesInv
<1>8. Apart
  BY <1>4, <1>6 DEF Apart
<1>9. Framed /\ SignalsOK
  BY <1>1, <1>5 DEF Framed, SignalsOK
<1>10. MadeInTurn
  BY <1>5 DEF MadeInTurn
<1>11. CountRight
  <2>1. ASSUME NEW c \in Outside PROVE state_[c] = Counted(loop[c], Owed, Waiters, c)
    <3>1. loop[c] \in AllLoops /\ c \in Calls
      BY InitFrames
    <3>2. RangeOf(c, 0, loop[c].n) \in Owed
      BY <1>4 DEF whole
    <3>3. Cardinality(Pending(loop[c], Owed, c)) = BlockCount(loop[c])
      BY <3>1, <3>2, AllPending
    <3>4. BlockCount(loop[c]) \in Nat
      BY <3>1, BlocksOfLoop
    <3> QED BY <1>1, <1>5, <3>1, <3>3, <3>4 DEF Counted
  <2> QED BY <1>1, <1>5, <2>1 DEF CountRight
<1>12. RanRight
  <2> SUFFICES ASSUME NEW c \in Calls, NEW i \in 0..loop[c].n - 1, c \in Outside
               PROVE  Covered(Unrun, c, i)
    BY <1>1, <1>5 DEF RanRight
  <2>1. Covers(RangeOf(c, 0, loop[c].n), c, i)
    BY DEF Covers, Indices, RangeOf
  <2> QED BY <1>4, <2>1 DEF Covered, whole
<1>13. CallsInv
  BY <1>8, <1>9, <1>10, <1>11, <1>12 DEF CallsInv
<1> QED BY <1>7, <1>13 DEF ParInv

-----------------------------------------------------------------------------
(* The invariant, and what it says.                                        *)

LEMMA StutterInv ==
  ASSUME ParInv, UNCHANGED vars
  PROVE  ParInv'
BY DEF vars, ParInv, FramesInv, Typed, WellFormed, OneOwner, OneCaller, CallsInv, Apart, Framed,
       MadeInTurn, CountRight, SignalsOK, RanRight, Owed, Unrun, Unstarted, Callers, Waiters,
       Wakers, InUse, Made, frames

LEMMA NextInv ==
  ASSUME ParInv, [Next]_vars
  PROVE  ParInv'
<1>1. ASSUME NEW w \in Workers, Take(w) PROVE ParInv'
  BY <1>1, TakeInv
<1>2. ASSUME NEW t \in AllThreads, Step(t) PROVE ParInv'
  <2>1. CASE ScheduleUpper(t) \/ ScheduleLower(t)
    BY <2>1, UpperInv, LowerInv
  <2>2. CASE StartBlock(t) \/ FinishBlock(t)
    BY <2>2, StartInv, FinishInv
  <2>3. CASE Notify(t) \/ Signal(t)
    BY <2>3, NotifyInv, SignalInv
  <2>4. CASE Wait(t) \/ Check(t)
    BY <2>4, WaitInv, CheckInv
  <2> QED BY <1>2, <2>1, <2>2, <2>3, <2>4 DEF Step
<1>3. CASE UNCHANGED vars
  BY <1>3, StutterInv
<1> QED BY <1>1, <1>2, <1>3 DEF Next

\* The frames that FramesOf lists are those of frames.
LEMMA FramesOfIs ==
  ASSUME Typed, NEW t \in AllThreads, NEW f \in FramesOf(t)
  PROVE  \E p \in DOMAIN frames : frames[p] = f
<1>1. PICK i \in 1..Len(stack[t]) : f = stack[t][i]
  BY DEF FramesOf
<1>2. stack[t] \in Seq(AllFrames)
  BY DEF Typed
<1> DEFINE n == Len(stack[t])
           d == n + 1 - i
<1>3. n \in Nat /\ d \in 1..n /\ n + 1 - d = i
  BY <1>2
<1>4. <<t, d>> \in DOMAIN frames
  BY <1>3, PlaceIs, FrameIs DEF frames
<1>5. frames[<<t, d>>] = stack[t][n + 1 - d]
  BY <1>3, FrameIs DEF frames
<1> QED BY <1>1, <1>3, <1>4, <1>5

LEMMA InvFrames ==
  ASSUME ParInv
  PROVE  FrameOutlivesUse
<1>1. Framed /\ Typed
  BY DEF ParInv, CallsInv, FramesInv
<1> SUFFICES ASSUME NEW c \in returned
             PROVE  /\ \A r \in tasks : r.call # c
                    /\ \A t \in AllThreads : \A f \in FramesOf(t) : f.range.call # c
  BY DEF FrameOutlivesUse
<1>2. c \notin InUse
  BY <1>1 DEF Framed
<1>3. \A r \in tasks : r.call # c
  BY <1>2 DEF InUse, UsersIn
<1>4. ASSUME NEW t \in AllThreads, NEW f \in FramesOf(t) PROVE f.range.call # c
  <2>1. PICK p \in DOMAIN frames : frames[p] = f
    BY <1>1, FramesOfIs
  <2> QED BY <1>2, <2>1, InViews
<1> QED BY <1>3, <1>4

LEMMA InvAssertions ==
  ASSUME ParInv
  PROVE  BarrierAssertions
<1>1. /\ FramesInv /\ Typed /\ CountRight /\ SignalsOK /\ RangesOK(loop, Owed) /\ Disjoint(Owed)
      /\ loop \in [Calls -> AllLoops]
  BY OwedFacts DEF ParInv, CallsInv, FramesInv, Apart, Disjoint
<1>2. ASSUME NEW t \in AllThreads, At(t, "notify") PROVE state_[call(t)] \div 2 # 0
  <2> DEFINE c == call(t)
             from == "notify"
             r == Top(t).range
  <2>1. At(t, from) /\ from \in Owing /\ from # "lower" /\ from \in {"body", "notify"}
    BY <1>2, PcSets
  <2> HIDE DEF from
  <2>2. /\ TopPlace(stack, t) \in DOMAIN frames /\ frames[TopPlace(stack, t)] = Top(t)
        /\ Top(t).pc = from /\ c = r.call /\ FrameOK(loop, Top(t)) /\ c \in Calls
    BY <1>1, <2>1, AtTop
  <2>3. Debt(loop, Top(t)) = r
    BY <2>1, <2>2 DEF Debt
  <2>4. r \in Owed /\ ShortRange(loop[c], r)
    BY <2>1, <2>2, <2>3, InViews DEF FrameOK
  <2> HIDE DEF c, r
  <2> DEFINE k == Cardinality(Pending(loop[c], Owed, c))
  <2>5. k \in Nat \ {0}
    BY <1>1, <2>2, <2>4, OneLessPending
  <2>6. state_[c] = 2 * k + 0 \/ state_[c] = 2 * k + 1
    <3>1. c \in Callers
      BY <2>2, <2>4, CallerOf
    <3> QED BY <1>1, <3>1, Counts DEF CountRight
  <2> HIDE DEF k
  <2>7. state_[c] \div 2 = k
    BY <2>5, <2>6
  <2> QED BY <2>5, <2>7 DEF c
<1>3. ASSUME NEW t \in AllThreads, At(t, "signal") PROVE call(t) \notin notified_
  <2>1. /\ TopPlace(stack, t) \in DOMAIN frames /\ frames[TopPlace(stack, t)].pc = "signal"
        /\ call(t) = frames[TopPlace(stack, t)].range.call
    BY <1>1, <1>3, AtTop
  <2> QED BY <1>1, <2>1, InViews DEF SignalsOK
<1>4. ASSUME NEW c \in returned PROVE state_[c] \div 2 = 0
  <2>1. state_[c] = 1
    BY <1>1 DEF CountRight
  <2> QED BY <2>1
<1> QED BY <1>2, <1>3, <1>4 DEF BarrierAssertions

LEMMA InvOnce ==
  ASSUME ParInv
  PROVE  EachIndexOnce
<1>1. RanRight /\ \A c \in Calls : DOMAIN ran[c] = 0..loop[c].n - 1
  BY DEF ParInv, CallsInv, FramesInv, Typed
<1> SUFFICES ASSUME NEW c \in Calls, NEW i \in 0..loop[c].n - 1
             PROVE  ran[c][i] <= 1 /\ (c \in returned => ran[c][i] = 1)
  BY <1>1 DEF EachIndexOnce
<1>2. ran[c][i] = IF c \in returned \/ (c \in Callers /\ ~ Covered(Unrun, c, i)) THEN 1 ELSE 0
  BY <1>1 DEF RanRight
<1> QED BY <1>2

\* The invariant holds throughout, for any workers, calls, nesting and loops.
THEOREM InvHolds == ASSUME CallsAssumption PROVE Spec => []ParInv
<1>1. Init => ParInv
  BY InitInv
<1>2. ParInv /\ [Next]_vars => ParInv'
  BY NextInv
<1> QED BY <1>1, <1>2, PTL DEF Spec

\* The barrier, HandleRange and f of a call (:200) are locals of ParallelFor.  When
\* it has returned no closure in the pool and no frame on any thread uses them.
THEOREM FrameHolds == ASSUME CallsAssumption PROVE Spec => []FrameOutlivesUse
<1>1. ParInv => FrameOutlivesUse
  BY InvFrames
<1> QED BY <1>1, InvHolds, PTL

\* The assertions of Barrier never fail: Notify finds the count above 0 (:49) and
\* notified_ not yet set (:53), and the destructor finds the count 0 (:43).
THEOREM AssertionsHold == ASSUME CallsAssumption PROVE Spec => []BarrierAssertions
<1>1. ParInv => BarrierAssertions
  BY InvAssertions
<1> QED BY <1>1, InvHolds, PTL

\* However HandleRange halves a call and whoever takes the halves, f runs at most
\* once for an index, and once for every index of a call that has returned.
THEOREM OnceHolds == ASSUME CallsAssumption PROVE Spec => []EachIndexOnce
<1>1. ParInv => EachIndexOnce
  BY InvOnce
<1> QED BY <1>1, InvHolds, PTL
==============================================================================
