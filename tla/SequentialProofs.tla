-------------------------- MODULE SequentialProofs -------------------------
(***************************************************************************)
(* Theorems about the components that one thread uses at a time, for every *)
(* size, every input and every sequence of calls and of failures:          *)
(*   - the search for a block size of ParallelFor ends with a good one;    *)
(*   - a ZlibOutputBuffer loses no byte, and a flush puts all on the file; *)
(*   - a ZlibInputStream reads, in order, the text its file inflates to.   *)
(***************************************************************************)
EXTENDS MCSequential, SequenceTheorems, WellFoundedInduction, TLAPS

-----------------------------------------------------------------------------
(* BlockSizing.                                                            *)

\* divup rounds up.
LEMMA DivUp ==
  ASSUME NEW x \in Nat, NEW y \in Nat \ {0}
  PROVE  /\ Sizing!divup(x, y) \in Nat
         /\ x <= Sizing!divup(x, y) * y
         /\ Sizing!divup(x, y) * y < x + y
<1> DEFINE z == x + y - 1
           d == z \div y
<1>1. z \in Nat
  OBVIOUS
<1> HIDE DEF z
<1>2. d \in Int /\ d * y <= z /\ z < d * y + y
  BY <1>1
<1>3. d >= 0
  BY <1>1
<1> HIDE DEF d
<1>4. d * y \in Int
  BY <1>2
<1>5. x <= d * y /\ d * y < x + y
  BY <1>2, <1>4 DEF z
<1> QED BY <1>2, <1>3, <1>5 DEF d, z, Sizing!divup

LEMMA DivUpLeast ==
  ASSUME NEW x \in Nat, NEW y \in Nat \ {0}, NEW k \in Nat, x <= k * y
  PROVE  Sizing!divup(x, y) <= k
<1> DEFINE d == Sizing!divup(x, y)
<1>1. d \in Nat /\ d * y < x + y
  BY DivUp
<1> HIDE DEF d
<1> SUFFICES ASSUME d > k PROVE FALSE
  BY <1>1 DEF d
<1>2. d = k + 1 + (d - k - 1) /\ d - k - 1 \in Nat
  BY <1>1
<1>3. d * y = k * y + y + (d - k - 1) * y /\ (d - k - 1) * y >= 0
  BY <1>1, <1>2
<1> QED BY <1>1, <1>3

LEMMA DivUpOne ==
  ASSUME NEW x \in Nat \ {0}, NEW y \in Nat \ {0}
  PROVE  Sizing!divup(x, y) >= 1
BY DivUp

Sensible == n \in Nat /\ cost \in Nat /\ threads \in Nat \ {0} /\ align \in (Nat \ {0}) \cup {Null}

\* What the loop goes round with.
SearchOK ==
  pc \in {"loop", "split"} =>
    /\ align \in Nat \ {0} /\ n > 1 /\ threads > 1
    /\ n * cost >= 210000
    /\ max_block_size \in Nat \ {0} /\ (max_block_size * cost <= 80000 \/ max_block_size = 1)
    /\ block_size \in Nat \ {0} /\ block_count = Sizing!Blocks(block_size)
    /\ block_count \in Nat \ {0} /\ prev_block_count \in Nat \ {0}
    /\ align = 1 => block_size < n

Efficiencies == [num : Nat, den : Nat \ {0}]

\* None of the efficiencies seen is greater than the greatest, and that of the
\* chosen size is near it.
BestOK ==
  pc \in {"loop", "split"} =>
    /\ max_efficiency \in Efficiencies /\ seen \subseteq Efficiencies
    /\ \A e \in seen : Sizing!AtLeast(max_efficiency, e)
    /\ Sizing!NearlyAtLeast(Sizing!Efficiency(block_count), max_efficiency)

SizingInv == Sensible /\ pc # "assert" /\ SearchOK /\ BestOK

\* Work that is worth two threads has so many cycles.
LEMMA Worth ==
  ASSUME Sensible, Sizing!WorthSharing
  PROVE  n > 1 /\ threads > 1 /\ cost > 0 /\ n * cost >= 210000
<1> DEFINE w      == n * cost
           tenths == 10 * (w - 100000) + 9 * 100000
           t      == IF tenths < 0 THEN -((-tenths) \div 1000000) ELSE tenths \div 1000000
<1>1. w \in Nat /\ n \in Nat /\ cost \in Nat /\ n > 1 /\ threads \in Nat /\ threads > 1
  BY DEF Sensible, Sizing!WorthSharing
<1>2. Sizing!NumThreads = Sizing!MinOf(threads, Sizing!MaxOf(1, t)) /\ Sizing!NumThreads # 1
  BY DEF Sizing!NumThreads, Sizing!kStartupCycles, Sizing!kPerThreadCycles, Sizing!WorthSharing
<1> HIDE DEF w
<1>3. tenths \in Int /\ t \in Int
  BY <1>1
<1>4. t > 1
  <2> HIDE DEF t
  <2> QED BY <1>1, <1>2, <1>3 DEF Sizing!MinOf, Sizing!MaxOf
<1>5. tenths >= 2000000
  <2>1. CASE tenths < 0
    <3>1. (-tenths) \div 1000000 >= 0
      BY <1>3, <2>1
    <3> QED BY <1>3, <1>4, <2>1, <3>1
  <2>2. CASE tenths >= 0
    BY <1>3, <1>4, <2>2
  <2> QED BY <1>3, <2>1, <2>2
<1>6. w >= 210000
  BY <1>1, <1>5
<1>7. cost > 0
  BY <1>1, <1>6 DEF w
<1> QED BY <1>1, <1>6, <1>7 DEF w

\* A size that the cost allows for k tasks.
LEMMA SizeFor ==
  ASSUME cost \in Nat \ {0}, NEW k \in Nat \ {0}
  PROVE  /\ Sizing!BlockSizeFor(k) \in Nat \ {0}
         /\ Sizing!BlockSizeFor(k) = 1 \/ Sizing!BlockSizeFor(k) * cost <= k * 40000
<1> DEFINE q == (k * 40000) \div cost
<1>1. k * 40000 \in Nat
  OBVIOUS
<1>2. q \in Int /\ q * cost <= k * 40000
  BY <1>1
<1>3. Sizing!BlockSizeFor(k) = Sizing!MaxOf(1, q)
  BY DEF Sizing!BlockSizeFor, Sizing!kTaskSize
<1> HIDE DEF q
<1> QED BY <1>2, <1>3 DEF Sizing!MaxOf

\* An aligned size is no smaller, and no greater than n.
LEMMA AlignedSize ==
  ASSUME n \in Nat, n > 1, align \in Nat \ {0}, NEW size \in Nat \ {0}, size <= n
  PROVE  /\ Sizing!Aligned(size) \in Nat \ {0}
         /\ size <= Sizing!Aligned(size) /\ Sizing!Aligned(size) <= n
         /\ align = 1 => Sizing!Aligned(size) = size
<1> DEFINE d == Sizing!divup(size, align)
           b == align * d
<1>1. d \in Nat /\ size <= d * align /\ d * align < size + align
  BY DivUp
<1> HIDE DEF d
<1>2. b \in Nat /\ size <= b /\ b < size + align
  BY <1>1
<1>3. Sizing!Aligned(size) = Sizing!MinOf(n, b)
  BY DEF Sizing!Aligned, Sizing!block_align, d
<1> HIDE DEF b
<1> QED BY <1>2, <1>3 DEF Sizing!MinOf

\* A block of a size that the cost allows leaves another.
LEMMA Another ==
  ASSUME n \in Nat, n > 1, cost \in Nat, n * cost >= 210000,
         NEW size \in Nat \ {0}, size = 1 \/ size * cost <= 80000, size <= n
  PROVE  size < n
<1> SUFFICES ASSUME size = n PROVE FALSE
  OBVIOUS
<1>1. n * cost <= 80000
  OBVIOUS
<1>2. n * cost \in Nat
  OBVIOUS
<1> QED BY <1>1, <1>2

LEMMA CountFacts ==
  ASSUME n \in Nat, n > 1, NEW size \in Nat \ {0}
  PROVE  /\ Sizing!Blocks(size) \in Nat \ {0}
         /\ n <= Sizing!Blocks(size) * size
         /\ (Sizing!Blocks(size) - 1) * size < n
<1> DEFINE b == Sizing!Blocks(size)
<1>1. b \in Nat /\ n <= b * size /\ b * size < n + size
  BY DivUp DEF Sizing!Blocks
<1> HIDE DEF b
<1>2. b # 0
  BY <1>1
<1>3. (b - 1) * size = b * size - size /\ b * size \in Nat
  BY <1>1
<1> QED BY <1>1, <1>2, <1>3 DEF b

LEMMA EfficiencyType ==
  ASSUME threads \in Nat \ {0}, NEW count \in Nat \ {0}
  PROVE  Sizing!Efficiency(count) \in Efficiencies
<1> DEFINE d == Sizing!divup(count, threads)
<1>1. d \in Nat /\ d >= 1
  BY DivUpOne, DivUp
<1> HIDE DEF d
<1>2. d * threads \in Nat \ {0}
  BY <1>1
<1> QED BY <1>2 DEF d, Sizing!Efficiency, Efficiencies

\* Quotients, compared by their products.
LEMMA Cancel ==
  ASSUME NEW a \in Int, NEW b \in Int, NEW k \in Nat \ {0}, a * k >= b * k
  PROVE  a >= b
<1> SUFFICES ASSUME a < b PROVE FALSE
  OBVIOUS
<1>1. b = a + 1 + (b - a - 1) /\ b - a - 1 \in Nat
  OBVIOUS
<1>2. b * k = a * k + k + (b - a - 1) * k /\ (b - a - 1) * k \in Nat /\ a * k \in Int
  BY <1>1
<1> QED BY <1>2

LEMMA Times ==
  ASSUME NEW a \in Int, NEW b \in Int, NEW k \in Nat, a >= b
  PROVE  a * k >= b * k
<1>1. a = b + (a - b) /\ a - b \in Nat
  OBVIOUS
<1>2. a * k = b * k + (a - b) * k /\ (a - b) * k \in Nat /\ b * k \in Int
  BY <1>1
<1> QED BY <1>2

LEMMA AtLeastTrans ==
  ASSUME NEW a \in Efficiencies, NEW b \in Efficiencies, NEW c \in Efficiencies,
         Sizing!AtLeast(a, b), Sizing!AtLeast(b, c)
  PROVE  Sizing!AtLeast(a, c)
<1>1. /\ a.num \in Nat /\ a.den \in Nat \ {0} /\ b.num \in Nat /\ b.den \in Nat \ {0}
      /\ c.num \in Nat /\ c.den \in Nat \ {0}
  BY DEF Efficiencies
<1>2. a.num * b.den >= b.num * a.den /\ b.num * c.den >= c.num * b.den
  BY DEF Sizing!AtLeast
<1>3. (a.num * b.den) * c.den >= (b.num * a.den) * c.den
  BY <1>1, <1>2, Times
<1>4. (b.num * c.den) * a.den >= (c.num * b.den) * a.den
  BY <1>1, <1>2, Times
<1>5. /\ (a.num * b.den) * c.den = (a.num * c.den) * b.den
      /\ (c.num * b.den) * a.den = (c.num * a.den) * b.den
      /\ (b.num * a.den) * c.den = (b.num * c.den) * a.den
  BY <1>1
<1>6. (a.num * c.den) * b.den >= (c.num * a.den) * b.den
  <2>1. /\ (a.num * b.den) * c.den \in Int /\ (b.num * a.den) * c.den \in Int
        /\ (c.num * b.den) * a.den \in Int
    BY <1>1
  <2> QED BY <1>3, <1>4, <1>5, <2>1
<1>7. a.num * c.den \in Int /\ c.num * a.den \in Int
  BY <1>1
<1> QED BY <1>1, <1>6, <1>7, Cancel DEF Sizing!AtLeast

LEMMA NearTrans ==
  ASSUME NEW a \in Efficiencies, NEW b \in Efficiencies, NEW c \in Efficiencies,
         Sizing!NearlyAtLeast(a, b), Sizing!AtLeast(b, c)
  PROVE  Sizing!NearlyAtLeast(a, c)
<1>1. /\ a.num \in Nat /\ a.den \in Nat \ {0} /\ b.num \in Nat /\ b.den \in Nat \ {0}
      /\ c.num \in Nat /\ c.den \in Nat \ {0}
  BY DEF Efficiencies
<1> DEFINE ab == a.num * b.den
           aa == a.den * b.den
           ba == b.num * a.den
           bc == b.num * c.den
           cb == c.num * b.den
           ac == a.num * c.den
           cc == a.den * c.den
           ca == c.num * a.den
<1>2. 100 * ab + aa >= 100 * ba /\ bc >= cb
  <2>1. 100 * a.num * b.den = 100 * ab /\ 100 * b.num * a.den = 100 * ba
    BY <1>1
  <2> QED BY <2>1 DEF Sizing!AtLeast, Sizing!NearlyAtLeast
<1>3. /\ ab \in Nat /\ aa \in Nat /\ ba \in Nat /\ bc \in Nat /\ cb \in Nat /\ ac \in Nat
      /\ cc \in Nat /\ ca \in Nat
  BY <1>1
<1>4. /\ ab * c.den = ac * b.den /\ aa * c.den = cc * b.den
      /\ ba * c.den = bc * a.den /\ cb * a.den = ca * b.den
  BY <1>1
<1> HIDE DEF ab, aa, ba, bc, cb, ac, cc, ca
<1>5. (100 * ab + aa) * c.den >= (100 * ba) * c.den
  BY <1>1, <1>2, <1>3, Times
<1>6. bc * a.den >= cb * a.den
  BY <1>1, <1>2, <1>3, Times
<1>7. /\ (100 * ab + aa) * c.den = 100 * (ab * c.den) + aa * c.den
      /\ (100 * ba) * c.den = 100 * (ba * c.den)
      /\ (100 * ac + cc) * b.den = 100 * (ac * b.den) + cc * b.den
      /\ (100 * ca) * b.den = 100 * (ca * b.den)
  BY <1>1, <1>3
<1>8. (100 * ac + cc) * b.den >= (100 * ca) * b.den
  <2>1. ba * c.den \in Int /\ cb * a.den \in Int /\ ab * c.den \in Int /\ aa * c.den \in Int
    BY <1>1, <1>3
  <2> QED BY <1>4, <1>5, <1>6, <1>7, <2>1
<1>9. 100 * ac + cc >= 100 * ca
  BY <1>1, <1>3, <1>8, Cancel
<1>10. 100 * ac = 100 * a.num * c.den /\ 100 * ca = 100 * c.num * a.den
  BY <1>1 DEF ac, ca
<1> QED BY <1>9, <1>10 DEF Sizing!NearlyAtLeast, cc

\* Of two quotients one is at least the other, and one that is not near below the
\* other is less.
LEMMA Compared ==
  ASSUME NEW a \in Efficiencies, NEW b \in Efficiencies
  PROVE  /\ Sizing!AtLeast(a, a) /\ Sizing!NearlyAtLeast(a, a)
         /\ Sizing!AtLeast(a, b) \/ Sizing!AtLeast(b, a)
         /\ ~ Sizing!NearlyAtLeast(a, b) => Sizing!AtLeast(b, a)
<1>1. /\ a.num \in Nat /\ a.den \in Nat \ {0} /\ b.num \in Nat /\ b.den \in Nat \ {0}
  BY DEF Efficiencies
<1> DEFINE ab == a.num * b.den
           ba == b.num * a.den
           dd == a.den * b.den
           aa == a.num * a.den
           ee == a.den * a.den
<1>2. ab \in Nat /\ ba \in Nat /\ dd \in Nat /\ aa \in Nat /\ ee \in Nat
  BY <1>1
<1>3. /\ 100 * a.num * b.den = 100 * ab /\ 100 * b.num * a.den = 100 * ba
      /\ 100 * a.num * a.den = 100 * aa
  BY <1>1
<1> HIDE DEF ab, ba, dd, aa, ee
<1>4. Sizing!AtLeast(a, b) <=> ab >= ba
  BY DEF Sizing!AtLeast, ab, ba
<1>5. Sizing!AtLeast(b, a) <=> ba >= ab
  BY DEF Sizing!AtLeast, ab, ba
<1>6. Sizing!NearlyAtLeast(a, b) <=> 100 * ab + dd >= 100 * ba
  BY <1>3 DEF Sizing!NearlyAtLeast, dd
<1>7. Sizing!NearlyAtLeast(a, a) <=> 100 * aa + ee >= 100 * aa
  BY <1>3 DEF Sizing!NearlyAtLeast, ee
<1>8. Sizing!AtLeast(a, a) <=> aa >= aa
  BY DEF Sizing!AtLeast, aa
<1> QED BY <1>2, <1>4, <1>5, <1>6, <1>7, <1>8

LEMMA SizingStart == MCInit => SizingInv
<1> SUFFICES ASSUME Sizing!Init PROVE SizingInv
  BY DEF MCInit
<1>1. Sensible
  BY MCSequentialAssumption DEF Sizing!Init, Sizing!SizingAssumption, Sensible
<1> QED BY <1>1 DEF Sizing!Init, SizingInv, SearchOK, BestOK

LEMMA FirstSizeStep ==
  ASSUME SizingInv, Sizing!FirstSize
  PROVE  SizingInv'
<1>1. /\ Sensible /\ n > 1 /\ threads > 1 /\ cost > 0 /\ n * cost >= 210000
      /\ align \in Nat \ {0} /\ n \in Nat /\ cost \in Nat \ {0} /\ threads \in Nat \ {0}
  BY Worth DEF SizingInv, Sizing!FirstSize, Sensible
<1> DEFINE m == Sizing!MinOf(n, Sizing!BlockSizeFor(2))
           f == Sizing!MinOf(n, Sizing!BlockSizeFor(1))
           a == Sizing!Aligned(f)
           k == Sizing!Blocks(a)
           e == Sizing!Efficiency(k)
<1>2. /\ UNCHANGED <<n, cost, threads, align>> /\ pc' = "loop"
      /\ max_block_size' = m /\ block_size' = a /\ block_count' = k /\ prev_block_count' = k
      /\ max_efficiency' = e /\ seen' = {e}
  BY DEF Sizing!FirstSize, Sizing!args
<1>3. m \in Nat \ {0} /\ (m * cost <= 80000 \/ m = 1)
  <2>1. /\ Sizing!BlockSizeFor(2) \in Nat \ {0}
        /\ Sizing!BlockSizeFor(2) = 1 \/ Sizing!BlockSizeFor(2) * cost <= 80000
    BY <1>1, SizeFor
  <2> DEFINE b == Sizing!BlockSizeFor(2)
  <2> HIDE DEF b
  <2>2. ASSUME n <= b, b * cost <= 80000 PROVE n * cost <= 80000
    <3>1. b * cost >= n * cost
      BY <1>1, <2>1, <2>2, Times DEF b
    <3>2. b * cost \in Nat /\ n * cost \in Nat
      BY <1>1, <2>1 DEF b
    <3> QED BY <2>2, <3>1, <3>2
  <2>3. b \in Nat \ {0} /\ (b = 1 \/ b * cost <= 80000) /\ m = Sizing!MinOf(n, b)
    BY <2>1 DEF b
  <2> HIDE DEF m
  <2> QED BY <1>1, <2>2, <2>3 DEF Sizing!MinOf
<1>4. f \in Nat \ {0} /\ f <= n /\ f < n
  <2>1. /\ Sizing!BlockSizeFor(1) \in Nat \ {0}
        /\ Sizing!BlockSizeFor(1) = 1 \/ Sizing!BlockSizeFor(1) * cost <= 40000
    BY <1>1, SizeFor
  <2> DEFINE b == Sizing!BlockSizeFor(1)
  <2>2. b \in Nat \ {0} /\ (b = 1 \/ b * cost <= 40000) /\ f = Sizing!MinOf(n, b)
    BY <2>1
  <2> HIDE DEF b
  <2>3. b < n
    <3> SUFFICES ASSUME b >= n PROVE FALSE
      BY <1>1, <2>2
    <3>1. b * cost >= n * cost
      BY <1>1, <2>2, Times
    <3>2. b * cost \in Nat /\ n * cost \in Nat
      BY <1>1, <2>2
    <3> QED BY <1>1, <2>2, <3>1, <3>2
  <2> HIDE DEF f
  <2> QED BY <1>1, <2>2, <2>3 DEF Sizing!MinOf
<1> HIDE DEF m, f
<1>5. a \in Nat \ {0} /\ (align = 1 => a < n)
  BY <1>1, <1>4, AlignedSize
<1>6. k \in Nat \ {0}
  BY <1>1, <1>5, CountFacts
<1>7. e \in Efficiencies
  BY <1>1, <1>6, EfficiencyType
<1>8. Sizing!AtLeast(e, e) /\ Sizing!NearlyAtLeast(e, e)
  BY <1>7, Compared
<1>9. Sensible'
  BY <1>1, <1>2 DEF Sensible
<1> HIDE DEF a
<1>10. k = Sizing!Blocks(block_size)'
  BY <1>2 DEF Sizing!Blocks
<1>11. SearchOK'
  BY <1>1, <1>2, <1>3, <1>5, <1>6, <1>10 DEF SearchOK
<1>12. Sizing!Efficiency(block_count)' = e
  BY <1>2 DEF Sizing!Efficiency
<1> HIDE DEF e
<1>13. BestOK'
  BY <1>2, <1>7, <1>8, <1>12 DEF BestOK, Sizing!AtLeast, Sizing!NearlyAtLeast
<1> QED BY <1>2, <1>9, <1>11, <1>13 DEF SizingInv

LEMMA CoarsenStep ==
  ASSUME SizingInv, Sizing!Coarsen
  PROVE  SizingInv'
<1> DEFINE c == Sizing!CoarserSize
           k == Sizing!Blocks(c)
           e == Sizing!Efficiency(k)
<1>1. /\ pc = "loop" /\ prev_block_count > 1 /\ c <= max_block_size
      /\ UNCHANGED <<n, cost, threads, align, max_block_size>>
      /\ pc' = IF k < prev_block_count THEN "loop" ELSE "assert"
      /\ prev_block_count' = k /\ seen' = seen \cup {e}
  BY DEF Sizing!Coarsen, Sizing!args
<1>2. /\ Sensible /\ n \in Nat /\ n > 1 /\ threads \in Nat \ {0} /\ align \in Nat \ {0}
      /\ cost \in Nat /\ n * cost >= 210000 /\ prev_block_count \in Nat \ {0}
      /\ max_block_size \in Nat \ {0} /\ (max_block_size * cost <= 80000 \/ max_block_size = 1)
  BY <1>1 DEF SizingInv, SearchOK, Sensible
<1> DEFINE p == prev_block_count - 1
           d == Sizing!divup(n, p)
<1>3. p \in Nat \ {0}
  BY <1>1, <1>2
<1>4. d \in Nat \ {0} /\ n <= d * p /\ d <= n
  <2>1. d \in Nat /\ n <= d * p
    BY <1>2, <1>3, DivUp
  <2>2. d >= 1
    BY <1>2, <1>3, DivUpOne
  <2>3. n <= n * p
    BY <1>2, <1>3
  <2>4. d <= n
    BY <1>2, <1>3, <2>3, DivUpLeast
  <2> QED BY <2>1, <2>2, <2>4
<1>5. c = Sizing!Aligned(d)
  BY DEF Sizing!CoarserSize
<1> HIDE DEF d, p
<1>6. c \in Nat \ {0} /\ d <= c /\ c <= n /\ (align = 1 => c = d)
  BY <1>2, <1>4, <1>5, AlignedSize
<1> HIDE DEF c
<1>7. k \in Nat \ {0} /\ k <= p
  <2>1. k \in Nat \ {0}
    BY <1>2, <1>6, CountFacts
  <2>2. c * p >= d * p
    BY <1>3, <1>4, <1>6, Times
  <2>3. n <= p * c
    <3>1. c * p \in Nat /\ d * p \in Nat /\ c * p = p * c
      BY <1>3, <1>4, <1>6
    <3> QED BY <1>2, <1>4, <2>2, <3>1
  <2>4. k <= p
    BY <1>2, <1>3, <1>6, <2>3, DivUpLeast DEF Sizing!Blocks
  <2> QED BY <2>1, <2>4
<1>8. pc' = "loop"
  <2>1. k < prev_block_count
    BY <1>2, <1>7 DEF p
  <2> QED BY <1>1, <2>1
<1>9. e \in Efficiencies
  BY <1>2, <1>7, EfficiencyType
<1>10. c < n
  <2>1. c = 1 \/ c * cost <= 80000
    <3>1. CASE max_block_size = 1
      BY <1>1, <1>6, <3>1
    <3>2. CASE max_block_size * cost <= 80000
      <4>1. max_block_size * cost >= c * cost
        BY <1>1, <1>2, <1>6, Times
      <4>2. max_block_size * cost \in Nat /\ c * cost \in Nat
        BY <1>2, <1>6
      <4> QED BY <3>2, <4>1, <4>2
    <3> QED BY <1>2, <3>1, <3>2
  <2> QED BY <1>2, <1>6, <2>1, Another
<1>11. Sensible'
  BY <1>1, <1>2 DEF Sensible
<1>12. /\ max_efficiency \in Efficiencies /\ seen \subseteq Efficiencies
       /\ \A x \in seen : Sizing!AtLeast(max_efficiency, x)
       /\ Sizing!NearlyAtLeast(Sizing!Efficiency(block_count), max_efficiency)
  BY <1>1 DEF SizingInv, BestOK
<1>13. /\ block_size \in Nat \ {0} /\ block_count = Sizing!Blocks(block_size)
       /\ block_count \in Nat \ {0} /\ threads > 1 /\ (align = 1 => block_size < n)
  BY <1>1 DEF SizingInv, SearchOK
<1> HIDE DEF k
<1>14. CASE Sizing!GoodEnough(e)
  <2> DEFINE g == IF Sizing!AtLeast(max_efficiency, e) THEN max_efficiency ELSE e
  <2>1. block_size' = c /\ block_count' = k /\ max_efficiency' = g
    BY <1>14 DEF Sizing!Coarsen, c, k, e
  <2>2. Sizing!Blocks(block_size)' = k
    BY <1>1, <2>1 DEF Sizing!Blocks, k
  <2>3. Sizing!Efficiency(block_count)' = e
    BY <1>1, <2>1 DEF Sizing!Efficiency
  <2> HIDE DEF e
  <2>4. g \in Efficiencies /\ \A x \in seen \cup {e} : Sizing!AtLeast(g, x)
    <3>1. CASE Sizing!AtLeast(max_efficiency, e)
      BY <1>12, <3>1
    <3>2. CASE ~ Sizing!AtLeast(max_efficiency, e)
      <4>1. Sizing!AtLeast(e, max_efficiency) /\ Sizing!AtLeast(e, e)
        BY <1>9, <1>12, <3>2, Compared
      <4>2. \A x \in seen : Sizing!AtLeast(e, x)
        BY <1>9, <1>12, <4>1, AtLeastTrans
      <4> QED BY <1>9, <3>2, <4>1, <4>2
    <3> QED BY <3>1, <3>2
  <2>5. Sizing!NearlyAtLeast(e, g)
    <3>1. Sizing!NearlyAtLeast(e, max_efficiency) /\ Sizing!NearlyAtLeast(e, e)
      BY <1>9, <1>14, Compared DEF Sizing!GoodEnough
    <3> QED BY <3>1
  <2> HIDE DEF g
  <2>6. SearchOK'
    BY <1>1, <1>2, <1>6, <1>7, <1>10, <1>13, <2>1, <2>2 DEF SearchOK
  <2>7. BestOK'
    BY <1>1, <1>9, <1>12, <2>1, <2>3, <2>4, <2>5 DEF BestOK, Sizing!AtLeast, Sizing!NearlyAtLeast
  <2> QED BY <1>8, <1>11, <2>6, <2>7 DEF SizingInv
<1>15. CASE ~ Sizing!GoodEnough(e)
  <2>1. UNCHANGED <<block_size, block_count, max_efficiency>>
    BY <1>15 DEF Sizing!Coarsen, c, k, e
  <2>2. Sizing!Blocks(block_size)' = Sizing!Blocks(block_size)
    BY <1>1, <2>1 DEF Sizing!Blocks
  <2>3. Sizing!Efficiency(block_count)' = Sizing!Efficiency(block_count)
    BY <1>1, <2>1 DEF Sizing!Efficiency
  <2> HIDE DEF e
  <2>4. Sizing!AtLeast(max_efficiency, e)
    BY <1>9, <1>12, <1>15, Compared DEF Sizing!GoodEnough
  <2>5. SearchOK'
    BY <1>1, <1>2, <1>7, <1>13, <2>1, <2>2 DEF SearchOK
  <2>6. BestOK'
    BY <1>1, <1>9, <1>12, <2>1, <2>3, <2>4 DEF BestOK, Sizing!AtLeast, Sizing!NearlyAtLeast
  <2> QED BY <1>8, <1>11, <2>5, <2>6 DEF SizingInv
<1> QED BY <1>14, <1>15

LEMMA SizingStep == SizingInv /\ [MCNext]_MCvars => SizingInv'
<1> SUFFICES ASSUME SizingInv, [MCNext]_MCvars PROVE SizingInv'
  OBVIOUS
<1>1. CASE UNCHANGED sizing
  BY <1>1 DEF sizing, SizingInv, Sensible, SearchOK, BestOK, Sizing!Blocks, Sizing!Efficiency,
              Sizing!AtLeast, Sizing!NearlyAtLeast, Sizing!divup
<1>2. CASE Sizing!Inline \/ Sizing!CallNull
  BY <1>2 DEF Sizing!Inline, Sizing!CallNull, Sizing!args, Sizing!sizing, SizingInv, Sensible,
              SearchOK, BestOK
<1>3. CASE Sizing!StopCoarsening
  BY <1>3 DEF Sizing!StopCoarsening, Sizing!args, Sizing!sizing, SizingInv, Sensible, SearchOK,
              BestOK, Sizing!Blocks, Sizing!Efficiency, Sizing!AtLeast, Sizing!NearlyAtLeast,
              Sizing!divup
<1>4. Sizing!Next \/ UNCHANGED sizing
  BY DEF MCNext, Only, Is, MCvars
<1> QED BY <1>1, <1>2, <1>3, <1>4, FirstSizeStep, CoarsenStep DEF Sizing!Next

\* The number of blocks is that of their size, for every length, cost, number of
\* threads and alignment, and falls from one size to the next.
THEOREM CountsMatch == MCSpec => []CountMatchesSize
<1>1. SizingInv => CountMatchesSize
  <2> SUFFICES ASSUME SizingInv, pc \in {"loop", "split"}
               PROVE  (block_count - 1) * block_size < n /\ block_count * block_size >= n
    BY DEF SizingInv, CountMatchesSize, Sizing!CountMatchesSize
  <2>1. /\ n \in Nat /\ n > 1 /\ block_size \in Nat \ {0}
        /\ block_count = Sizing!Blocks(block_size) /\ block_count \in Nat \ {0}
    BY DEF SizingInv, SearchOK, Sensible
  <2>2. (block_count - 1) * block_size < n /\ n <= block_count * block_size
    BY <2>1, CountFacts
  <2>3. block_count * block_size \in Nat
    BY <2>1
  <2> QED BY <2>1, <2>2, <2>3
<1> QED BY <1>1, SizingStart, SizingStep, PTL DEF MCSpec

\* None of the sizes looked at shares the work better by more than 0.01, and work
\* worth two threads is cut into two blocks at least.
THEOREM WorkIsShared == MCSpec => []SharesTheWork
<1>1. SizingInv => SharesTheWork
  <2> SUFFICES ASSUME SizingInv, pc = "split"
               PROVE  /\ \A e \in seen : Sizing!NearlyAtLeast(Sizing!Efficiency(block_count), e)
                      /\ align = 1 => block_count > 1
    BY DEF SharesTheWork, Sizing!NearlyBest, Sizing!SharesTheWork
  <2>1. /\ n \in Nat /\ n > 1 /\ block_size \in Nat \ {0} /\ threads \in Nat \ {0}
        /\ block_count = Sizing!Blocks(block_size) /\ block_count \in Nat \ {0}
        /\ align = 1 => block_size < n
    BY DEF SizingInv, SearchOK, Sensible
  <2>2. Sizing!Efficiency(block_count) \in Efficiencies
    BY <2>1, EfficiencyType
  <2>3. ASSUME NEW e \in seen PROVE Sizing!NearlyAtLeast(Sizing!Efficiency(block_count), e)
    <3>1. /\ max_efficiency \in Efficiencies /\ e \in Efficiencies
          /\ Sizing!AtLeast(max_efficiency, e)
          /\ Sizing!NearlyAtLeast(Sizing!Efficiency(block_count), max_efficiency)
      BY DEF SizingInv, BestOK
    <3> QED BY <2>2, <3>1, NearTrans
  <2>4. ASSUME align = 1 PROVE block_count > 1
    <3>1. n <= block_count * block_size /\ block_size < n
      BY <2>1, <2>4, CountFacts
    <3>2. block_count = 1 => block_count * block_size = block_size
      BY <2>1
    <3> QED BY <2>1, <3>1, <3>2
  <2> QED BY <2>3, <2>4
<1> QED BY <1>1, SizingStart, SizingStep, PTL DEF MCSpec

-----------------------------------------------------------------------------
(* ZlibOutputBuffer: deflate only moves bytes from one sequence to the     *)
(* next one, so that all of them together stay as they are.                *)

LEMMA Joined ==
  ASSUME NEW p \in Seq(Int), NEW q \in Seq(Int)
  PROVE  /\ p \o q \in Seq(Int) /\ Len(p \o q) = Len(p) + Len(q)
         /\ \A i \in 1 .. Len(p) : (p \o q)[i] = p[i]
         /\ \A i \in 1 .. Len(q) : (p \o q)[Len(p) + i] = q[i]
<1>1. /\ p \o q \in Seq(Int) /\ Len(p \o q) = Len(p) + Len(q)
      /\ Len(p) \in Nat /\ Len(q) \in Nat
  OBVIOUS
<1>2. \A i \in 1 .. Len(p) : (p \o q)[i] = p[i]
  OBVIOUS
<1>3. ASSUME NEW i \in 1 .. Len(q) PROVE (p \o q)[Len(p) + i] = q[i]
  OBVIOUS
<1> QED BY <1>1, <1>2, <1>3

\* \o and SubSeq by names of their own, for the steps to which only their laws matter.
Cat(p, q)   == p \o q
Front(q, k) == SubSeq(q, 1, k)
Back(q, k)  == SubSeq(q, k + 1, Len(q))

LEMMA CatIs ==
  ASSUME NEW p \in Seq(Int), NEW q \in Seq(Int)
  PROVE  Cat(p, q) \in Seq(Int) /\ Len(Cat(p, q)) = Len(p) + Len(q)
BY Joined DEF Cat

LEMMA CatEmpty ==
  ASSUME NEW p \in Seq(Int)
  PROVE  Cat(p, <<>>) = p /\ Cat(<<>>, p) = p /\ <<>> \in Seq(Int)
BY ConcatEmptySeq DEF Cat

LEMMA LenIs ==
  ASSUME NEW p \in Seq(Int)
  PROVE  Len(p) \in Nat /\ (Len(p) = 0 <=> p = <<>>)
BY EmptySeq

LEMMA CatAssociative ==
  ASSUME NEW p \in Seq(Int), NEW q \in Seq(Int), NEW r \in Seq(Int)
  PROVE  Cat(Cat(p, q), r) = Cat(p, Cat(q, r))
BY ConcatAssociative DEF Cat

\* A sequence cut in two is the sequence.
LEMMA CutLaws ==
  ASSUME NEW q \in Seq(Int), NEW k \in 0 .. Len(q)
  PROVE  /\ Front(q, k) \in Seq(Int) /\ Back(q, k) \in Seq(Int)
         /\ Len(Front(q, k)) = k /\ Len(Back(q, k)) = Len(q) - k
         /\ Cat(Front(q, k), Back(q, k)) = q
<1>1. /\ SubSeq(q, 1, k) \in Seq(Int) /\ SubSeq(q, k + 1, Len(q)) \in Seq(Int)
      /\ Len(SubSeq(q, 1, k)) = k /\ Len(SubSeq(q, k + 1, Len(q))) = Len(q) - k
  OBVIOUS
<1>2. Len(q) \in Nat /\ 1 \in 1 .. Len(q) + 1 /\ k \in 1 - 1 .. Len(q) /\ Len(q) \in k .. Len(q)
  OBVIOUS
<1>3. SubSeq(q, 1, k) \o SubSeq(q, k + 1, Len(q)) = SubSeq(q, 1, Len(q))
  BY <1>2, ConcatAdjacentSubSeq
<1>4. SubSeq(q, 1, Len(q)) = q
  BY SubSeqFull
<1> QED BY <1>1, <1>3, <1>4 DEF Cat, Front, Back

\* The first k of the bytes in a move from there to the end of o.
LEMMA PartMoved ==
  ASSUME NEW o \in Seq(Int), NEW a \in Seq(Int), NEW k \in 0 .. Len(a)
  PROVE  /\ Cat(o, Front(a, k)) \in Seq(Int) /\ Len(Cat(o, Front(a, k))) = Len(o) + k
         /\ Back(a, k) \in Seq(Int) /\ (k = Len(a) => Back(a, k) = <<>>)
<1>1. /\ Front(a, k) \in Seq(Int) /\ Back(a, k) \in Seq(Int)
      /\ Len(Front(a, k)) = k /\ Len(Back(a, k)) = Len(a) - k
  BY CutLaws
<1>2. Len(a) \in Nat /\ (Len(Back(a, k)) = 0 => Back(a, k) = <<>>)
  BY <1>1, LenIs
<1>3. k = Len(a) => Back(a, k) = <<>>
  BY <1>1, <1>2
<1>4. Cat(o, Front(a, k)) \in Seq(Int) /\ Len(Cat(o, Front(a, k))) = Len(o) + k
  BY <1>1, CatIs
<1> QED BY <1>1, <1>3, <1>4

LEMMA MovedOn ==
  ASSUME NEW d \in Seq(Int), NEW o \in Seq(Int), NEW a \in Seq(Int), NEW k \in 0 .. Len(a)
  PROVE  Cat(Cat(d, Cat(o, Front(a, k))), Back(a, k)) = Cat(Cat(d, o), a)
<1>1. /\ Front(a, k) \in Seq(Int) /\ Back(a, k) \in Seq(Int)
      /\ Cat(Front(a, k), Back(a, k)) = a
  BY CutLaws
<1>2. /\ Cat(d, Cat(o, Front(a, k))) = Cat(Cat(d, o), Front(a, k))
      /\ Cat(d, o) \in Seq(Int)
  BY <1>1, CatIs, CatAssociative
<1>3. Cat(Cat(Cat(d, o), Front(a, k)), Back(a, k)) = Cat(Cat(d, o), Cat(Front(a, k), Back(a, k)))
  BY <1>1, <1>2, CatAssociative
<1> QED BY <1>1, <1>2, <1>3

\* The bytes of q and one mark more are the same bytes.
LEMMA BytesMarked ==
  ASSUME NEW q \in Seq(Int), NEW k \in Nat, NEW m \in {0, -1}, Deflate!AreBytes(q, k)
  PROVE  Deflate!AreBytes(q \o <<m>>, k)
<1> DEFINE w == q \o <<m>>
<1>1. /\ w \in Seq(Int) /\ Len(w) = Len(q) + 1 /\ w[Len(q) + 1] = m
      /\ \A j \in 1 .. Len(q) : w[j] = q[j]
  OBVIOUS
<1> HIDE DEF w
<1>2. Len(q) \in Nat
  OBVIOUS
<1>3. \A j \in 1 .. Len(w) : j \in 1 .. Len(q) \/ j = Len(q) + 1
  BY <1>1, <1>2
<1>4. ASSUME NEW i \in 1 .. k PROVE \E j \in 1 .. Len(w) : w[j] = i
  <2>1. PICK j \in 1 .. Len(q) : q[j] = i
    BY DEF Deflate!AreBytes
  <2>2. j \in 1 .. Len(w) /\ w[j] = i
    BY <1>1, <1>2, <2>1
  <2> QED BY <2>2
<1>5. ASSUME NEW j \in 1 .. Len(w) PROVE w[j] \in {0, -1} \cup 1 .. k
  BY <1>1, <1>3 DEF Deflate!AreBytes, Deflate!Mark, Deflate!End
<1>6. ASSUME NEW i \in 1 .. Len(w), NEW j \in 1 .. Len(w), i < j, w[i] > 0, w[j] > 0
      PROVE  w[i] < w[j]
  <2>1. j # Len(q) + 1
    BY <1>1, <1>6
  <2>2. j \in 1 .. Len(q)
    BY <1>3, <2>1
  <2>3. i \in 1 .. Len(q)
    BY <1>2, <1>6, <2>2
  <2> QED BY <1>1, <1>6, <2>2, <2>3 DEF Deflate!AreBytes
<1> QED BY <1>4, <1>5, <1>6 DEF Deflate!AreBytes, Deflate!Mark, Deflate!End, w

\* And so are they with the next p of them behind.
LEMMA BytesAppended ==
  ASSUME NEW q \in Seq(Int), NEW k \in Nat, NEW p \in Nat, Deflate!AreBytes(q, k)
  PROVE  Deflate!AreBytes(q \o [i \in 1 .. p |-> k + i], k + p)
<1> DEFINE t == [i \in 1 .. p |-> k + i]
           w == q \o t
<1>1. t \in Seq(Int) /\ Len(t) = p /\ \A i \in 1 .. p : t[i] = k + i
  OBVIOUS
<1> HIDE DEF t
<1>2. /\ w \in Seq(Int) /\ Len(w) = Len(q) + p
      /\ \A j \in 1 .. Len(q) : w[j] = q[j]
      /\ \A j \in 1 .. p : w[Len(q) + j] = t[j]
  BY <1>1, Joined
<1> HIDE DEF w
<1>3. Len(q) \in Nat
  OBVIOUS
<1>4. /\ \A i \in 1 .. k : \E j \in 1 .. Len(q) : q[j] = i
      /\ \A j \in 1 .. Len(q) : q[j] \in Int /\ q[j] <= k /\ q[j] >= -1
      /\ \A i, j \in 1 .. Len(q) : i < j /\ q[i] > 0 /\ q[j] > 0 => q[i] < q[j]
  <2>1. /\ \A i \in 1 .. k : \E j \in 1 .. Len(q) : q[j] = i
        /\ \A i, j \in 1 .. Len(q) : i < j /\ q[i] > 0 /\ q[j] > 0 => q[i] < q[j]
    BY DEF Deflate!AreBytes
  <2>2. ASSUME NEW j \in 1 .. Len(q) PROVE q[j] \in {0, -1} \cup 1 .. k
    BY DEF Deflate!AreBytes, Deflate!Mark, Deflate!End
  <2> QED BY <2>1, <2>2
<1>5. ASSUME NEW i \in 1 .. k + p PROVE \E j \in 1 .. Len(w) : w[j] = i
  <2>1. CASE i <= k
    <3>1. PICK j \in 1 .. Len(q) : q[j] = i
      BY <1>4, <2>1
    <3>2. j \in 1 .. Len(w) /\ w[j] = i
      BY <1>2, <1>3, <3>1
    <3> QED BY <3>2
  <2>2. CASE i > k
    <3>1. i - k \in 1 .. p /\ Len(q) + (i - k) \in 1 .. Len(w)
      BY <1>2, <1>3, <2>2
    <3>2. w[Len(q) + (i - k)] = k + (i - k)
      BY <1>1, <1>2, <3>1
    <3> QED BY <3>1, <3>2
  <2> QED BY <2>1, <2>2
<1>6. ASSUME NEW j \in 1 .. Len(w), j <= Len(q) PROVE w[j] = q[j] /\ j \in 1 .. Len(q)
  BY <1>2, <1>3, <1>6
<1>7. ASSUME NEW j \in 1 .. Len(w), j > Len(q)
      PROVE  w[j] = k + (j - Len(q)) /\ j - Len(q) \in 1 .. p
  <2> DEFINE h == j - Len(q)
  <2>1. h \in 1 .. p /\ j = Len(q) + h
    BY <1>2, <1>3, <1>7
  <2> HIDE DEF h
  <2>2. w[j] = k + h
    BY <1>1, <1>2, <2>1
  <2> QED BY <2>1, <2>2 DEF h
<1>8. ASSUME NEW j \in 1 .. Len(w) PROVE w[j] \in {0, -1} \cup 1 .. k + p
  <2>1. CASE j <= Len(q)
    <3>1. w[j] = q[j] /\ q[j] \in Int /\ q[j] <= k /\ q[j] >= -1
      BY <1>6, <1>4, <2>1
    <3> QED BY <3>1
  <2>2. CASE j > Len(q)
    BY <1>3, <1>7, <2>2
  <2> QED BY <1>3, <2>1, <2>2
<1>9. ASSUME NEW i \in 1 .. Len(w), NEW j \in 1 .. Len(w), i < j, w[i] > 0, w[j] > 0
      PROVE  w[i] < w[j]
  <2>0. i \in Nat /\ j \in Nat
    BY <1>2, <1>3
  <2>1. CASE j <= Len(q)
    <3>1. i <= Len(q)
      BY <1>3, <1>9, <2>0, <2>1
    <3>2. /\ w[i] = q[i] /\ i \in 1 .. Len(q)
          /\ w[j] = q[j] /\ j \in 1 .. Len(q)
      BY <1>6, <2>1, <3>1
    <3> QED BY <1>9, <1>4, <3>2
  <2>2. CASE j > Len(q) /\ i <= Len(q)
    <3>1. w[i] \in Int /\ w[i] <= k
      BY <1>6, <1>4, <2>2
    <3>2. w[j] = k + (j - Len(q)) /\ j - Len(q) \in 1 .. p
      BY <1>7, <2>2
    <3> QED BY <1>3, <3>1, <3>2
  <2>3. CASE j > Len(q) /\ i > Len(q)
    <3>1. w[i] = k + (i - Len(q)) /\ w[j] = k + (j - Len(q))
      BY <1>7, <2>3
    <3> QED BY <1>3, <1>9, <2>0, <3>1
  <2> QED BY <1>3, <2>0, <2>1, <2>2, <2>3
<1> QED BY <1>5, <1>8, <1>9 DEF Deflate!AreBytes, Deflate!Mark, Deflate!End, t, w

\* Types of the stream, and its output in its buffer.
PackerTyped ==
  /\ disk \in Seq(Int) /\ output \in Seq(Int) /\ held \in Seq(Int)
  /\ input \in Seq(Int) /\ data \in Seq(Int)
  /\ head \in Nat /\ accepted \in Nat
  /\ deflating \in {"none", "append", "flush", "sync", "close"}
  /\ stage \in {"buffered", "direct", "deflated", "restored"}
  /\ flush_mode \in {"no_flush", "sync_flush"}
  /\ outside \in BOOLEAN /\ finishing \in BOOLEAN /\ open \in BOOLEAN
  /\ Len(output) <= output_buffer_capacity_

\* Where a call can be, and whose bytes next_in then points to.
PackerCalls ==
  /\ deflating = "none" => stage = "deflated"
  /\ stage \in {"direct", "restored"} => deflating = "append" /\ outside
  /\ deflating # "none" /\ outside => stage \in {"direct", "restored"}
  /\ deflating = "append" /\ stage \in {"buffered", "deflated"} => data = Deflate!Piece(Len(data))
  /\ finishing => deflating \in {"none", "close"} /\ input = <<>>
  /\ ~ open => deflating = "none"

\* What a loop that has ended has emptied.
PackerEmptied ==
  /\ stage = "restored" => input = <<>>
  /\ deflating = "append" /\ stage = "deflated" => input = <<>>
  /\ deflating \in {"flush", "sync"} /\ stage = "deflated" /\ flush_mode = "sync_flush"
       => input = <<>> /\ held = <<>>
  /\ deflating = "close" /\ stage = "deflated" => input = <<>> /\ held = <<>> /\ finishing

\* An end is the last of the marks and of the bytes in w, if f, and else there is none.
Ends(w, f) ==
  /\ \A j \in 1 .. Len(w) : w[j] = -1 => f /\ j = Len(w)
  /\ f => Len(w) > 0 /\ w[Len(w)] = -1

WholeOK == Deflate!AreBytes(Deflate!Whole, accepted) /\ Ends(Deflate!Whole, finishing)

PackerInv ==
  /\ PackerTyped /\ PackerCalls /\ PackerEmptied /\ WholeOK
  /\ Deflate!InputFits /\ Deflate!FlushedIsOnFile

LEMMA EndsMarked ==
  ASSUME NEW q \in Seq(Int), NEW m \in {<<>>, << 0 >>, <<-1>>}, NEW f \in BOOLEAN,
         Ends(q, f), f => m = <<>>
  PROVE  Ends(q \o m, f \/ m = <<-1>>)
<1>1. CASE m = <<>>
  <2>1. q \o m = q /\ m # <<-1>>
    BY <1>1, CatEmpty DEF Cat
  <2> QED BY <2>1
<1>2. CASE m # <<>>
  <2>1. PICK e \in {0, -1} : m = <<e>>
    BY <1>2
  <2> DEFINE w == q \o m
  <2>2. /\ w \in Seq(Int) /\ Len(w) = Len(q) + 1 /\ w[Len(q) + 1] = e
        /\ \A j \in 1 .. Len(q) : w[j] = q[j]
    BY <2>1
  <2> HIDE DEF w
  <2>3. ~ f /\ (m = <<-1>> <=> e = -1)
    BY <1>2, <2>1
  <2>4. Len(q) \in Nat
    OBVIOUS
  <2>5. \A j \in 1 .. Len(q) : q[j] # -1
    BY <2>3 DEF Ends
  <2>6. \A j \in 1 .. Len(w) : j \in 1 .. Len(q) \/ j = Len(q) + 1
    BY <2>2, <2>4
  <2>7. ASSUME NEW j \in 1 .. Len(w), w[j] = -1 PROVE j = Len(w) /\ e = -1
    <3>1. j = Len(q) + 1
      BY <2>2, <2>5, <2>6, <2>7
    <3> QED BY <2>2, <2>7, <3>1
  <2>8. e = -1 => Len(w) > 0 /\ w[Len(w)] = -1
    BY <2>2, <2>4
  <2> QED BY <2>3, <2>7, <2>8 DEF Ends, w
<1> QED BY <1>1, <1>2

LEMMA EndsAppended ==
  ASSUME NEW q \in Seq(Int), NEW t \in Seq(Int), Ends(q, FALSE),
         \A i \in 1 .. Len(t) : t[i] > 0
  PROVE  Ends(q \o t, FALSE)
<1> DEFINE w == q \o t
<1>1. /\ w \in Seq(Int) /\ Len(w) = Len(q) + Len(t)
      /\ \A j \in 1 .. Len(q) : w[j] = q[j]
      /\ \A j \in 1 .. Len(t) : w[Len(q) + j] = t[j]
  BY Joined
<1> HIDE DEF w
<1>2. Len(q) \in Nat /\ Len(t) \in Nat
  OBVIOUS
<1>3. ASSUME NEW j \in 1 .. Len(w) PROVE w[j] # -1
  <2>1. CASE j <= Len(q)
    <3>1. j \in 1 .. Len(q) /\ w[j] = q[j]
      BY <1>1, <1>2, <2>1
    <3> QED BY <3>1 DEF Ends
  <2>2. CASE j > Len(q)
    <3> DEFINE h == j - Len(q)
    <3>1. h \in 1 .. Len(t) /\ j = Len(q) + h
      BY <1>1, <1>2, <2>2
    <3> HIDE DEF h
    <3>2. w[j] = t[h] /\ t[h] > 0 /\ t[h] \in Int
      BY <1>1, <3>1
    <3> QED BY <3>2
  <2> QED BY <1>2, <2>1, <2>2
<1> QED BY <1>3 DEF Ends, w

LEMMA BytesAndMark ==
  ASSUME NEW q \in Seq(Int), NEW m \in {<<>>, << 0 >>, <<-1>>}, NEW k \in Nat,
         Deflate!AreBytes(q, k)
  PROVE  Deflate!AreBytes(q \o m, k)
<1>1. CASE m = <<>>
  <2>1. q \o m = q
    BY <1>1, CatEmpty DEF Cat
  <2> QED BY <2>1
<1>2. CASE m # <<>>
  <2>1. PICK e \in {0, -1} : m = <<e>>
    BY <1>2
  <2> QED BY <2>1, BytesMarked
<1> QED BY <1>1, <1>2

LEMMA MarksAre ==
  /\ \A m \in {<<>>, << 0 >>, <<-1>>} : m \in Seq(Int)
  /\ <<>> # <<-1>> /\ << 0 >> # <<-1>>
<1>1. <<>> \in Seq(Int) /\ << 0 >> \in Seq(Int) /\ <<-1>> \in Seq(Int)
  OBVIOUS
<1>2. <<>> # <<-1>> /\ << 0 >> # <<-1>>
  OBVIOUS
<1> QED BY <1>1, <1>2

\* The file, the output, what deflate holds and the input, one behind the other.
Chain(d, o, h, q) == Cat(Cat(Cat(d, o), h), q)

LEMMA ChainLaws ==
  ASSUME NEW d \in Seq(Int), NEW o \in Seq(Int), NEW h \in Seq(Int), NEW q \in Seq(Int)
  PROVE  /\ Chain(d, o, h, q) \in Seq(Int)
         /\ Chain(d, o, h, q) = Cat(Cat(d, o), Cat(h, q))
         /\ Chain(d, o, h, <<>>) = Cat(Cat(d, o), h)
<1>1. Cat(d, o) \in Seq(Int) /\ Cat(Cat(d, o), h) \in Seq(Int)
  BY CatIs
<1>2. Cat(Cat(Cat(d, o), h), q) = Cat(Cat(d, o), Cat(h, q))
  BY <1>1, CatAssociative
<1>3. Cat(Cat(d, o), Cat(h, q)) \in Seq(Int)
  BY <1>1, CatIs
<1> QED BY <1>1, <1>2, <1>3, CatEmpty DEF Chain

\* A call of deflate with a flush or the last one, of which k bytes go to the output, ...
LEMMA CompletedMoves ==
  ASSUME NEW d \in Seq(Int), NEW o \in Seq(Int), NEW h \in Seq(Int), NEW q \in Seq(Int),
         NEW m \in Seq(Int), NEW a, a = Cat(Cat(h, q), m), NEW k \in 0 .. Len(a)
  PROVE  /\ a \in Seq(Int)
         /\ Chain(d, Cat(o, Front(a, k)), Back(a, k), <<>>) = Cat(Chain(d, o, h, q), m)
<1>1. a \in Seq(Int) /\ Cat(h, q) \in Seq(Int) /\ Cat(d, o) \in Seq(Int)
  BY CatIs
<1>2. /\ Cat(o, Front(a, k)) \in Seq(Int) /\ Back(a, k) \in Seq(Int)
      /\ Cat(Cat(d, Cat(o, Front(a, k))), Back(a, k)) = Cat(Cat(d, o), a)
  BY <1>1, PartMoved, MovedOn
<1>3. Chain(d, Cat(o, Front(a, k)), Back(a, k), <<>>) = Cat(Cat(d, o), a)
  BY <1>2, ChainLaws
<1>4. Cat(Chain(d, o, h, q), m) = Cat(Cat(d, o), a)
  <2>1. Chain(d, o, h, q) = Cat(Cat(d, o), Cat(h, q))
    BY ChainLaws
  <2> QED BY <1>1, <2>1, CatAssociative
<1> QED BY <1>1, <1>3, <1>4

\* ... and one without, that consumes c.
LEMMA DeflatedMoves ==
  ASSUME NEW d \in Seq(Int), NEW o \in Seq(Int), NEW h \in Seq(Int), NEW q \in Seq(Int),
         NEW c \in 0 .. Len(q), NEW a, a = Cat(h, Front(q, c)), NEW k \in 0 .. Len(a)
  PROVE  /\ a \in Seq(Int)
         /\ Chain(d, Cat(o, Front(a, k)), Back(a, k), Back(q, c)) = Chain(d, o, h, q)
<1>1. /\ Front(q, c) \in Seq(Int) /\ Back(q, c) \in Seq(Int)
      /\ Cat(Front(q, c), Back(q, c)) = q
  BY CutLaws
<1>2. a \in Seq(Int) /\ Cat(d, o) \in Seq(Int)
  BY <1>1, CatIs
<1>3. Cat(Cat(d, Cat(o, Front(a, k))), Back(a, k)) = Cat(Cat(d, o), a)
  BY <1>2, MovedOn
<1>4. Cat(Cat(Cat(d, o), a), Back(q, c)) = Cat(Cat(d, o), Cat(a, Back(q, c)))
  BY <1>1, <1>2, CatAssociative
<1>5. Cat(a, Back(q, c)) = Cat(h, q)
  BY <1>1, CatAssociative
<1>6. Chain(d, o, h, q) = Cat(Cat(d, o), Cat(h, q))
  BY ChainLaws
<1> QED BY <1>2, <1>3, <1>4, <1>5, <1>6 DEF Chain

LEMMA WholeIsChain == Deflate!Whole = Chain(disk, output, held, input)
BY DEF Deflate!Whole, Chain, Cat

\* What a call of deflate does, if d and o are then the file and its output.
Passed(o, last) ==
  /\ output' \in Seq(Int) /\ held' \in Seq(Int) /\ input' \in Seq(Int)
  /\ head' \in Nat /\ finishing' \in BOOLEAN
  /\ Len(output') <= output_buffer_capacity_
  /\ head' + Len(input') = head + Len(input)
  /\ finishing' <=> finishing \/ last
  /\ input = <<>> \/ last => input' = <<>>
  /\ ~ Deflate!Full(output') =>
       /\ input' = <<>>
       /\ last \/ flush_mode = "sync_flush" => held' = <<>>
  /\ \E m \in {<<>>, << 0 >>, <<-1>>} :
       /\ Chain(disk', output', held', input') = Cat(Chain(disk', o, held, input), m)
       /\ finishing => m = <<>>
       /\ finishing' <=> finishing \/ m = <<-1>>

LEMMA CompletedMoved ==
  ASSUME PackerTyped, NEW o \in Seq(Int), NEW m \in {<<>>, << 0 >>, <<-1>>},
         Len(o) <= output_buffer_capacity_, disk' \in Seq(Int), Deflate!Completed(o, m)
  PROVE  /\ output' \in Seq(Int) /\ held' \in Seq(Int) /\ input' \in Seq(Int)
         /\ head' \in Nat /\ Len(output') <= output_buffer_capacity_
         /\ head' + Len(input') = head + Len(input)
         /\ input' = <<>> /\ (~ Deflate!Full(output') => held' = <<>>)
         /\ Chain(disk', output', held', input') = Cat(Chain(disk', o, held, input), m)
<1>1. /\ output_buffer_capacity_ \in Nat /\ Len(o) \in Nat /\ Len(input) \in Nat /\ head \in Nat
      /\ held \in Seq(Int) /\ input \in Seq(Int) /\ m \in Seq(Int)
  BY MCSequentialAssumption, MarksAre, LenIs DEF Deflate!DeflateAssumption, PackerTyped
<1> DEFINE room == output_buffer_capacity_ - Len(o)
<1>2. PICK a : a = Cat(Cat(held, input), m)
  OBVIOUS
<1>3. PICK k : k = Deflate!MinOf(room, Len(a))
  OBVIOUS
<1>4. /\ output' = Cat(o, Front(a, k)) /\ held' = Back(a, k)
      /\ input' = <<>> /\ head' = head + Len(input)
  BY <1>2, <1>3 DEF Deflate!Completed, Cat, Front, Back
<1>5. a \in Seq(Int) /\ Len(a) \in Nat
  BY <1>1, <1>2, CatIs, LenIs
<1>6. k \in 0 .. Len(a) /\ k <= room /\ (k = room \/ k = Len(a))
  BY <1>1, <1>3, <1>5 DEF Deflate!MinOf
<1>7. /\ output' \in Seq(Int) /\ Len(output') = Len(o) + k
      /\ held' \in Seq(Int) /\ (k = Len(a) => held' = <<>>)
  BY <1>4, <1>5, <1>6, PartMoved
<1>8. Chain(disk', output', held', input') = Cat(Chain(disk', o, held, input), m)
  BY <1>1, <1>2, <1>4, <1>6, CompletedMoves
<1>9. Len(output') <= output_buffer_capacity_ /\ (~ Deflate!Full(output') => held' = <<>>)
  BY <1>1, <1>6, <1>7 DEF Deflate!Full
<1>10. <<>> \in Seq(Int) /\ Len(<<>>) = 0
  BY EmptySeq
<1> QED BY <1>1, <1>4, <1>7, <1>8, <1>9, <1>10

LEMMA DeflatedMoved ==
  ASSUME PackerTyped, NEW o \in Seq(Int),
         Len(o) <= output_buffer_capacity_, disk' \in Seq(Int), Deflate!Deflated(o)
  PROVE  /\ output' \in Seq(Int) /\ held' \in Seq(Int) /\ input' \in Seq(Int)
         /\ head' \in Nat /\ Len(output') <= output_buffer_capacity_
         /\ head' + Len(input') = head + Len(input)
         /\ ~ Deflate!Full(output') \/ input = <<>> => input' = <<>>
         /\ Chain(disk', output', held', input') = Chain(disk', o, held, input)
<1>1. /\ output_buffer_capacity_ \in Nat /\ Len(o) \in Nat /\ Len(input) \in Nat /\ head \in Nat
      /\ held \in Seq(Int) /\ input \in Seq(Int)
  BY MCSequentialAssumption, LenIs DEF Deflate!DeflateAssumption, PackerTyped
<1> DEFINE room == output_buffer_capacity_ - Len(o)
<1>2. PICK c \in 0 .. Len(input) :
        \E k \in 0 .. Deflate!MinOf(room, Len(Cat(held, Front(input, c)))) :
          /\ c = Len(input) \/ k = room
          /\ output' = Cat(o, Front(Cat(held, Front(input, c)), k))
          /\ held' = Back(Cat(held, Front(input, c)), k)
          /\ input' = Back(input, c)
          /\ head' = head + c
  BY DEF Deflate!Deflated, Cat, Front, Back
<1>3. PICK a : a = Cat(held, Front(input, c))
  OBVIOUS
<1>4. PICK k \in 0 .. Deflate!MinOf(room, Len(a)) :
        /\ c = Len(input) \/ k = room
        /\ output' = Cat(o, Front(a, k)) /\ held' = Back(a, k)
        /\ input' = Back(input, c) /\ head' = head + c
  BY <1>2, <1>3
<1>5. a \in Seq(Int) /\ Len(a) \in Nat
  BY <1>1, <1>3, CutLaws, CatIs, LenIs
<1>6. k \in 0 .. Len(a) /\ k <= room
  BY <1>1, <1>4, <1>5 DEF Deflate!MinOf
<1>7. output' \in Seq(Int) /\ Len(output') = Len(o) + k /\ held' \in Seq(Int)
  BY <1>4, <1>5, <1>6, PartMoved
<1>8. /\ input' \in Seq(Int) /\ Len(input') = Len(input) - c
      /\ c = Len(input) => input' = <<>>
  BY <1>1, <1>4, CutLaws, PartMoved
<1>9. Chain(disk', output', held', input') = Chain(disk', o, held, input)
  BY <1>1, <1>3, <1>4, <1>6, DeflatedMoves
<1>10. Len(output') <= output_buffer_capacity_ /\ (~ Deflate!Full(output') => input' = <<>>)
  BY <1>1, <1>4, <1>6, <1>7, <1>8 DEF Deflate!Full
<1>11. head' \in Nat /\ head' + Len(input') = head + Len(input)
  BY <1>1, <1>4, <1>8
<1>12. input = <<>> => input' = <<>>
  BY <1>1, <1>8, LenIs
<1> QED BY <1>7, <1>8, <1>9, <1>10, <1>11, <1>12

LEMMA DeflateMoves ==
  ASSUME PackerTyped, NEW o \in Seq(Int), NEW last \in BOOLEAN,
         Len(o) <= output_buffer_capacity_, disk' \in Seq(Int),
         finishing => last, Deflate!Deflate(o, last)
  PROVE  Passed(o, last)
<1>1. finishing \in BOOLEAN /\ flush_mode \in {"no_flush", "sync_flush"}
  BY DEF PackerTyped
<1>2. CASE last
  <2>1. /\ Deflate!Completed(o, IF finishing THEN <<>> ELSE <<-1>>)
        /\ finishing' = TRUE
    BY <1>2 DEF Deflate!Deflate, Deflate!End
  <2>2. PICK m \in {<<>>, <<-1>>} :
          /\ Deflate!Completed(o, m)
          /\ finishing => m = <<>>
          /\ ~ finishing => m = <<-1>>
    BY <1>1, <2>1
  <2> QED BY <1>1, <1>2, <2>1, <2>2, CompletedMoved, MarksAre DEF Passed
<1>3. CASE ~ last /\ flush_mode = "sync_flush"
  <2>1. PICK m \in {<<>>, << 0 >>} : Deflate!Completed(o, m) /\ finishing' = finishing
    BY <1>3 DEF Deflate!Deflate, Deflate!Mark
  <2>2. m # <<-1>>
    BY MarksAre
  <2> QED BY <1>1, <1>3, <2>1, <2>2, CompletedMoved DEF Passed
<1>4. CASE ~ last /\ flush_mode = "no_flush"
  <2>1. Deflate!Deflated(o) /\ finishing' = finishing
    BY <1>4 DEF Deflate!Deflate
  <2>2. Chain(disk', o, held, input) \in Seq(Int)
    BY ChainLaws DEF PackerTyped
  <2>3. Chain(disk', output', held', input') = Cat(Chain(disk', o, held, input), <<>>)
    BY <2>1, <2>2, DeflatedMoved, CatEmpty
  <2> QED BY <1>1, <1>4, <2>1, <2>3, DeflatedMoved, MarksAre DEF Passed
<1> QED BY <1>1, <1>2, <1>3, <1>4

LEMMA PackerStart == MCInit => PackerInv
<1> SUFFICES ASSUME Deflate!Init PROVE PackerInv
  BY DEF MCInit
<1>1. /\ input_buffer_capacity_ \in Nat /\ output_buffer_capacity_ \in Nat
      /\ <<>> \in Seq(Int) /\ Len(<<>>) = 0
  BY MCSequentialAssumption, EmptySeq DEF Deflate!DeflateAssumption
<1>2. PackerTyped /\ PackerCalls /\ PackerEmptied
  <2>1. PackerTyped
    <3>1. /\ disk \in Seq(Int) /\ output \in Seq(Int) /\ held \in Seq(Int)
          /\ input \in Seq(Int) /\ data \in Seq(Int)
      BY <1>1 DEF Deflate!Init
    <3>2. Len(output) <= output_buffer_capacity_
      BY <1>1 DEF Deflate!Init
    <3>3. /\ head \in Nat /\ accepted \in Nat
          /\ deflating = "none" /\ stage = "deflated" /\ flush_mode \in {"no_flush", "sync_flush"}
          /\ outside = FALSE /\ finishing = FALSE /\ open = TRUE
      BY DEF Deflate!Init
    <3> QED BY <3>1, <3>2, <3>3 DEF PackerTyped
  <2>2. PackerCalls /\ PackerEmptied
    BY DEF Deflate!Init, PackerCalls, PackerEmptied
  <2> QED BY <2>1, <2>2
<1>3. Deflate!Whole = <<>>
  <2>1. Chain(<<>>, <<>>, <<>>, <<>>) = <<>>
    BY <1>1, CatEmpty DEF Chain
  <2> QED BY <2>1, WholeIsChain DEF Deflate!Init
<1>4. WholeOK
  <2>1. \A i \in 1 .. 0 : FALSE
    OBVIOUS
  <2>2. Deflate!AreBytes(<<>>, 0)
    BY <1>1, <2>1 DEF Deflate!AreBytes
  <2>3. Ends(<<>>, FALSE)
    BY <1>1, <2>1 DEF Ends
  <2> QED BY <1>3, <2>2, <2>3 DEF WholeOK, Deflate!Init
<1>5. Deflate!InputFits /\ Deflate!FlushedIsOnFile
  BY <1>1 DEF Deflate!Init, Deflate!InputFits, Deflate!FlushedIsOnFile
<1> QED BY <1>2, <1>4, <1>5 DEF PackerInv

\* What is written and what is left in the output are together as before.
LEMMA RoundBegins ==
  ASSUME PackerInv, Deflate!Round
  PROVE  \E o \in Seq(Int) :
           /\ Len(o) <= output_buffer_capacity_
           /\ Deflate!Deflate(o, deflating = "close")
           /\ disk' \in Seq(Int) /\ Chain(disk', o, held, input) = Chain(disk, output, held, input)
<1>1. /\ disk \in Seq(Int) /\ output \in Seq(Int) /\ Len(output) <= output_buffer_capacity_
      /\ output_buffer_capacity_ \in Nat /\ <<>> \in Seq(Int) /\ Len(<<>>) = 0
  BY MCSequentialAssumption, EmptySeq DEF Deflate!DeflateAssumption, PackerInv, PackerTyped
<1>2. CASE Deflate!NeedsRoom
  <2>1. disk' = Cat(disk, output) /\ Deflate!Deflate(<<>>, deflating = "close")
    BY <1>2 DEF Deflate!Round, Cat
  <2>2. disk' \in Seq(Int)
    BY <1>1, <2>1, CatIs
  <2>3. Cat(disk', <<>>) = Cat(disk, output)
    BY <2>1, <2>2, CatEmpty
  <2>4. Chain(disk', <<>>, held, input) = Chain(disk, output, held, input)
    BY <2>3 DEF Chain
  <2>5. <<>> \in Seq(Int) /\ Len(<<>>) <= output_buffer_capacity_
    BY <1>1
  <2> QED BY <2>1, <2>2, <2>4, <2>5
<1>3. CASE ~ Deflate!NeedsRoom
  <2>1. disk' = disk /\ Deflate!Deflate(output, deflating = "close")
    BY <1>3 DEF Deflate!Round
  <2> QED BY <1>1, <2>1
<1> QED BY <1>2, <1>3

LEMMA PackerRound ==
  ASSUME PackerInv, Deflate!Round
  PROVE  PackerInv'
<1>1. /\ stage \in {"buffered", "direct"} /\ Deflate!LoopGoesOn
      /\ deflating' = deflating /\ data' = data /\ accepted' = accepted
      /\ outside' = outside /\ open' = open /\ flush_mode' = flush_mode
  BY DEF Deflate!Round
<1>2. PackerTyped /\ PackerCalls /\ PackerEmptied /\ WholeOK /\ Deflate!InputFits
  BY DEF PackerInv
<1>3. deflating # "none" /\ (finishing => deflating = "close") /\ open
  BY <1>1, <1>2 DEF PackerCalls, PackerTyped
<1>4. PICK o \in Seq(Int) :
        /\ Len(o) <= output_buffer_capacity_
        /\ Deflate!Deflate(o, deflating = "close")
        /\ disk' \in Seq(Int) /\ Chain(disk', o, held, input) = Chain(disk, output, held, input)
  BY RoundBegins
<1>5. PICK last \in BOOLEAN : last <=> deflating = "close"
  OBVIOUS
<1>6. Passed(o, last)
  <2>1. last = (deflating = "close")
    BY <1>5
  <2>2. Deflate!Deflate(o, last)
    BY <1>4, <2>1
  <2>3. finishing => last
    BY <1>3, <1>5
  <2> QED BY <1>2, <1>4, <2>2, <2>3, DeflateMoves
<1>7. stage' \in {"buffered", "direct", "deflated", "restored"}
      /\ (stage' = "restored" => stage = "direct" /\ ~ Deflate!Full(output'))
      /\ (stage' = "deflated" => stage = "buffered" /\ ~ Deflate!Full(output'))
      /\ (stage' = "direct" => stage = "direct")
      /\ (stage' = "buffered" => stage = "buffered")
  <2>1. CASE Deflate!Full(output')
    BY <1>1, <2>1 DEF Deflate!LoopGoesOn
  <2>2. CASE ~ Deflate!Full(output') /\ stage = "buffered"
    BY <1>1, <2>2 DEF Deflate!LoopGoesOn
  <2>3. CASE ~ Deflate!Full(output') /\ stage = "direct"
    BY <1>1, <2>3 DEF Deflate!LoopGoesOn
  <2> QED BY <1>1, <2>1, <2>2, <2>3
<1>8. PackerTyped'
  BY <1>1, <1>2, <1>4, <1>6, <1>7 DEF PackerTyped, Passed
<1>9. PackerCalls'
  <2>1. finishing' => deflating \in {"none", "close"} /\ input' = <<>>
    BY <1>2, <1>3, <1>5, <1>6 DEF PackerCalls, Passed
  <2>2. deflating = "append" /\ stage' \in {"buffered", "deflated"}
          => data = Deflate!Piece(Len(data))
    BY <1>1, <1>2, <1>7 DEF PackerCalls
  <2>3. Deflate!Piece(Len(data))' = Deflate!Piece(Len(data))
    BY <1>1 DEF Deflate!Piece
  <2> QED BY <1>1, <1>2, <1>3, <1>7, <2>1, <2>2, <2>3 DEF PackerCalls
<1>10. PackerEmptied'
  <2>1. stage' \in {"deflated", "restored"} => input' = <<>>
    BY <1>6, <1>7 DEF Passed
  <2>2. deflating = "close" => finishing'
    BY <1>5, <1>6 DEF Passed
  <2>3. stage' = "deflated" /\ (deflating = "close" \/ flush_mode = "sync_flush") => held' = <<>>
    BY <1>5, <1>6, <1>7 DEF Passed
  <2> QED BY <1>1, <2>1, <2>2, <2>3 DEF PackerEmptied
<1>11. WholeOK'
  <2>1. PICK m \in {<<>>, << 0 >>, <<-1>>} :
          /\ Chain(disk', output', held', input') = Cat(Chain(disk', o, held, input), m)
          /\ finishing => m = <<>>
          /\ finishing' <=> finishing \/ m = <<-1>>
    BY <1>6 DEF Passed
  <2>2. PICK w \in Seq(Int) : w = Deflate!Whole
    <3>1. Deflate!Whole \in Seq(Int)
      BY <1>2, WholeIsChain, ChainLaws DEF PackerTyped
    <3> QED BY <3>1
  <2>3. Deflate!Whole' = w \o m
    BY <1>4, <2>1, <2>2, WholeIsChain DEF Chain, Cat, Deflate!Whole
  <2>4. Deflate!AreBytes(w, accepted) /\ Ends(w, finishing)
    BY <1>2, <2>2 DEF WholeOK
  <2>5. PICK k \in Nat, f \in BOOLEAN : k = accepted /\ f = finishing
    BY <1>2 DEF PackerTyped
  <2>6. Deflate!AreBytes(w \o m, k) /\ Ends(w \o m, f \/ m = <<-1>>)
    BY <2>1, <2>4, <2>5, BytesAndMark, EndsMarked
  <2>7. finishing' = (f \/ m = <<-1>>)
    BY <1>8, <2>1, <2>5 DEF PackerTyped
  <2> QED BY <1>1, <2>3, <2>5, <2>6, <2>7 DEF WholeOK
<1>12. Deflate!InputFits'
  BY <1>1, <1>2, <1>6 DEF Deflate!InputFits, Passed
<1>13. Deflate!FlushedIsOnFile'
  BY <1>1, <1>3 DEF Deflate!FlushedIsOnFile
<1> QED BY <1>8, <1>9, <1>10, <1>11, <1>12, <1>13 DEF PackerInv

\* The bytes of a piece are the next ones.
LEMMA PieceIs ==
  ASSUME PackerTyped, NEW k \in Nat
  PROVE  /\ Deflate!Piece(k) \in Seq(Int) /\ Len(Deflate!Piece(k)) = k
         /\ \A i \in 1 .. k : Deflate!Piece(k)[i] > 0
         /\ Deflate!Piece(k) = [i \in 1 .. k |-> accepted + i]
BY DEF PackerTyped, Deflate!Piece

\* The next k bytes are put behind all that are in the stream.
LEMMA PieceJoins ==
  ASSUME PackerTyped, WholeOK, ~ finishing, NEW k \in Nat,
         accepted' = accepted + k, finishing' = finishing,
         Deflate!Whole' = Cat(Deflate!Whole, Deflate!Piece(k))
  PROVE  WholeOK'
<1>1. PICK w \in Seq(Int) : w = Deflate!Whole
  <2>1. Deflate!Whole \in Seq(Int)
    BY WholeIsChain, ChainLaws DEF PackerTyped
  <2> QED BY <2>1
<1>2. PICK t \in Seq(Int) : t = Deflate!Piece(k)
  BY PieceIs
<1>3. PICK a \in Nat : a = accepted
  BY DEF PackerTyped
<1>4. Deflate!AreBytes(w, a) /\ Ends(w, FALSE)
  BY <1>1, <1>3 DEF WholeOK, PackerTyped
<1>5. t = [i \in 1 .. k |-> a + i] /\ \A i \in 1 .. Len(t) : t[i] > 0
  BY <1>2, <1>3, PieceIs
<1>6. Deflate!AreBytes(w \o t, a + k) /\ Ends(w \o t, FALSE)
  BY <1>4, <1>5, BytesAppended, EndsAppended
<1>7. Deflate!Whole' = w \o t
  BY <1>1, <1>2 DEF Cat
<1>8. finishing' = FALSE /\ accepted' = a + k
  BY <1>3 DEF PackerTyped
<1> QED BY <1>6, <1>7, <1>8 DEF WholeOK

\* The input, with the next k bytes, is in its buffer wherever it begins.
LEMMA InputAdded ==
  ASSUME PackerTyped, NEW k \in Nat, NEW from \in Nat, NEW t \in Seq(Int),
         Len(t) = k, k <= Deflate!AvailableInputSpace,
         from + Len(input) <= input_buffer_capacity_,
         Deflate!AddToInputBuffer(input, from, t)
  PROVE  /\ input' = Cat(input, t) /\ input' \in Seq(Int) /\ head' \in Nat
         /\ head' + Len(input') <= input_buffer_capacity_
         /\ accepted' = accepted + k
<1>1. input' = Cat(input, t) /\ accepted' = accepted + k
  BY DEF Deflate!AddToInputBuffer, Cat
<1>2. input' \in Seq(Int) /\ Len(input') = Len(input) + k /\ Len(input) \in Nat
  BY <1>1, CatIs, LenIs DEF PackerTyped
<1>3. input_buffer_capacity_ \in Nat
  BY MCSequentialAssumption DEF Deflate!DeflateAssumption
<1>4. head' = IF k > input_buffer_capacity_ - (from + Len(input)) THEN 0 ELSE from
  BY DEF Deflate!AddToInputBuffer
<1>5. head' \in Nat /\ head' + Len(input') <= input_buffer_capacity_
  BY <1>2, <1>3, <1>4 DEF Deflate!AvailableInputSpace
<1> QED BY <1>1, <1>2, <1>5

LEMMA PackerReturns ==
  ASSUME PackerInv, NEW o \in {"append", "flush", "sync", "close"}, NEW ok \in BOOLEAN,
         Deflate!Return(o, ok)
  PROVE  /\ deflating' = "none" /\ data' = <<>> /\ stage' = "deflated"
         /\ deflated' = [op |-> o, ok |-> ok] /\ data' \in Seq(Int)
         /\ PackerEmptied'
<1>1. /\ deflating' = "none" /\ data' = <<>> /\ stage' = "deflated"
      /\ deflated' = [op |-> o, ok |-> ok]
  BY DEF Deflate!Return
<1>2. <<>> \in Seq(Int)
  BY EmptySeq
<1> QED BY <1>1, <1>2 DEF PackerEmptied

LEMMA PackerEnters ==
  ASSUME PackerInv, NEW o \in {"append", "flush", "sync", "close"}, NEW t \in Seq(Int),
         deflating = "none", open, ~ outside, o # "close" => ~ finishing,
         o = "append" => t = Deflate!Piece(Len(t)), Deflate!Enter(o, t)
  PROVE  PackerInv'
<1>1. /\ deflating' = o /\ data' = t /\ stage' = "buffered"
      /\ UNCHANGED <<flush_mode, disk, accepted, input, head, outside, held, output,
                     finishing, open>>
  BY DEF Deflate!Enter, Deflate!zstream
<1>2. PackerTyped /\ PackerCalls /\ WholeOK /\ Deflate!InputFits /\ Deflate!FlushedIsOnFile
  BY DEF PackerInv
<1>3. PackerTyped'
  BY <1>1, <1>2 DEF PackerTyped
<1>4. PackerCalls'
  <2>1. Deflate!Piece(Len(data))' = Deflate!Piece(Len(t))
    BY <1>1 DEF Deflate!Piece
  <2> QED BY <1>1, <1>2, <2>1 DEF PackerCalls
<1>5. PackerEmptied' /\ Deflate!InputFits'
  BY <1>1, <1>2 DEF PackerEmptied, Deflate!InputFits
<1>6. WholeOK'
  <2>1. Deflate!Whole' = Deflate!Whole
    BY <1>1 DEF Deflate!Whole
  <2> QED BY <1>1, <1>2, <2>1 DEF WholeOK
<1>7. Deflate!FlushedIsOnFile'
  BY <1>1 DEF Deflate!FlushedIsOnFile
<1> QED BY <1>3, <1>4, <1>5, <1>6, <1>7 DEF PackerInv

LEMMA PackerAppends ==
  ASSUME PackerInv, NEW k \in Nat, Deflate!AppendPiece(k)
  PROVE  PackerInv'
<1>1. /\ PackerTyped /\ PackerCalls /\ WholeOK /\ Deflate!InputFits
      /\ deflating = "none" /\ open /\ ~ outside /\ ~ finishing
  BY DEF PackerInv, Deflate!AppendPiece, Deflate!Called
<1>2. Deflate!Piece(k) \in Seq(Int) /\ Len(Deflate!Piece(k)) = k
  BY <1>1, PieceIs
<1>3. CASE k <= Deflate!AvailableInputSpace
  <2>1. /\ Deflate!AddToInputBuffer(input, head, Deflate!Piece(k))
        /\ Deflate!Return("append", TRUE)
        /\ UNCHANGED <<flush_mode, outside, held, output, synced, finishing, open, disk>>
    BY <1>3 DEF Deflate!AppendPiece
  <2>2. /\ deflating' = "none" /\ data' = <<>> /\ stage' = "deflated"
        /\ deflated' = [op |-> "append", ok |-> TRUE] /\ data' \in Seq(Int) /\ PackerEmptied'
    BY <2>1, PackerReturns
  <2>3. head \in Nat /\ head + Len(input) <= input_buffer_capacity_
    BY <1>1 DEF Deflate!InputFits, PackerTyped
  <2>4. /\ input' = Cat(input, Deflate!Piece(k)) /\ input' \in Seq(Int) /\ head' \in Nat
        /\ head' + Len(input') <= input_buffer_capacity_
        /\ accepted' = accepted + k
    BY <1>1, <1>2, <1>3, <2>1, <2>3, InputAdded
  <2>5. PackerTyped' /\ PackerCalls'
    BY <1>1, <2>1, <2>2, <2>4 DEF PackerTyped, PackerCalls
  <2>6. Deflate!Whole' = Cat(Deflate!Whole, Deflate!Piece(k))
    <3>1. Cat(Cat(disk, output), held) \in Seq(Int)
      BY <1>1, CatIs DEF PackerTyped
    <3>2. Chain(disk, output, held, Cat(input, Deflate!Piece(k)))
            = Cat(Chain(disk, output, held, input), Deflate!Piece(k))
      BY <1>1, <1>2, <3>1, CatAssociative DEF Chain, PackerTyped
    <3>3. Deflate!Whole' = Chain(disk, output, held, Cat(input, Deflate!Piece(k)))
      BY <2>1, <2>4 DEF Deflate!Whole, Chain, Cat
    <3> QED BY <3>2, <3>3, WholeIsChain
  <2>7. WholeOK'
    BY <1>1, <2>1, <2>4, <2>6, PieceJoins
  <2>8. Deflate!InputFits' /\ Deflate!FlushedIsOnFile'
    BY <1>1, <2>1, <2>2, <2>4 DEF Deflate!InputFits, Deflate!FlushedIsOnFile
  <2> QED BY <2>2, <2>5, <2>7, <2>8 DEF PackerInv
<1>4. CASE ~ (k <= Deflate!AvailableInputSpace)
  <2>1. Deflate!Enter("append", Deflate!Piece(k))
    BY <1>4 DEF Deflate!AppendPiece
  <2> QED BY <1>1, <1>2, <2>1, PackerEnters
<1> QED BY <1>3, <1>4

\* The buffer is empty: the piece that did not fit is put into it, or read where it is.
LEMMA PackerBuffered ==
  ASSUME PackerInv, Deflate!Buffered
  PROVE  PackerInv'
<1>1. /\ PackerTyped /\ PackerCalls /\ WholeOK /\ Deflate!InputFits
      /\ deflating = "append" /\ stage = "deflated" /\ open /\ ~ outside /\ ~ finishing
      /\ input = <<>> /\ data = Deflate!Piece(Len(data))
      /\ UNCHANGED <<flush_mode, held, output, synced, finishing, open, disk>>
  BY DEF PackerInv, PackerTyped, PackerCalls, PackerEmptied, Deflate!Buffered
<1>2. PICK k \in Nat : k = Len(data)
  BY <1>1, LenIs DEF PackerTyped
<1>3. data = Deflate!Piece(k) /\ data \in Seq(Int) /\ Len(data) = k
  BY <1>1, <1>2 DEF PackerTyped
<1>4. ASSUME input' = Cat(input, data), accepted' = accepted + k PROVE WholeOK'
  <2>1. Cat(input, data) = data /\ Chain(disk, output, held, <<>>) \in Seq(Int)
    BY <1>1, <1>3, CatEmpty, ChainLaws DEF PackerTyped
  <2>2. Chain(disk, output, held, data) = Cat(Chain(disk, output, held, <<>>), data)
    <3>1. Chain(disk, output, held, <<>>) = Cat(Cat(disk, output), held)
      BY <1>1, ChainLaws DEF PackerTyped
    <3> QED BY <3>1 DEF Chain
  <2>3. Deflate!Whole = Chain(disk, output, held, <<>>)
    BY <1>1, WholeIsChain
  <2>4. Deflate!Whole' = Chain(disk, output, held, data)
    BY <1>1, <1>4, <2>1 DEF Deflate!Whole, Chain, Cat
  <2> QED BY <1>1, <1>3, <1>4, <2>2, <2>3, <2>4, PieceJoins
<1>5. CASE Len(data) <= Deflate!AvailableInputSpace
  <2>1. Deflate!AddToInputBuffer(input, 0, data) /\ Deflate!Return("append", TRUE) /\ outside' = outside
    BY <1>5 DEF Deflate!Buffered
  <2>2. /\ deflating' = "none" /\ data' = <<>> /\ stage' = "deflated"
        /\ deflated' = [op |-> "append", ok |-> TRUE] /\ data' \in Seq(Int) /\ PackerEmptied'
    BY <2>1, PackerReturns
  <2>3. 0 + Len(input) <= input_buffer_capacity_
    BY <1>1, EmptySeq, MCSequentialAssumption DEF Deflate!DeflateAssumption
  <2>4. /\ input' = Cat(input, data) /\ input' \in Seq(Int) /\ head' \in Nat
        /\ head' + Len(input') <= input_buffer_capacity_
        /\ accepted' = accepted + k
    BY <1>1, <1>2, <1>3, <1>5, <2>1, <2>3, InputAdded
  <2>5. PackerTyped' /\ PackerCalls'
    BY <1>1, <2>1, <2>2, <2>4 DEF PackerTyped, PackerCalls
  <2>6. Deflate!InputFits' /\ Deflate!FlushedIsOnFile'
    BY <1>1, <2>1, <2>2, <2>4 DEF Deflate!InputFits, Deflate!FlushedIsOnFile
  <2> QED BY <1>4, <2>2, <2>4, <2>5, <2>6 DEF PackerInv
<1>6. CASE ~ (Len(data) <= Deflate!AvailableInputSpace)
  <2>1. /\ input' = data /\ head' = 0 /\ outside' = TRUE /\ stage' = "direct"
        /\ accepted' = accepted + k
        /\ deflating' = deflating /\ data' = data /\ deflated' = deflated
    BY <1>2, <1>6 DEF Deflate!Buffered
  <2>2. input' = Cat(input, data)
    BY <1>1, <1>3, <2>1, CatEmpty
  <2>3. PackerTyped' /\ PackerCalls' /\ PackerEmptied'
    BY <1>1, <1>3, <2>1 DEF PackerTyped, PackerCalls, PackerEmptied
  <2>4. Deflate!InputFits' /\ Deflate!FlushedIsOnFile'
    BY <1>1, <2>1 DEF Deflate!InputFits, Deflate!FlushedIsOnFile
  <2> QED BY <1>4, <2>1, <2>2, <2>3, <2>4 DEF PackerInv
<1> QED BY <1>5, <1>6

LEMMA PackerRestored ==
  ASSUME PackerInv, Deflate!Restored
  PROVE  PackerInv'
<1>1. /\ PackerTyped /\ PackerCalls /\ WholeOK
      /\ deflating = "append" /\ open /\ ~ finishing /\ input = <<>>
      /\ head' = 0 /\ outside' = FALSE /\ Deflate!Return("append", TRUE)
      /\ UNCHANGED <<flush_mode, input, held, output, synced, finishing, open, disk, accepted>>
  BY DEF PackerInv, PackerTyped, PackerCalls, PackerEmptied, Deflate!Restored
<1>2. /\ deflating' = "none" /\ data' = <<>> /\ stage' = "deflated"
      /\ deflated' = [op |-> "append", ok |-> TRUE] /\ data' \in Seq(Int) /\ PackerEmptied'
  BY <1>1, PackerReturns
<1>3. PackerTyped' /\ PackerCalls'
  BY <1>1, <1>2 DEF PackerTyped, PackerCalls
<1>4. WholeOK'
  <2>1. Deflate!Whole' = Deflate!Whole
    BY <1>1 DEF Deflate!Whole
  <2> QED BY <1>1, <2>1 DEF WholeOK
<1>5. Deflate!InputFits'
  BY <1>1, EmptySeq, MCSequentialAssumption DEF Deflate!InputFits, Deflate!DeflateAssumption
<1>6. Deflate!FlushedIsOnFile'
  BY <1>1, <1>2 DEF Deflate!FlushedIsOnFile
<1> QED BY <1>2, <1>3, <1>4, <1>5, <1>6 DEF PackerInv

\* A write that fails leaves everything as it is.
LEMMA PackerRoundFails ==
  ASSUME PackerInv, Deflate!RoundFails
  PROVE  PackerInv'
<1>1. /\ PackerTyped /\ PackerCalls /\ WholeOK /\ Deflate!InputFits
      /\ deflating \in {"append", "flush", "sync", "close"} /\ open
      /\ Deflate!Return(deflating, FALSE)
      /\ UNCHANGED <<flush_mode, disk, accepted, input, head, outside, held, output,
                     finishing, open>>
  BY DEF PackerInv, PackerTyped, PackerCalls, Deflate!RoundFails, Deflate!zstream
<1>2. PICK o \in {"append", "flush", "sync", "close"} : o = deflating
  BY <1>1
<1>3. Deflate!Return(o, FALSE)
  BY <1>1, <1>2
<1>4. /\ deflating' = "none" /\ data' = <<>> /\ stage' = "deflated"
      /\ deflated' = [op |-> o, ok |-> FALSE] /\ data' \in Seq(Int) /\ PackerEmptied'
  BY <1>3, PackerReturns
<1>5. PackerTyped' /\ PackerCalls' /\ Deflate!InputFits'
  BY <1>1, <1>4 DEF PackerTyped, PackerCalls, Deflate!InputFits
<1>6. WholeOK'
  <2>1. Deflate!Whole' = Deflate!Whole
    BY <1>1 DEF Deflate!Whole
  <2> QED BY <1>1, <2>1 DEF WholeOK
<1>7. Deflate!FlushedIsOnFile'
  BY <1>1, <1>4 DEF Deflate!FlushedIsOnFile
<1> QED BY <1>4, <1>5, <1>6, <1>7 DEF PackerInv

\* What the last part of Flush, Sync and Close keeps, if the output is written or not.
LEMMA PackerEnding ==
  ASSUME PackerInv, Deflate!Ending, NEW o \in {"flush", "sync", "close"}, o = deflating,
         NEW ok \in BOOLEAN, Deflate!Return(o, ok), open' \in BOOLEAN,
         \/ disk' = disk \o output /\ output' = <<>>
         \/ disk' = disk /\ output' = output
  PROVE  /\ PackerTyped' /\ PackerCalls' /\ PackerEmptied' /\ WholeOK' /\ Deflate!InputFits'
         /\ Deflate!Whole' = Deflate!Whole
         /\ deflating' = "none" /\ deflated' = [op |-> o, ok |-> ok]
<1>1. /\ PackerTyped /\ PackerCalls /\ WholeOK /\ Deflate!InputFits
      /\ head' = 0
      /\ UNCHANGED <<flush_mode, input, outside, held, finishing, accepted>>
  BY DEF PackerInv, Deflate!Ending
<1>2. /\ deflating' = "none" /\ data' = <<>> /\ stage' = "deflated"
      /\ deflated' = [op |-> o, ok |-> ok] /\ data' \in Seq(Int) /\ PackerEmptied'
  BY PackerReturns
<1>3. /\ disk' \in Seq(Int) /\ output' \in Seq(Int) /\ Len(output') <= output_buffer_capacity_
      /\ Cat(disk', output') = Cat(disk, output)
  <2>1. CASE disk' = Cat(disk, output) /\ output' = <<>>
    <3>1. disk' \in Seq(Int) /\ <<>> \in Seq(Int) /\ Len(<<>>) = 0
      BY <1>1, <2>1, CatIs, EmptySeq DEF PackerTyped
    <3>2. Cat(disk', <<>>) = disk'
      BY <3>1, CatEmpty
    <3>3. output_buffer_capacity_ \in Nat
      BY MCSequentialAssumption DEF Deflate!DeflateAssumption
    <3> QED BY <2>1, <3>1, <3>2, <3>3
  <2>2. CASE disk' = disk /\ output' = output
    BY <1>1, <2>2 DEF PackerTyped
  <2> QED BY <2>1, <2>2 DEF Cat
<1>4. Deflate!Whole' = Deflate!Whole
  BY <1>1, <1>3 DEF Deflate!Whole, Cat
<1>5. PackerTyped'
  BY <1>1, <1>2, <1>3 DEF PackerTyped
<1>6. finishing => input = <<>>
  BY <1>1 DEF PackerCalls
<1>7. PackerCalls'
  BY <1>1, <1>2, <1>6 DEF PackerCalls
<1>8. WholeOK'
  BY <1>1, <1>4 DEF WholeOK
<1>9. Deflate!InputFits'
  <2>1. Len(input) \in Nat /\ head \in Nat /\ input_buffer_capacity_ \in Nat
    BY <1>1, LenIs, MCSequentialAssumption DEF PackerTyped, Deflate!DeflateAssumption
  <2>2. ~ outside => 0 + Len(input) <= input_buffer_capacity_
    BY <1>1, <2>1 DEF Deflate!InputFits
  <2> QED BY <1>1, <2>2 DEF Deflate!InputFits
<1> QED BY <1>2, <1>4, <1>5, <1>7, <1>8, <1>9

LEMMA PackerWritten ==
  ASSUME PackerInv, Deflate!Written
  PROVE  PackerInv'
<1>1. /\ Deflate!Ending /\ disk' = disk \o output /\ output' = <<>>
      /\ Deflate!Return(deflating, TRUE) /\ open' = (deflating # "close")
      /\ deflating \in {"flush", "sync", "close"} /\ stage = "deflated"
      /\ UNCHANGED <<flush_mode, input, held, finishing, accepted>>
  BY DEF Deflate!Written, Deflate!Ending
<1>2. PICK o \in {"flush", "sync", "close"} : o = deflating
  BY <1>1
<1>3. Deflate!Return(o, TRUE) /\ open' \in BOOLEAN
  BY <1>1, <1>2
<1>4. /\ PackerTyped' /\ PackerCalls' /\ PackerEmptied' /\ WholeOK' /\ Deflate!InputFits'
      /\ Deflate!Whole' = Deflate!Whole
      /\ deflating' = "none" /\ deflated' = [op |-> o, ok |-> TRUE]
  BY <1>1, <1>2, <1>3, PackerEnding
<1>5. ASSUME held = <<>>, input = <<>> PROVE Deflate!Whole' = disk'
  <2>1. disk' \in Seq(Int) /\ Deflate!Whole' = Chain(disk', <<>>, <<>>, <<>>)
    BY <1>1, <1>4, <1>5 DEF PackerTyped, Deflate!Whole, Chain, Cat
  <2>2. Chain(disk', <<>>, <<>>, <<>>) = disk'
    BY <2>1, CatEmpty DEF Chain
  <2> QED BY <2>1, <2>2
<1>6. ASSUME o \in {"flush", "sync"}, flush_mode = "sync_flush"
      PROVE  Deflate!AreBytes(disk', accepted')
  <2>1. held = <<>> /\ input = <<>>
    BY <1>1, <1>2, <1>6 DEF PackerInv, PackerEmptied
  <2> QED BY <1>4, <1>5, <2>1 DEF WholeOK
<1>7. ASSUME o = "close"
      PROVE  /\ Deflate!AreBytes(disk', accepted')
             /\ \A i \in 1 .. Len(disk') : disk'[i] = -1 <=> i = Len(disk')
  <2>1. held = <<>> /\ input = <<>> /\ finishing
    BY <1>1, <1>2, <1>7 DEF PackerInv, PackerEmptied
  <2>2. Deflate!Whole' = disk' /\ finishing'
    BY <1>1, <1>5, <2>1
  <2>3. Deflate!AreBytes(disk', accepted') /\ Ends(disk', TRUE)
    BY <1>4, <2>2 DEF WholeOK, PackerTyped
  <2> QED BY <2>3 DEF Ends
<1>8. Deflate!FlushedIsOnFile'
  BY <1>1, <1>2, <1>4, <1>6, <1>7 DEF Deflate!FlushedIsOnFile, Deflate!End
<1> QED BY <1>4, <1>8 DEF PackerInv

LEMMA PackerNotWritten ==
  ASSUME PackerInv, Deflate!NotWritten
  PROVE  PackerInv'
<1>1. /\ Deflate!Ending /\ Deflate!Return(deflating, FALSE) /\ open' = open
      /\ deflating \in {"flush", "sync", "close"}
      /\ \/ disk' = disk \o output /\ output' = <<>>
         \/ disk' = disk /\ output' = output
  BY DEF Deflate!NotWritten, Deflate!Ending, Deflate!WriteFails, Deflate!SyncFails
<1>2. PICK o \in {"flush", "sync", "close"} : o = deflating
  BY <1>1
<1>3. Deflate!Return(o, FALSE) /\ open /\ open' \in BOOLEAN
  BY <1>1, <1>2 DEF PackerInv, PackerCalls, PackerTyped
<1>4. /\ PackerTyped' /\ PackerCalls' /\ PackerEmptied' /\ WholeOK' /\ Deflate!InputFits'
      /\ deflating' = "none" /\ deflated' = [op |-> o, ok |-> FALSE]
  BY <1>1, <1>2, <1>3, PackerEnding
<1>5. Deflate!FlushedIsOnFile'
  BY <1>1, <1>3, <1>4 DEF Deflate!FlushedIsOnFile
<1> QED BY <1>4, <1>5 DEF PackerInv

LEMMA PackerStep == PackerInv /\ [MCNext]_MCvars => PackerInv'
<1> SUFFICES ASSUME PackerInv, [MCNext]_MCvars PROVE PackerInv'
  OBVIOUS
<1>1. Deflate!Next \/ UNCHANGED packer
  BY DEF MCNext, Only, Is, MCvars
<1>2. CASE UNCHANGED packer
  <2>1. PackerTyped' /\ PackerEmptied'
    BY <1>2 DEF packer, PackerInv, PackerTyped, PackerEmptied
  <2>2. PackerCalls'
    BY <1>2 DEF packer, PackerInv, PackerCalls, Deflate!Piece
  <2>3. WholeOK'
    BY <1>2 DEF packer, PackerInv, WholeOK, Deflate!Whole
  <2>4. Deflate!InputFits' /\ Deflate!FlushedIsOnFile'
    BY <1>2 DEF packer, PackerInv, Deflate!InputFits, Deflate!FlushedIsOnFile
  <2> QED BY <2>1, <2>2, <2>3, <2>4 DEF PackerInv
<1>3. ASSUME NEW k \in 0 .. MaxPiece, Deflate!AppendPiece(k) PROVE PackerInv'
  BY <1>3, PackerAppends
<1>4. CASE Deflate!Flush \/ Deflate!Sync \/ Deflate!Close
  <2>1. PICK o \in {"flush", "sync", "close"} : Deflate!Called(o) /\ Deflate!Enter(o, <<>>)
    BY <1>4 DEF Deflate!Flush, Deflate!Sync, Deflate!Close
  <2>2. /\ <<>> \in Seq(Int) /\ deflating = "none" /\ open /\ ~ outside
        /\ (o # "close" => ~ finishing) /\ o # "append"
    BY <2>1, EmptySeq DEF Deflate!Called
  <2> QED BY <2>1, <2>2, PackerEnters
<1> QED BY <1>1, <1>2, <1>3, <1>4, PackerRound, PackerBuffered, PackerRestored, PackerWritten,
           PackerRoundFails, PackerNotWritten DEF Deflate!Next, Deflate!Loop

\* Whatever writes fail and however deflate takes and gives bytes, all that has
\* been appended is in the file, in a buffer or in deflate, once and in order,
\* and the input stays in its buffer.
THEOREM DeflatesAll == MCSpec => []NothingLost
<1>1. PackerInv => NothingLost
  BY DEF PackerInv, WholeOK, NothingLost, Deflate!NothingLost
<1> QED BY <1>1, PackerStart, PackerStep, PTL DEF MCSpec

\* A flush that has succeeded and a Close leave all of it in the file, with one end.
THEOREM FlushesAll == MCSpec => []FlushedIsOnFile
<1>1. PackerInv => FlushedIsOnFile
  BY DEF PackerInv, FlushedIsOnFile
<1> QED BY <1>1, PackerStart, PackerStep, PTL DEF MCSpec

-----------------------------------------------------------------------------
(* ZlibInputStream: what inflate has put out and nobody has read yet is    *)
(* text of the file between told and made.                                 *)

LEMMA LeastNatural ==
  ASSUME NEW T, T \subseteq Nat, T # {}
  PROVE  \E x \in T : \A y \in T : x <= y
<1> DEFINE R == {p \in Nat \X Nat : p[1] < p[2]}
<1>1. IsWellFoundedOn(R, Nat)
  BY NatLessThanWellFounded DEF OpToRel
<1>2. PICK x \in T : \A y \in T : ~ (<<y, x>> \in R)
  BY <1>1, WFMin
<1>3. ASSUME NEW y \in T PROVE x <= y
  <2>1. ~ (<<y, x>> \in R)
    BY <1>2
  <2> QED BY <2>1
<1> QED BY <1>3

LEMMA TextIs ==
  ASSUME NEW a \in Nat, NEW k \in Nat
  PROVE  /\ Inflate!Text(a, k) \in Seq(Int) /\ Len(Inflate!Text(a, k)) = k
         /\ \A i \in 1 .. k : Inflate!Text(a, k)[i] = a + i
         /\ k = 0 => Inflate!Text(a, k) = <<>>
<1>1. /\ Inflate!Text(a, k) \in Seq(Int) /\ Len(Inflate!Text(a, k)) = k
      /\ \A i \in 1 .. k : Inflate!Text(a, k)[i] = a + i
  BY DEF Inflate!Text
<1> QED BY <1>1, EmptySeq

LEMMA TextJoins ==
  ASSUME NEW a \in Nat, NEW j \in Nat, NEW k \in Nat
  PROVE  Inflate!Text(a, j) \o Inflate!Text(a + j, k) = Inflate!Text(a, j + k)
<1>0. PICK b \in Nat, m \in Nat : b = a + j /\ m = j + k
  OBVIOUS
<1>1. PICK p \in Seq(Int), q \in Seq(Int), r \in Seq(Int) :
        p = Inflate!Text(a, j) /\ q = Inflate!Text(b, k) /\ r = Inflate!Text(a, m)
  BY TextIs
<1>2. /\ Len(p) = j /\ Len(q) = k /\ Len(r) = m
      /\ \A i \in 1 .. j : p[i] = a + i
      /\ \A i \in 1 .. k : q[i] = b + i
      /\ \A i \in 1 .. m : r[i] = a + i
  BY <1>1, TextIs
<1>3. PICK c \in Seq(Int) :
        /\ c = p \o q /\ Len(c) = m
        /\ \A i \in 1 .. j : c[i] = p[i]
        /\ \A i \in 1 .. k : c[j + i] = q[i]
  <2>1. PICK c : c = p \o q
    OBVIOUS
  <2>2. /\ c \in Seq(Int) /\ Len(c) = Len(p) + Len(q)
        /\ \A i \in 1 .. Len(p) : c[i] = p[i]
        /\ \A i \in 1 .. Len(q) : c[Len(p) + i] = q[i]
    BY <2>1, Joined
  <2> QED BY <1>0, <1>2, <2>1, <2>2
<1>4. ASSUME NEW i \in 1 .. m PROVE c[i] = r[i]
  <2>1. CASE i \in 1 .. j
    BY <1>2, <1>3, <2>1
  <2>2. CASE i \notin 1 .. j
    <3>1. PICK l \in 1 .. k : i = j + l
      <4>1. i - j \in 1 .. k /\ i = j + (i - j)
        BY <1>0, <2>2
      <4> QED BY <4>1
    <3>2. c[j + l] = q[l] /\ q[l] = b + l /\ r[i] = a + i
      BY <1>2, <1>3
    <3> QED BY <1>0, <3>1, <3>2
  <2> QED BY <2>1, <2>2
<1>5. c = r
  BY <1>2, <1>3, <1>4, SeqEqual
<1> QED BY <1>0, <1>1, <1>3, <1>5

LEMMA TextSlice ==
  ASSUME NEW w \in Nat, NEW a \in 0 .. w, NEW b \in a .. w
  PROVE  SubSeq(Inflate!Text(0, w), a + 1, b) = Inflate!Text(a, b - a)
<1>0. b - a \in Nat /\ a \in Nat /\ 0 \in Nat
  OBVIOUS
<1>1. PICK t \in Seq(Int), r \in Seq(Int) : t = Inflate!Text(0, w) /\ r = Inflate!Text(a, b - a)
  BY <1>0, TextIs
<1>2. /\ Len(t) = w /\ \A i \in 1 .. w : t[i] = 0 + i
      /\ Len(r) = b - a /\ \A i \in 1 .. b - a : r[i] = a + i
  BY <1>0, <1>1, TextIs
<1>3. PICK q : q = SubSeq(t, a + 1, b)
  OBVIOUS
<1>4. q \in Seq(Int) /\ Len(q) = b - a
  BY <1>2, <1>3
<1>5. \A i \in 1 .. b - a : q[i] = t[a + i]
  BY <1>2, <1>3
<1>6. \A i \in 1 .. b - a : q[i] = r[i]
  BY <1>2, <1>5
<1>7. q = r
  BY <1>2, <1>4, <1>6, SeqEqual
<1> QED BY <1>1, <1>3, <1>7

\* The text that the first bytes of d complete, up to k of them.
Sums(g, d, k) ==
  /\ g = [i \in 0 .. k |-> g[i]]
  /\ g[0] = 0 /\ \A i \in 1 .. k : g[i] = g[i - 1] + d[i].text

LEMMA SumsExist == \A d : \A k \in Nat : \E g : Sums(g, d, k)
<1> SUFFICES ASSUME NEW d PROVE \A k \in Nat : \E g : Sums(g, d, k)
  OBVIOUS
<1> DEFINE T == {k \in Nat : ~ \E g : Sums(g, d, k)}
<1> SUFFICES ASSUME T # {} PROVE FALSE
  OBVIOUS
<1>1. PICK k \in T : \A j \in T : k <= j
  BY LeastNatural
<1>2. CASE k = 0
  <2>1. Sums([i \in 0 .. 0 |-> 0], d, 0)
    BY DEF Sums
  <2> QED BY <1>1, <1>2, <2>1
<1>3. CASE k # 0
  <2>1. k - 1 \in Nat /\ k - 1 \notin T
    BY <1>1, <1>3
  <2>2. PICK g : Sums(g, d, k - 1)
    BY <2>1
  <2> DEFINE h == [i \in 0 .. k |-> IF i = k THEN g[k - 1] + d[k].text ELSE g[i]]
  <2>3. \A i \in 0 .. k - 1 : h[i] = g[i]
    BY <2>1
  <2>4. h[k] = g[k - 1] + d[k].text /\ k - 1 \in 0 .. k - 1 /\ 0 \in 0 .. k - 1
    BY <2>1, <1>3
  <2>5. h = [i \in 0 .. k |-> h[i]]
    OBVIOUS
  <2> HIDE DEF h
  <2>6. h[0] = 0
    BY <2>2, <2>3, <2>4 DEF Sums
  <2>7. ASSUME NEW i \in 1 .. k PROVE h[i] = h[i - 1] + d[i].text
    <3>1. i - 1 \in 0 .. k - 1
      BY <1>3
    <3>2. CASE i = k
      BY <2>3, <2>4, <3>1, <3>2
    <3>3. CASE i # k
      <4>1. i \in 1 .. k - 1 /\ i \in 0 .. k - 1
        BY <3>3, <2>1
      <4>2. g[i] = g[i - 1] + d[i].text
        BY <2>2, <4>1 DEF Sums
      <4> QED BY <2>3, <3>1, <4>1, <4>2
    <3> QED BY <3>2, <3>3
  <2>8. Sums(h, d, k)
    BY <2>5, <2>6, <2>7 DEF Sums
  <2> QED BY <1>1, <2>8
<1> QED BY <1>2, <1>3

LEMMA GivenSums ==
  ASSUME Len(source) \in Nat
  PROVE  Sums(Inflate!Given, source, Len(source))
<1> DEFINE G == CHOOSE g : g = [k \in 0 .. Len(source) |->
                  IF k = 0 THEN 0 ELSE g[k - 1] + source[k].text]
<1>1. Inflate!Given = G
  BY DEF Inflate!Given
<1>2. PICK h : Sums(h, source, Len(source))
  BY SumsExist
<1>3. h = [k \in 0 .. Len(source) |-> IF k = 0 THEN 0 ELSE h[k - 1] + source[k].text]
  <2>1. h = [k \in 0 .. Len(source) |-> h[k]]
    BY <1>2 DEF Sums
  <2>2. ASSUME NEW k \in 0 .. Len(source)
        PROVE  h[k] = IF k = 0 THEN 0 ELSE h[k - 1] + source[k].text
    <3>1. k = 0 \/ k \in 1 .. Len(source)
      OBVIOUS
    <3> QED BY <1>2, <3>1 DEF Sums
  <2> QED BY <2>1, <2>2
<1>4. G = [k \in 0 .. Len(source) |-> IF k = 0 THEN 0 ELSE G[k - 1] + source[k].text]
  BY <1>3
<1> HIDE DEF G
<1>5. Sums(G, source, Len(source))
  <2>1. G = [k \in 0 .. Len(source) |-> G[k]] /\ G[0] = 0
    BY <1>4
  <2>2. ASSUME NEW i \in 1 .. Len(source) PROVE G[i] = G[i - 1] + source[i].text
    <3>1. i \in 0 .. Len(source) /\ i # 0
      OBVIOUS
    <3> QED BY <1>4, <3>1
  <2> QED BY <2>1, <2>2 DEF Sums
<1> QED BY <1>1, <1>5

\* Each byte completes a number of bytes of text.
Counted(d, k) == \A i \in 1 .. k : d[i].text \in Nat

LEMMA SumsRise ==
  ASSUME NEW g, NEW d, NEW k \in Nat, Sums(g, d, k), Counted(d, k)
  PROVE  /\ \A i \in 0 .. k : g[i] \in Nat
         /\ \A i \in 0 .. k, j \in 0 .. k : i <= j => g[i] <= g[j]
<1>1. ASSUME NEW i \in 0 .. k PROVE g[i] \in Nat
  <2> DEFINE T == {j \in Nat : j <= k /\ g[j] \notin Nat}
  <2> SUFFICES ASSUME T # {} PROVE FALSE
    OBVIOUS
  <2>1. PICK j \in T : \A y \in T : j <= y
    BY LeastNatural
  <2>2. j # 0
    BY <2>1 DEF Sums
  <2>3. j - 1 \in 0 .. k /\ j - 1 \notin T /\ j \in 1 .. k
    BY <2>1, <2>2
  <2>4. d[j].text \in Nat /\ g[j] = g[j - 1] + d[j].text
    BY <2>3 DEF Sums, Counted
  <2>5. g[j - 1] \in Nat
    BY <2>3
  <2> QED BY <2>1, <2>4, <2>5
<1>2. ASSUME NEW i \in 0 .. k, NEW l \in 0 .. k, i <= l PROVE g[i] <= g[l]
  <2> DEFINE T == {j \in Nat : j <= k /\ i <= j /\ ~ g[i] <= g[j]}
  <2> SUFFICES ASSUME T # {} PROVE FALSE
    BY <1>2
  <2>1. PICK j \in T : \A y \in T : j <= y
    BY LeastNatural
  <2>2. j # i /\ i < j
    BY <1>1, <2>1
  <2>3. j - 1 \in 0 .. k /\ j - 1 \notin T /\ j \in 1 .. k
    BY <2>1, <2>2
  <2>4. d[j].text \in Nat /\ g[j] = g[j - 1] + d[j].text
    BY <2>3 DEF Sums, Counted
  <2>6. g[i] <= g[j - 1]
    BY <2>2, <2>3
  <2>5. g[i] \in Nat /\ g[j - 1] \in Nat /\ g[j] \in Nat
    BY <1>1, <2>1, <2>3
  <2> QED BY <2>1, <2>4, <2>5, <2>6
<1> QED BY <1>1, <1>2

\* A set of numbers up to h has a greatest one.
LEMMA Greatest ==
  ASSUME NEW h \in Nat, NEW S, S \subseteq 0 .. h, S # {}
  PROVE  Inflate!Max(S) \in S /\ \A y \in S : Inflate!Max(S) >= y
<1> DEFINE T == {h - x : x \in S}
<1>1. T \subseteq Nat /\ T # {}
  OBVIOUS
<1>2. PICK m \in T : \A y \in T : m <= y
  BY <1>1, LeastNatural
<1>3. PICK x \in S : m = h - x
  BY <1>2
<1>4. ASSUME NEW y \in S PROVE x >= y
  <2>1. h - x <= h - y
    BY <1>2, <1>3
  <2> QED BY <2>1
<1>5. \E z \in S : \A y \in S : z >= y
  BY <1>4
<1> QED BY <1>5 DEF Inflate!Max

\* The source: what is behind its end or an error is not there, and its last
\* byte completes no text.
SourceOK ==
  /\ Len(source) \in Nat \ {0} /\ Counted(source, Len(source))
  /\ source[Len(source)].text = 0
  /\ \A u \in 1 .. Len(source) - 1 : source[u].kind = "data"

\* inflate has put out all text of the bytes before the last one it took.
InflatePlaces ==
  /\ taken \in 0 .. Len(source) /\ used \in 0 .. taken
  /\ made \in 0 .. Inflate!Given[used] /\ told \in 0 .. made
  /\ used > 0 => Inflate!Given[used - 1] <= made

\* A call that wants more has taken all there is; what it has is the text from
\* where it began.
InflateCall ==
  /\ op \in {"none", "read", "skip"}
  /\ op # "none" =>
       /\ ask.op = op /\ ask.at \in 0 .. told
       /\ want > 0 => told = made
  /\ op = "read" =>
       /\ left = 0 /\ ask.n \in -1 .. MaxAsk
       /\ result = Inflate!Text(ask.at, told - ask.at)
       /\ ask.n = -1 => want \in Int /\ want < 0
       /\ ask.n # -1 => want \in Nat /\ ask.n = (told - ask.at) + want
  /\ op = "skip" =>
       /\ ask.n \in 0 .. MaxAsk /\ want \in Nat /\ left \in Nat
       /\ ask.n = (told - ask.at) + want + left

InflateInv == SourceOK /\ InflatePlaces /\ InflateCall

LEMMA InflateParameters ==
  /\ input_buffer_capacity_ \in Nat \ {0} /\ output_buffer_capacity_ \in Nat \ {0}
  /\ kMaxSkipSize \in Nat \ {0} /\ Bursts \subseteq Nat /\ MaxSource \in Nat /\ MaxAsk \in Nat
  /\ OutOfRange # OK /\ DataLoss \notin {OK, OutOfRange, Invalid} /\ Failed \notin {OK, OutOfRange}
BY MCSequentialAssumption, ReaderAssumption DEF Inflate!InflateAssumption

LEMMA SourcesOK ==
  ASSUME source \in Inflate!Sources
  PROVE  SourceOK
<1> DEFINE LastBytes == {Inflate!Byte(0, "end"), Inflate!Byte(0, "bad"), Inflate!Byte(0, "data")}
<1>1. PICK d \in Inflate!Bodies, e \in LastBytes : source = d \o << e >>
  <2>1. PICK d \in Inflate!Bodies, t \in Inflate!Tails : source = d \o t
    BY DEF Inflate!Sources
  <2>2. Inflate!Ends = {Inflate!Byte(0, "end")}
    BY DEF Inflate!Ends
  <2>3. PICK e \in LastBytes : t = << e >>
    BY <2>2 DEF Inflate!Tails
  <2> QED BY <2>1, <2>3
<1>4. e.text = 0
  BY DEF Inflate!Byte
<1>2. PICK m \in 0 .. MaxSource : d \in [1 .. m -> {Inflate!Byte(k, "data") : k \in Bursts}]
  BY DEF Inflate!Bodies, Inflate!SeqOf
<1>3. m \in Nat /\ \A i \in 1 .. m : d[i].text \in Nat /\ d[i].kind = "data"
  BY <1>2, InflateParameters DEF Inflate!Byte
<1>5. /\ Len(source) = m + 1 /\ source[m + 1] = e
      /\ \A i \in 1 .. m : source[i] = d[i]
  BY <1>1, <1>2, <1>3
<1>6. \A i \in 1 .. m + 1 : i \in 1 .. m \/ i = m + 1
  BY <1>3
<1>7. \A i \in 1 .. m + 1 : source[i].text \in Nat
  BY <1>3, <1>4, <1>5, <1>6
<1> QED BY <1>3, <1>4, <1>5, <1>7 DEF SourceOK, Counted

LEMMA GivenFacts ==
  ASSUME SourceOK
  PROVE  /\ \A i \in 0 .. Len(source) : Inflate!Given[i] \in Nat
         /\ \A i \in 0 .. Len(source), j \in 0 .. Len(source) :
              i <= j => Inflate!Given[i] <= Inflate!Given[j]
         /\ Inflate!Given[0] = 0
         /\ Inflate!Given[Len(source) - 1] = Inflate!Given[Len(source)]
         /\ Inflate!Whole = Inflate!Given[Len(source)]
<1>1. PICK l \in Nat : l = Len(source) /\ l # 0
  BY DEF SourceOK
<1>2. PICK g : g = Inflate!Given
  OBVIOUS
<1>3. Sums(g, source, l) /\ Counted(source, l) /\ source[l].text = 0
  BY <1>1, <1>2, GivenSums DEF SourceOK
<1>4. /\ \A i \in 0 .. l : g[i] \in Nat
      /\ \A i \in 0 .. l, j \in 0 .. l : i <= j => g[i] <= g[j]
  BY <1>3, SumsRise
<1>5. g[0] = 0 /\ g[l] = g[l - 1] + 0
  BY <1>1, <1>3 DEF Sums
<1>6. g[l - 1] = g[l]
  BY <1>1, <1>4, <1>5
<1>7. Inflate!Whole = g[l]
  <2>1. {u \in 0 .. l : u = l \/ Inflate!Stopped(u)} = {l}
    BY <1>1 DEF SourceOK, Inflate!Stopped
  <2>2. Inflate!Min({l}) = l
    BY <1>1 DEF Inflate!Min
  <2> QED BY <1>1, <1>2, <2>1, <2>2 DEF Inflate!Whole
<1> QED BY <1>1, <1>2, <1>4, <1>5, <1>6, <1>7

LEMMA InflateNumbers ==
  ASSUME InflateInv
  PROVE  /\ Len(source) \in Nat /\ taken \in Nat /\ used \in Nat /\ made \in Nat /\ told \in Nat
         /\ Inflate!Given[used] \in Nat /\ Inflate!Whole \in Nat
         /\ used <= taken /\ taken <= Len(source) /\ told <= made
         /\ made <= Inflate!Given[used] /\ Inflate!Given[used] <= Inflate!Whole
<1>1. Len(source) \in Nat /\ taken \in 0 .. Len(source) /\ used \in 0 .. taken
  BY DEF InflateInv, SourceOK, InflatePlaces
<1>2. used \in 0 .. Len(source) /\ Len(source) \in 0 .. Len(source) /\ used <= Len(source)
  BY <1>1
<1>3. /\ Inflate!Given[used] \in Nat /\ Inflate!Whole \in Nat
      /\ Inflate!Given[used] <= Inflate!Whole
  BY <1>2, GivenFacts DEF InflateInv
<1>4. made \in 0 .. Inflate!Given[used] /\ told \in 0 .. made
  BY DEF InflateInv, InflatePlaces
<1> QED BY <1>1, <1>3, <1>4

LEMMA InflateSame ==
  ASSUME source' = source
  PROVE  /\ Inflate!Given' = Inflate!Given /\ Inflate!Whole' = Inflate!Whole
         /\ Inflate!Text(0, Inflate!Whole)' = Inflate!Text(0, Inflate!Whole)
<1>1. Inflate!Given' = Inflate!Given
  BY DEF Inflate!Given
<1>2. Inflate!Whole' = Inflate!Whole
  BY <1>1 DEF Inflate!Whole, Inflate!Stopped
<1> QED BY <1>1, <1>2 DEF Inflate!Text

\* A call that returns answers at the position it leaves; the text is the same.
LEMMA InflateAnswers ==
  ASSUME NEW c, NEW d, NEW st, NEW t, Inflate!Reply(c, d, st), source' = source, told' = t
  PROVE  /\ Inflate!Reader!Answer(c.op, c.n, t, d, IF st = DataLoss THEN Failed ELSE st)
         /\ op' = "none"
<1>1. /\ op' = "none" /\ reply' = [op |-> c.op, n |-> c.n, data |-> d, status |-> st]
  BY DEF Inflate!Reply
<1>2. Inflate!offset' = t
  BY <1>1 DEF Inflate!offset
<1>3. Inflate!Text(0, Inflate!Whole)' = Inflate!Text(0, Inflate!Whole)
  BY InflateSame
<1>4. (IF reply.status = DataLoss THEN [reply EXCEPT !.status = Failed] ELSE reply)'
        = [op |-> c.op, n |-> c.n, data |-> d, status |-> IF st = DataLoss THEN Failed ELSE st]
  BY <1>1
<1> QED BY <1>1, <1>2, <1>3, <1>4 DEF Inflate!Reader!Answer

LEMMA InflateStutters ==
  ASSUME source' = source, reply' = reply, Inflate!offset' = Inflate!offset
  PROVE  UNCHANGED Inflate!readerVars
<1>1. Inflate!Text(0, Inflate!Whole)' = Inflate!Text(0, Inflate!Whole)
  BY InflateSame
<1> QED BY <1>1 DEF Inflate!readerVars, Inflate!Reader!vars

\* The bytes that a reader of the text may take.
LEMMA TextTaken ==
  ASSUME SourceOK, Inflate!Whole \in Nat, NEW a \in Nat, NEW t \in Nat, a <= t, t <= Inflate!Whole
  PROVE  /\ Inflate!Reader!Slice(a, t) = Inflate!Text(a, t - a)
         /\ Inflate!Reader!End(a) = Inflate!Whole
         /\ Len(Inflate!Text(0, Inflate!Whole)) = Inflate!Whole
<1>1. PICK w \in Nat : w = Inflate!Whole
  OBVIOUS
<1>2. a \in 0 .. w /\ t \in a .. w
  BY <1>1
<1>3. SubSeq(Inflate!Text(0, w), a + 1, t) = Inflate!Text(a, t - a)
  BY <1>2, TextSlice
<1>4. Len(Inflate!Text(0, w)) = w
  BY TextIs
<1>5. Inflate!Reader!End(a) = w
  BY <1>1, <1>2, <1>4 DEF Inflate!Reader!End, Inflate!Reader!MaxOf
<1> QED BY <1>1, <1>3, <1>4, <1>5 DEF Inflate!Reader!Slice

\* What a call has read when it returns.
LEMMA InflateHas ==
  ASSUME InflateInv, op # "none"
  PROVE  \E a \in Nat, t \in Nat, w \in Nat :
           /\ a = ask.at /\ t = told /\ w = Inflate!Whole /\ a <= t /\ t <= w
           /\ Inflate!offset = a
           /\ Inflate!Reader!Took(op, t) = IF op = "read" THEN result ELSE <<>>
<1>1. op \in {"read", "skip"} /\ ask.at \in 0 .. told
  BY DEF InflateInv, InflateCall
<1>2. PICK t \in Nat, w \in Nat : t = told /\ w = Inflate!Whole /\ t <= w
  BY InflateNumbers
<1>3. PICK a \in Nat : a = ask.at /\ a <= t
  BY <1>1, <1>2
<1>4. Inflate!offset = a
  BY <1>3 DEF Inflate!offset
<1>5. Inflate!Reader!Slice(a, t) = Inflate!Text(a, t - a)
  BY <1>2, <1>3, TextTaken DEF InflateInv
<1>6. op = "read" => result = Inflate!Text(a, t - a)
  BY <1>2, <1>3 DEF InflateInv, InflateCall
<1>7. Inflate!Reader!Took(op, t) = IF op = "read" THEN result ELSE <<>>
  BY <1>4, <1>5, <1>6 DEF Inflate!Reader!Took
<1> QED BY <1>2, <1>3, <1>4, <1>7

\* A call that fails, or comes to the end of the text, or has what it wants.
LEMMA InflateReturns ==
  ASSUME InflateInv, op # "none", NEW st, Inflate!Return(st), source' = source, told' = told,
         \/ st \in {Failed, DataLoss} /\ want > 0
         \/ st = OutOfRange /\ want > 0 /\ told = Inflate!Whole
         \/ st = OK /\ want <= 0 /\ left = 0
  PROVE  InflateCall' /\ Inflate!ReaderStep
<1>1. PICK a \in Nat, t \in Nat, w \in Nat :
        /\ a = ask.at /\ t = told /\ w = Inflate!Whole /\ a <= t /\ t <= w
        /\ Inflate!offset = a
        /\ Inflate!Reader!Took(op, t) = IF op = "read" THEN result ELSE <<>>
  BY InflateHas
<1>2. PICK o, k : o = op /\ k = ask.n /\ o = ask.op /\ o \in {"read", "skip"}
  BY DEF InflateInv, InflateCall
<1>3. PICK st2 : st2 = IF st = DataLoss THEN Failed ELSE st
  OBVIOUS
<1>4. /\ op' = "none"
      /\ Inflate!Reader!Answer(o, k, t, Inflate!Reader!Took(o, t), st2)
  <2>1. PICK d : d = IF op = "read" THEN result ELSE <<>>
    OBVIOUS
  <2>2. Inflate!Reply(ask, d, st)
    BY <2>1 DEF Inflate!Return
  <2>3. op' = "none" /\ Inflate!Reader!Answer(ask.op, ask.n, t, d, st2)
    BY <1>1, <1>3, <2>2, InflateAnswers
  <2> QED BY <1>1, <1>2, <2>1, <2>3
<1>5. InflateCall'
  BY <1>4 DEF InflateCall
<1>6. /\ k \in -1 .. MaxAsk /\ (o = "skip" => k # -1)
      /\ k = -1 => want \in Int /\ want < 0
      /\ k # -1 => want \in Nat /\ left \in Nat /\ k = (t - a) + want + left
  <2>1. CASE o = "read"
    BY <1>1, <1>2, <2>1, InflateParameters DEF InflateInv, InflateCall
  <2>2. CASE o = "skip"
    BY <1>1, <1>2, <2>2, InflateParameters DEF InflateInv, InflateCall
  <2> QED BY <1>2, <2>1, <2>2
<1>7. Inflate!Reader!End(a) = w /\ Len(Inflate!Text(0, Inflate!Whole)) = w
  BY <1>1, TextTaken DEF InflateInv
<1>8. ASSUME st \in {Failed, DataLoss}, want > 0
      PROVE  Inflate!Reader!TakeFails(o, k) /\ k >= 0
  <2>0. a <= t /\ t <= w
    BY <1>1
  <2>1. k >= 0 /\ t <= a + k
    <3>1. k # -1
      BY <1>6, <1>8
    <3>2. want \in Nat /\ left \in Nat /\ k = (t - a) + want + left
      BY <1>6, <3>1
    <3> QED BY <2>0, <3>2
  <2>2. t \in a .. Inflate!Reader!MinOf(a + k, Inflate!Reader!End(a))
    <3>1. k \in Int /\ Inflate!Reader!End(a) = w
      BY <1>6, <1>7
    <3> QED BY <2>0, <2>1, <3>1 DEF Inflate!Reader!MinOf
  <2>3. st2 = Failed
    BY <1>3, <1>8
  <2> QED BY <1>1, <1>4, <2>1, <2>2, <2>3 DEF Inflate!Reader!TakeFails
<1>9. ASSUME st = OutOfRange, want > 0, told = Inflate!Whole
      PROVE  Inflate!Reader!Take(o, k) /\ k >= 0
  <2>0. t = w /\ a <= t
    BY <1>1, <1>9
  <2>1. k \in Nat /\ k >= 0 /\ a + k > t
    BY <1>6, <1>9
  <2>2. Inflate!Reader!MaxOf(a, Inflate!Reader!MinOf(a + k, w)) = t /\ t # a + k
    BY <2>0, <2>1 DEF Inflate!Reader!MinOf, Inflate!Reader!MaxOf
  <2>3. st2 = OutOfRange
    BY <1>3, <1>9, InflateParameters
  <2> QED BY <1>1, <1>4, <1>7, <2>1, <2>2, <2>3 DEF Inflate!Reader!Take
<1>10. ASSUME st = OK, want <= 0, left = 0, k # -1
       PROVE  Inflate!Reader!Take(o, k) /\ k >= 0
  <2>0. t <= w /\ a <= t
    BY <1>1
  <2>1. k \in Nat /\ k >= 0 /\ a + k = t
    BY <1>6, <1>10
  <2>2. Inflate!Reader!MaxOf(a, Inflate!Reader!MinOf(a + k, w)) = t /\ t = a + k
    BY <2>0, <2>1 DEF Inflate!Reader!MinOf, Inflate!Reader!MaxOf
  <2>3. st2 = OK
    BY <1>3, <1>10, InflateParameters
  <2> QED BY <1>1, <1>4, <1>7, <2>1, <2>2, <2>3 DEF Inflate!Reader!Take
<1>11. ASSUME st = OK, k = -1 PROVE Inflate!ReadsCache
  <2>1. o = "read" /\ t \in a .. w
    BY <1>1, <1>2, <1>6, <1>11
  <2>2. Inflate!Reader!Took(o, t) = Inflate!Reader!Slice(a, t)
    BY <1>1, <2>1 DEF Inflate!Reader!Took
  <2>3. st2 = OK
    BY <1>3, <1>11, InflateParameters
  <2> QED BY <1>1, <1>4, <1>11, <2>1, <2>2, <2>3 DEF Inflate!ReadsCache
<1>12. Inflate!ReadsCache \/ (k >= 0 /\ (Inflate!Reader!Take(o, k) \/ Inflate!Reader!TakeFails(o, k)))
  BY <1>8, <1>9, <1>10, <1>11
<1>13. Inflate!ReaderStep
  BY <1>2, <1>6, <1>12 DEF Inflate!ReaderStep, Inflate!Reader!Reads
<1> QED BY <1>5, <1>13

\* What inflate takes of its input: bytes whose text there is room to begin.
LEMMA ConsumedIs ==
  ASSUME InflateInv, NEW h \in Nat, taken <= h, h <= Len(source)
  PROVE  /\ Inflate!Consumed(h) \in used .. h
         /\ \A v \in used .. Inflate!Consumed(h) - 1 :
              Inflate!Given[v] <= made + output_buffer_capacity_
<1> DEFINE S == {u \in used .. h : \A v \in used .. u - 1 :
                   ~ Inflate!Stopped(v) /\ Inflate!Given[v] <= made + output_buffer_capacity_}
<1>1. used \in Nat /\ used <= h
  BY InflateNumbers
<1>2. used \in S
  BY <1>1
<1>3. S \subseteq 0 .. h /\ S # {}
  BY <1>1, <1>2
<1>4. Inflate!Consumed(h) = Inflate!Max(S)
  BY DEF Inflate!Consumed
<1>5. Inflate!Max(S) \in S
  BY <1>3, Greatest
<1> QED BY <1>4, <1>5

\* inflate fills the output buffer anew when all in it has been read.
LEMMA InflateFills ==
  ASSUME InflateInv, op # "none", want > 0, NEW h \in Nat, taken <= h, h <= Len(source),
         Inflate!Inflate(h), source' = source
  PROVE  InflateInv' /\ (Inflate!ReaderStep \/ UNCHANGED Inflate!readerVars)
<1>1. PICK u \in Nat : /\ u = Inflate!Consumed(h) /\ used <= u /\ u <= h
                       /\ \A v \in used .. u - 1 :
                            Inflate!Given[v] <= made + output_buffer_capacity_
  BY ConsumedIs, InflateNumbers
<1>2. PICK c \in Nat, g \in Nat, p \in Nat, w \in Int :
        /\ c = output_buffer_capacity_ /\ g = Inflate!Given[u] /\ p = made /\ w = want
        /\ p <= g /\ g <= Inflate!Whole /\ told = p /\ w > 0
        /\ u > 0 => Inflate!Given[u - 1] <= p + c /\ Inflate!Given[u - 1] <= g
                    /\ (u = used => Inflate!Given[u - 1] <= p)
  <2>1. /\ u \in 0 .. Len(source) /\ used \in 0 .. Len(source) /\ Len(source) \in 0 .. Len(source)
        /\ u > 0 => u - 1 \in 0 .. Len(source)
    BY <1>1, InflateNumbers
  <2>2. /\ Inflate!Given[u] \in Nat /\ Inflate!Given[used] <= Inflate!Given[u]
        /\ Inflate!Given[used] \in Nat /\ Inflate!Given[u] <= Inflate!Whole
        /\ Inflate!Whole \in Nat
        /\ u > 0 => Inflate!Given[u - 1] \in Nat /\ Inflate!Given[u - 1] <= Inflate!Given[u]
    BY <1>1, <2>1, GivenFacts DEF InflateInv
  <2>3. made \in Nat /\ made <= Inflate!Given[used]
    BY InflateNumbers
  <2>4. told = made /\ want \in Int
    BY DEF InflateInv, InflateCall
  <2>5. u > 0 => Inflate!Given[u - 1] <= made + output_buffer_capacity_
                 /\ (u = used => Inflate!Given[u - 1] <= made)
    <3>1. ASSUME u = used, u > 0 PROVE Inflate!Given[u - 1] <= made
      BY <3>1 DEF InflateInv, InflatePlaces
    <3>2. ASSUME u # used, u > 0 PROVE u - 1 \in used .. u - 1
      BY <1>1, <3>2, InflateNumbers
    <3> QED BY <1>1, <2>2, <2>3, <3>1, <3>2, InflateParameters
  <2> QED BY <2>2, <2>3, <2>4, <2>5, InflateParameters
<1>3. PICK m \in Nat, k \in Nat :
        /\ m = Inflate!MinOf(p + c, g) /\ k = Inflate!MinOf(w, m - p)
        /\ p <= m /\ m <= g /\ p + k <= m /\ k <= w /\ (w - k > 0 => p + k = m)
        /\ u > 0 => Inflate!Given[u - 1] <= m
  <2>1. p <= g /\ w > 0
    BY <1>2
  <2>2. PICK m \in Nat, k \in Nat :
          /\ m = Inflate!MinOf(p + c, g) /\ k = Inflate!MinOf(w, m - p)
          /\ p <= m /\ m <= g /\ p + k <= m /\ k <= w /\ (w - k > 0 => p + k = m)
          /\ m = g \/ m = p + c
    <3>1. PICK m \in Nat : /\ m = Inflate!MinOf(p + c, g) /\ p <= m /\ m <= g
                           /\ m = g \/ m = p + c
      BY <2>1 DEF Inflate!MinOf
    <3>2. PICK k : k = Inflate!MinOf(w, m - p)
      OBVIOUS
    <3>3. k \in Nat /\ p + k <= m /\ k <= w /\ (w - k > 0 => p + k = m)
      BY <2>1, <3>1, <3>2 DEF Inflate!MinOf
    <3> QED BY <3>1, <3>2, <3>3
  <2>3. u > 0 => Inflate!Given[u - 1] <= m
    BY <1>2, <2>2
  <2> QED BY <2>2, <2>3
<1>4. /\ taken' = h /\ used' = u /\ made' = m
      /\ \/ Inflate!Corrupt(u) /\ told' = made /\ Inflate!Return(DataLoss)
         \/ /\ ~ Inflate!Corrupt(u)
            /\ told' = made + k /\ want' = want - k /\ result' = result \o Inflate!Text(made, k)
            /\ UNCHANGED <<op, ask, left, reply>>
  BY <1>1, <1>2, <1>3 DEF Inflate!Inflate
<1>5. SourceOK'
  BY DEF InflateInv, SourceOK, Counted
<1>6. told' \in p .. m
  BY <1>2, <1>3, <1>4
<1>7. InflatePlaces'
  <2>1. Inflate!Given' = Inflate!Given
    BY InflateSame
  <2>2. Inflate!Given'[u] = g /\ (u > 0 => Inflate!Given'[u - 1] <= m)
    BY <1>2, <1>3, <2>1
  <2>3. taken' \in 0 .. Len(source') /\ used' \in 0 .. taken'
    BY <1>1, <1>4, InflateNumbers
  <2>4. made' \in 0 .. Inflate!Given'[used'] /\ told' \in 0 .. made'
    BY <1>3, <1>4, <1>6, <2>2
  <2>5. used' > 0 => Inflate!Given'[used' - 1] <= made'
    BY <1>4, <2>2
  <2> QED BY <2>3, <2>4, <2>5 DEF InflatePlaces
<1>10. p <= m /\ p + k <= m /\ k <= w /\ (w - k > 0 => p + k = m)
  BY <1>3
<1>8. CASE Inflate!Corrupt(u) /\ told' = made /\ Inflate!Return(DataLoss)
  <2>1. told' = told
    BY <1>2, <1>8
  <2>2. InflateCall' /\ Inflate!ReaderStep
    BY <1>8, <2>1, InflateReturns
  <2> QED BY <1>5, <1>7, <2>2 DEF InflateInv
<1>9. CASE /\ told' = made + k /\ want' = want - k /\ result' = result \o Inflate!Text(made, k)
           /\ UNCHANGED <<op, ask, left, reply>>
  <2>1. PICK a \in Nat : a = ask.at /\ a <= p /\ ask.op = op
    BY <1>2 DEF InflateInv, InflateCall
  <2>2. told' = p + k /\ want' = w - k /\ made' = m /\ ask' = ask /\ op' = op /\ left' = left
    BY <1>2, <1>4, <1>9
  <2>3. ASSUME op = "read"
        PROVE  /\ left' = 0 /\ ask'.n \in -1 .. MaxAsk
               /\ result' = Inflate!Text(ask'.at, told' - ask'.at)
               /\ ask'.n = -1 => want' \in Int /\ want' < 0
               /\ ask'.n # -1 => want' \in Nat /\ ask'.n = (told' - ask'.at) + want'
    <3>1. /\ left = 0 /\ ask.n \in -1 .. MaxAsk /\ result = Inflate!Text(a, p - a)
          /\ ask.n # -1 /\ ask.n = (p - a) + w
      BY <1>2, <2>1, <2>3 DEF InflateInv, InflateCall
    <3>2. PICK d \in Nat : d = p - a /\ a + d = p /\ d + k = (p + k) - a
      <4>1. p - a \in Nat /\ a + (p - a) = p /\ (p - a) + k = (p + k) - a
        BY <2>1
      <4> QED BY <4>1
    <3>3. Inflate!Text(a, d) \o Inflate!Text(a + d, k) = Inflate!Text(a, d + k)
      BY TextJoins
    <3>4. result' = Inflate!Text(a, (p + k) - a)
      BY <1>2, <1>9, <3>1, <3>2, <3>3
    <3>5. w - k \in Nat /\ (p - a) + w = ((p + k) - a) + (w - k)
      BY <1>10
    <3> QED BY <2>1, <2>2, <3>1, <3>4, <3>5
  <2>4. ASSUME op = "skip"
        PROVE  /\ ask'.n \in 0 .. MaxAsk /\ want' \in Nat /\ left' \in Nat
               /\ ask'.n = (told' - ask'.at) + want' + left'
    <3>1. /\ left \in Nat /\ ask.n \in 0 .. MaxAsk /\ ask.n = (p - a) + w + left
      BY <1>2, <2>1, <2>4 DEF InflateInv, InflateCall
    <3>2. w - k \in Nat /\ (p - a) + w + left = ((p + k) - a) + (w - k) + left
      BY <1>10, <3>1
    <3> QED BY <2>1, <2>2, <3>1, <3>2
  <2>5. ask'.at \in 0 .. told' /\ (want' > 0 => told' = made')
    <3>1. a \in 0 .. p + k
      BY <2>1
    <3> QED BY <1>10, <2>1, <2>2, <3>1
  <2>6. InflateCall'
    <3>1. op' \in {"read", "skip"} /\ ask'.op = op'
      BY <2>1, <2>2 DEF InflateInv, InflateCall
    <3> QED BY <2>2, <2>3, <2>4, <2>5, <3>1 DEF InflateCall
  <2>7. UNCHANGED Inflate!readerVars
    <3>1. Inflate!offset' = Inflate!offset
      BY <2>2 DEF Inflate!offset
    <3> QED BY <1>9, <3>1, InflateStutters
  <2> QED BY <1>5, <1>7, <2>6, <2>7 DEF InflateInv
<1> QED BY <1>4, <1>8, <1>9

\* What is left in the output buffer is taken first.
LEMMA InflateTakes ==
  ASSUME InflateInv, NEW k \in Int, NEW r, Inflate!ReadChunk(k, r)
  PROVE  /\ SourceOK' /\ InflatePlaces'
         /\ UNCHANGED <<source, taken, used, made, reply>>
         /\ \E j \in Nat : /\ told' = told + j /\ told + j <= made /\ want' = k - j /\ left' = r
                           /\ result' = Inflate!Text(told, j)
                           /\ k >= 0 => j <= k
                           /\ k - j > 0 => told + j = made
<1>1. PICK p \in Nat, t \in Nat : p = made /\ t = told /\ t <= p
  BY InflateNumbers
<1>2. PICK j : j = IF k < 0 THEN p - t ELSE Inflate!MinOf(k, p - t)
  OBVIOUS
<1>3. j \in Nat /\ t + j <= p /\ (k >= 0 => j <= k) /\ (k - j > 0 => t + j = p)
  BY <1>1, <1>2 DEF Inflate!MinOf
<1>4. /\ result' = Inflate!Text(told, j) /\ told' = told + j
      /\ want' = k - j /\ left' = r
      /\ UNCHANGED <<source, taken, used, made, reply>>
  BY <1>1, <1>2 DEF Inflate!ReadChunk, Inflate!NumUnreadBytes
<1>5. SourceOK'
  BY <1>4 DEF InflateInv, SourceOK, Counted
<1>6. Inflate!Given' = Inflate!Given
  BY <1>4, InflateSame
<1>7. told' \in 0 .. made'
  BY <1>1, <1>3, <1>4
<1>8. InflatePlaces'
  BY <1>4, <1>6, <1>7 DEF InflateInv, InflatePlaces
<1> QED BY <1>1, <1>3, <1>4, <1>5, <1>8

LEMMA InflateBeginsRead ==
  ASSUME InflateInv, NEW k \in -1 .. MaxAsk, Inflate!ReadNBytes(k)
  PROVE  InflateInv' /\ UNCHANGED Inflate!readerVars
<1>1. /\ op = "none" /\ op' = "read" /\ ask' = [op |-> "read", n |-> k, at |-> told]
      /\ Inflate!ReadChunk(k, 0)
  BY DEF Inflate!ReadNBytes, Inflate!Begin
<1>2. k \in Int
  OBVIOUS
<1>3. SourceOK' /\ InflatePlaces' /\ UNCHANGED <<source, taken, used, made, reply>>
  BY <1>1, <1>2, InflateTakes
<1>4. PICK j \in Nat : /\ told' = told + j /\ told + j <= made /\ want' = k - j /\ left' = 0
                       /\ result' = Inflate!Text(told, j)
                       /\ k >= 0 => j <= k
                       /\ k - j > 0 => told + j = made
  BY <1>1, <1>2, InflateTakes
<1>5. PICK t \in Nat : t = told
  BY InflateNumbers
<1>6. told' - t = j /\ told' \in Nat /\ ask'.at = t /\ t \in 0 .. told'
  BY <1>1, <1>4, <1>5
<1>7. result' = Inflate!Text(ask'.at, told' - ask'.at)
  BY <1>4, <1>5, <1>6
<1>8. /\ k = -1 => want' \in Int /\ want' < 0
      /\ k # -1 => want' \in Nat /\ k = (told' - ask'.at) + want'
  BY <1>4, <1>6
<1>9. want' > 0 => told' = made'
  BY <1>3, <1>4
<1>10. InflateCall'
  BY <1>1, <1>4, <1>6, <1>7, <1>8, <1>9 DEF InflateCall
<1>11. Inflate!offset' = Inflate!offset
  BY <1>1 DEF Inflate!offset
<1> QED BY <1>3, <1>10, <1>11, InflateStutters DEF InflateInv

LEMMA InflateRefuses ==
  ASSUME InflateInv, NEW c, NEW st, st # DataLoss, op = "none",
         Inflate!Reply(c, <<>>, st), UNCHANGED <<source, taken, used, made, told>>
  PROVE  InflateInv' /\ Inflate!Reader!Answer(c.op, c.n, Inflate!offset, <<>>, st)
<1>1. op' = "none" /\ Inflate!Reader!Answer(c.op, c.n, told, <<>>, st)
  BY InflateAnswers
<1>2. Inflate!offset = told
  BY DEF Inflate!offset
<1>3. Inflate!Given' = Inflate!Given
  BY InflateSame
<1>4. SourceOK' /\ InflatePlaces'
  BY <1>3 DEF InflateInv, SourceOK, Counted, InflatePlaces
<1>5. InflateCall'
  BY <1>1 DEF InflateCall
<1> QED BY <1>1, <1>2, <1>4, <1>5 DEF InflateInv

LEMMA InflateBeginsSkip ==
  ASSUME InflateInv, NEW k \in -1 .. MaxAsk, Inflate!SkipNBytes(k)
  PROVE  InflateInv' /\ (Inflate!ReaderStep \/ UNCHANGED Inflate!readerVars)
<1>1. CASE k < 0
  <2>1. /\ op = "none" /\ Inflate!Reply([op |-> "skip", n |-> k], <<>>, Invalid)
        /\ UNCHANGED <<source, taken, used, made, told>>
    BY <1>1 DEF Inflate!SkipNBytes, Inflate!stream
  <2>2. PICK c : c = [op |-> "skip", n |-> k]
    OBVIOUS
  <2>3. InflateInv' /\ Inflate!Reader!Answer("skip", k, Inflate!offset, <<>>, Invalid)
    BY <2>1, <2>2, InflateRefuses, InflateParameters
  <2>4. Inflate!Reader!Reject("skip", k)
    BY <1>1, <2>3 DEF Inflate!Reader!Reject
  <2> QED BY <2>3, <2>4 DEF Inflate!ReaderStep, Inflate!Reader!Reads
<1>2. CASE ~ k < 0
  <2>1. PICK l, r : /\ l = Inflate!MinOf(k, kMaxSkipSize) /\ r = k - l
    OBVIOUS
  <2>2. /\ op = "none" /\ op' = "skip" /\ ask' = [op |-> "skip", n |-> k, at |-> told]
        /\ Inflate!ReadChunk(l, r)
    BY <1>2, <2>1 DEF Inflate!SkipNBytes, Inflate!Begin
  <2>3. l \in Nat /\ r \in Nat /\ l + r = k /\ k \in 0 .. MaxAsk
    BY <1>2, <2>1, InflateParameters DEF Inflate!MinOf
  <2>4. SourceOK' /\ InflatePlaces' /\ UNCHANGED <<source, taken, used, made, reply>>
    BY <2>2, <2>3, InflateTakes
  <2>5. PICK j \in Nat : /\ told' = told + j /\ told + j <= made /\ want' = l - j /\ left' = r
                         /\ j <= l /\ (l - j > 0 => told + j = made)
    BY <2>2, <2>3, InflateTakes
  <2>6. PICK t \in Nat : t = told
    BY InflateNumbers
  <2>7. /\ told' - t = j /\ told' \in Nat /\ ask'.at = t /\ t \in 0 .. told'
        /\ want' \in Nat /\ k = (told' - ask'.at) + want' + left'
    BY <2>2, <2>3, <2>5, <2>6
  <2>8. want' > 0 => told' = made'
    BY <2>4, <2>5
  <2>9. InflateCall'
    BY <2>2, <2>3, <2>5, <2>7, <2>8 DEF InflateCall
  <2>10. Inflate!offset' = Inflate!offset
    BY <2>2 DEF Inflate!offset
  <2> QED BY <2>4, <2>9, <2>10, InflateStutters DEF InflateInv
<1> QED BY <1>1, <1>2

LEMMA InflateRounds ==
  ASSUME InflateInv, op # "none", Inflate!Round
  PROVE  InflateInv' /\ (Inflate!ReaderStep \/ UNCHANGED Inflate!readerVars)
<1>1. want > 0 /\ source' = source
  BY DEF Inflate!Round
<1>2. CASE used < taken
  <2>1. Inflate!Inflate(taken)
    BY <1>2 DEF Inflate!Round
  <2> QED BY <1>1, <2>1, InflateFills, InflateNumbers
<1>3. CASE ~ used < taken
  <2>1. Inflate!ReadFromStream
    BY <1>3 DEF Inflate!Round
  <2>2. PICK v \in Nat : v = Inflate!Available /\ taken + v <= Len(source)
                         /\ (v = 0 => taken = Len(source))
    BY InflateNumbers, InflateParameters DEF Inflate!Available, Inflate!MinOf
  <2>3. CASE v > 0 /\ Inflate!Inflate(taken + v)
    <3>1. taken + v \in Nat /\ taken <= taken + v
      BY <2>2, InflateNumbers
    <3> QED BY <1>1, <2>2, <2>3, <3>1, InflateFills
  <2>4. CASE v = 0 /\ Inflate!Return(OutOfRange) /\ UNCHANGED Inflate!stream
    <3>1. used = Len(source) /\ used > 0
      BY <1>3, <2>2, <2>4, InflateNumbers DEF InflateInv, SourceOK
    <3>2. told = Inflate!Whole
      <4>1. Inflate!Given[Len(source) - 1] <= made
        BY <3>1 DEF InflateInv, InflatePlaces
      <4>2. Inflate!Given[Len(source) - 1] = Inflate!Whole
        BY GivenFacts DEF InflateInv
      <4>3. told = made
        BY <1>1 DEF InflateInv, InflateCall
      <4> QED BY <4>1, <4>2, <4>3, InflateNumbers
    <3>3. UNCHANGED <<source, taken, used, made, told>>
      BY <1>1, <2>4 DEF Inflate!stream
    <3>4. InflateCall' /\ Inflate!ReaderStep
      BY <1>1, <2>4, <3>2, <3>3, InflateReturns
    <3>5. Inflate!Given' = Inflate!Given
      BY <1>1, InflateSame
    <3>6. SourceOK' /\ InflatePlaces'
      BY <3>3, <3>5 DEF InflateInv, SourceOK, Counted, InflatePlaces
    <3> QED BY <3>4, <3>6 DEF InflateInv
  <2> QED BY <2>1, <2>2, <2>3, <2>4 DEF Inflate!ReadFromStream
<1> QED BY <1>2, <1>3

\* Nothing is inflated, and the call returns.
LEMMA InflateEnds ==
  ASSUME InflateInv, op # "none", NEW st, Inflate!Return(st), UNCHANGED <<source, Inflate!stream>>,
         \/ st \in {Failed, DataLoss} /\ want > 0
         \/ st = OK /\ want <= 0 /\ left = 0
  PROVE  InflateInv' /\ Inflate!ReaderStep
<1>1. UNCHANGED <<source, taken, used, made, told>>
  BY DEF Inflate!stream
<1>2. InflateCall' /\ Inflate!ReaderStep
  BY <1>1, InflateReturns
<1>3. Inflate!Given' = Inflate!Given
  BY <1>1, InflateSame
<1>4. SourceOK' /\ InflatePlaces'
  BY <1>1, <1>3 DEF InflateInv, SourceOK, Counted, InflatePlaces
<1> QED BY <1>2, <1>4 DEF InflateInv

LEMMA InflateFinishes ==
  ASSUME InflateInv, Inflate!Finish
  PROVE  InflateInv' /\ (Inflate!ReaderStep \/ UNCHANGED Inflate!readerVars)
<1>1. op # "none" /\ want <= 0
  BY DEF Inflate!Finish
<1>2. CASE left > 0
  <2>1. PICK l, r : l = Inflate!MinOf(left, kMaxSkipSize) /\ r = left - l
    OBVIOUS
  <2>2. Inflate!ReadChunk(l, r) /\ UNCHANGED <<op, ask>>
    BY <1>2, <2>1 DEF Inflate!Finish
  <2>3. PICK k \in Nat, a \in Nat, t \in Nat :
          /\ op = "skip" /\ left = k /\ a = ask.at /\ t = told /\ a <= t
          /\ ask.op = op /\ ask.n \in 0 .. MaxAsk /\ ask.n = (t - a) + 0 + k
    <3>1. op = "skip"
      BY <1>1, <1>2 DEF InflateInv, InflateCall
    <3>2. /\ want \in Nat /\ left \in Nat /\ ask.at \in 0 .. told /\ told \in Nat
          /\ ask.op = op /\ ask.n \in 0 .. MaxAsk /\ ask.n = (told - ask.at) + want + left
      BY <3>1, InflateNumbers DEF InflateInv, InflateCall
    <3>3. want = 0
      BY <1>1, <3>2
    <3>4. PICK t \in Nat : t = told
      BY <3>2
    <3>5. PICK a \in Nat : a = ask.at /\ a <= t
      BY <3>2, <3>4
    <3>6. PICK k \in Nat : k = left
      BY <3>2
    <3>7. ask.n = (t - a) + 0 + k
      BY <3>2, <3>3, <3>4, <3>5, <3>6
    <3> QED BY <3>1, <3>2, <3>4, <3>5, <3>6, <3>7
  <2>4. l \in Nat /\ r \in Nat /\ l + r = k
    BY <2>1, <2>3, InflateParameters DEF Inflate!MinOf
  <2>5. SourceOK' /\ InflatePlaces' /\ UNCHANGED <<source, taken, used, made, reply>>
    BY <2>2, <2>4, InflateTakes
  <2>6. PICK j \in Nat : /\ told' = told + j /\ told + j <= made /\ want' = l - j /\ left' = r
                         /\ j <= l /\ (l - j > 0 => told + j = made)
    BY <2>2, <2>4, InflateTakes
  <2>7. /\ told' = t + j /\ ask'.at = a /\ a \in 0 .. t + j
        /\ l - j \in Nat /\ (t - a) + 0 + k = ((t + j) - a) + (l - j) + r
    BY <2>2, <2>3, <2>4, <2>6
  <2>8. want' > 0 => told' = made'
    BY <2>5, <2>6
  <2>9. InflateCall'
    BY <2>2, <2>3, <2>4, <2>6, <2>7, <2>8 DEF InflateCall
  <2>10. Inflate!offset' = Inflate!offset
    BY <1>1, <2>2 DEF Inflate!offset
  <2> QED BY <2>5, <2>9, <2>10, InflateStutters DEF InflateInv
<1>3. CASE ~ left > 0
  <2>1. Inflate!Return(OK) /\ UNCHANGED <<source, Inflate!stream>>
    BY <1>3 DEF Inflate!Finish
  <2>2. left = 0
    <3>1. op = "read" \/ op = "skip"
      BY <1>1 DEF InflateInv, InflateCall
    <3> QED BY <1>3, <3>1 DEF InflateInv, InflateCall
  <2> QED BY <1>1, <2>1, <2>2, InflateEnds
<1> QED BY <1>2, <1>3

LEMMA InflateFailsToRead ==
  ASSUME InflateInv, op # "none", Inflate!ReadFails
  PROVE  InflateInv' /\ Inflate!ReaderStep
<1>1. want > 0 /\ Inflate!Return(Failed) /\ UNCHANGED <<source, Inflate!stream>>
  BY DEF Inflate!ReadFails
<1> QED BY <1>1, InflateEnds

LEMMA InflateResets ==
  ASSUME InflateInv, Inflate!Reset
  PROVE  InflateInv' /\ Inflate!ReaderStep
<1>1. PICK c : c = [op |-> "reset", n |-> 0]
  OBVIOUS
<1>2. /\ Inflate!Reply(c, <<>>, OK) /\ source' = source
      /\ taken' = 0 /\ used' = 0 /\ made' = 0 /\ told' = 0
  BY <1>1 DEF Inflate!Reset
<1>3. op' = "none" /\ Inflate!Reader!Answer("reset", 0, 0, <<>>, OK)
  BY <1>1, <1>2, InflateAnswers, InflateParameters
<1>4. SourceOK' /\ InflateCall'
  BY <1>2, <1>3 DEF InflateInv, SourceOK, Counted, InflateCall
<1>5. InflatePlaces'
  <2>1. Inflate!Given'[0] = 0
    BY <1>2, InflateSame, GivenFacts DEF InflateInv
  <2>2. Len(source') \in Nat
    BY <1>2, InflateNumbers
  <2> QED BY <1>2, <2>1, <2>2 DEF InflatePlaces
<1> QED BY <1>3, <1>4, <1>5 DEF InflateInv, Inflate!ReaderStep, Inflate!Reader!Reset

\* Between calls nothing is wanted.
WantsOnlyInCall == op = "none" => want = 0

LEMMA InflateMoves ==
  ASSUME InflateInv, WantsOnlyInCall, [Inflate!Next]_(Inflate!vars)
  PROVE  InflateInv' /\ WantsOnlyInCall' /\ [Inflate!ReaderStep]_(Inflate!readerVars)
<1>1. CASE UNCHANGED Inflate!vars
  <2>1. UNCHANGED <<source, taken, used, made, told, op, ask, want, left, result, reply>>
    BY <1>1 DEF Inflate!vars, Inflate!stream, Inflate!call
  <2>2. Inflate!Given' = Inflate!Given
    BY <2>1, InflateSame
  <2>3. InflateInv'
    BY <2>1, <2>2 DEF InflateInv, SourceOK, Counted, InflatePlaces, InflateCall
  <2>4. Inflate!offset' = Inflate!offset
    BY <2>1 DEF Inflate!offset
  <2> QED BY <2>1, <2>3, <2>4, InflateStutters DEF WantsOnlyInCall
<1>2. CASE Inflate!Next
  <2>1. WantsOnlyInCall'
    BY <1>2 DEF Inflate!Next, WantsOnlyInCall, Inflate!ReadNBytes, Inflate!SkipNBytes,
       Inflate!Begin, Inflate!Reply, Inflate!Reset, Inflate!Loop, Inflate!Round, Inflate!Finish,
       Inflate!ReadFails, Inflate!Return, Inflate!Inflate, Inflate!ReadFromStream
  <2>2. op # "none" \/ ~ (Inflate!Round \/ Inflate!ReadFails)
    BY DEF WantsOnlyInCall, Inflate!Round, Inflate!ReadFails
  <2>3. InflateInv' /\ (Inflate!ReaderStep \/ UNCHANGED Inflate!readerVars)
    BY <1>2, <2>2, InflateBeginsRead, InflateBeginsSkip, InflateRounds, InflateFinishes,
       InflateFailsToRead, InflateResets DEF Inflate!Next, Inflate!Loop
  <2> QED BY <2>1, <2>3
<1> QED BY <1>1, <1>2

LEMMA InflateStart ==
  ASSUME source \in Inflate!Sources, Inflate!InitStream
  PROVE  InflateInv /\ WantsOnlyInCall /\ Inflate!Reader!Init
<1>1. SourceOK
  BY SourcesOK
<1>2. Inflate!Given[0] = 0 /\ Len(source) \in Nat /\ Inflate!Whole \in Nat
  BY <1>1, GivenFacts DEF SourceOK
<1>3. InflatePlaces
  BY <1>2 DEF InflatePlaces, Inflate!InitStream
<1>4. InflateCall /\ WantsOnlyInCall
  BY DEF InflateCall, WantsOnlyInCall, Inflate!InitStream
<1>5. Inflate!Text(0, Inflate!Whole) \in Seq(Nat)
  BY <1>2 DEF Inflate!Text
<1>6. Inflate!offset = 0
  BY DEF Inflate!offset, Inflate!InitStream
<1>7. (IF reply.status = DataLoss THEN [reply EXCEPT !.status = Failed] ELSE reply)
        = [op |-> "none", n |-> 0, data |-> <<>>, status |-> OK]
  BY InflateParameters DEF Inflate!InitStream
<1> QED BY <1>1, <1>3, <1>4, <1>5, <1>6, <1>7 DEF InflateInv, Inflate!Reader!Init

MCInflateInv == Is("ZlibInputStream") => InflateInv /\ WantsOnlyInCall

LEMMA MCInflateMoves ==
  ASSUME MCInflateInv, [MCNext]_MCvars
  PROVE  /\ MCInflateInv'
         /\ [Is("ZlibInputStream") => Inflate!ReaderStep]_(Inflate!readerVars)
<1>1. which' = which
  BY DEF MCNext, Only, MCvars
<1>2. CASE Is("ZlibInputStream")
  <2>1. [Inflate!Next]_(Inflate!vars)
    <3>1. CASE MCNext
      BY <1>2, <3>1 DEF MCNext, Only, Is
    <3>2. CASE UNCHANGED MCvars
      BY <3>2 DEF MCvars, vars, call, packed, Inflate!vars, Inflate!stream, Inflate!call
    <3> QED BY <3>1, <3>2
  <2>2. InflateInv' /\ WantsOnlyInCall' /\ [Inflate!ReaderStep]_(Inflate!readerVars)
    BY <1>2, <2>1, InflateMoves DEF MCInflateInv
  <2> QED BY <2>2 DEF MCInflateInv
<1>3. CASE ~ Is("ZlibInputStream")
  BY <1>1, <1>3 DEF MCInflateInv, Is
<1> QED BY <1>2, <1>3

(* A ZlibInputStream over whole, damaged or cut data in a format with a    *)
(* trailer reads the text that the data holds as a reader with one         *)
(* position would, for buffers of any size and whatever reads of the file  *)
(* fail: no byte is lost, repeated or missing at the end.                  *)
THEOREM InflateReads == MCSpec => InflateIsReader
<1>1. MCInit => (Is("ZlibInputStream") => Inflate!Reader!Init) /\ MCInflateInv
  <2> SUFFICES ASSUME MCInit, Is("ZlibInputStream")
               PROVE  Inflate!Reader!Init /\ InflateInv /\ WantsOnlyInCall
    BY DEF MCInflateInv
  <2>1. source \in Inflate!Sources /\ Inflate!InitStream
    BY DEF MCInit
  <2> QED BY <2>1, InflateStart
<1>2. MCInflateInv /\ [MCNext]_MCvars
      => MCInflateInv' /\ [Is("ZlibInputStream") => Inflate!ReaderStep]_(Inflate!readerVars)
  BY MCInflateMoves
<1> QED BY <1>1, <1>2, PTL DEF MCSpec, InflateIsReader

=============================================================================
