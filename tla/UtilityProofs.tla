---------------------------- MODULE UtilityProofs ----------------------------
(***************************************************************************)
(* Theorems about the containers and utilities of MCSequential, for every  *)
(* size and every sequence of calls:                                       *)
(*   - the pieces that an Arena has handed out lie in blocks it has and    *)
(*     apart from each other;                                              *)
(*   - an InlinedVector holds what a sequence treated likewise would;      *)
(*   - a Bitmap finds the first unset bit;                                 *)
(*   - a DistributionSampler draws each item as often as its weight says.  *)
(***************************************************************************)
EXTENDS MCSequential, SequenceTheorems, FiniteSetTheorems, TLAPS

LEMMA LeastNatural ==
  ASSUME NEW T, T \subseteq Nat, T # {}
  PROVE  \E x \in T : \A y \in T : x <= y
<1> DEFINE R == {p \in Nat \X Nat : p[1] < p[2]}
<1>1. IsWellFoundedOn(R, Nat)
  BY NatLessThanWellFounded DEF OpToRel
<1>2. PICK x \in T : \A y \in T : ~ (<<y, x>> \in R)
  BY <1>1, WFMin
<1>3. ASSUME NEW y \in T PROVE x <= y
  <2>1. ~ (<<y, x>> \in R)
    BY <1>2
  <2> QED BY <2>1
<1> QED BY <1>3

-----------------------------------------------------------------------------
(* The arena.                                                              *)

Blocks(q) == Pieces!ToSet(q)

LEMMA BlocksOf ==
  ASSUME NEW q \in Seq(Nat)
  PROVE  /\ Blocks(q) \subseteq Nat
         /\ \A i \in 1 .. Len(q) : q[i] \in Blocks(q)
         /\ \A b \in Blocks(q) : \E i \in 1 .. Len(q) : q[i] = b
BY DEF Blocks, Pieces!ToSet

LEMMA BlocksJoined ==
  ASSUME NEW q \in Seq(Nat), NEW r \in Seq(Nat)
  PROVE  /\ Blocks(q \o r) = Blocks(q) \cup Blocks(r)
         /\ Pieces!IsInjective(q) /\ Pieces!IsInjective(r) /\ Blocks(q) \cap Blocks(r) = {}
              => Pieces!IsInjective(q \o r)
<1> DEFINE w == q \o r
<1>1. /\ w \in Seq(Nat) /\ Len(w) = Len(q) + Len(r)
      /\ Len(q) \in Nat /\ Len(r) \in Nat
      /\ DOMAIN q = 1 .. Len(q) /\ DOMAIN r = 1 .. Len(r) /\ DOMAIN w = 1 .. Len(w)
      /\ \A i \in 1 .. Len(q) : w[i] = q[i]
      /\ \A i \in 1 .. Len(r) : w[Len(q) + i] = r[i]
  OBVIOUS
<1> HIDE DEF w
<1>0. ASSUME NEW i \in 1 .. Len(w), i > Len(q)
      PROVE  i - Len(q) \in 1 .. Len(r) /\ w[i] = r[i - Len(q)]
  <2>1. i - Len(q) \in 1 .. Len(r) /\ Len(q) + (i - Len(q)) = i
    BY <1>1, <1>0
  <2> QED BY <1>1, <2>1
<1>2. ASSUME NEW b \in Blocks(w) PROVE b \in Blocks(q) \cup Blocks(r)
  <2>1. PICK i \in 1 .. Len(w) : w[i] = b
    BY <1>1, BlocksOf
  <2>2. CASE i <= Len(q)
    BY <1>1, <2>1, <2>2, BlocksOf
  <2>3. CASE i > Len(q)
    BY <1>0, <2>1, <2>3, BlocksOf
  <2> QED BY <1>1, <2>2, <2>3
<1>3. ASSUME NEW b \in Blocks(q) PROVE b \in Blocks(w)
  <2>1. PICK i \in 1 .. Len(q) : q[i] = b
    BY BlocksOf
  <2>2. i \in 1 .. Len(w) /\ w[i] = b
    BY <1>1, <2>1
  <2> QED BY <1>1, <2>2, BlocksOf
<1>4. ASSUME NEW b \in Blocks(r) PROVE b \in Blocks(w)
  <2>1. PICK i \in 1 .. Len(r) : r[i] = b
    BY BlocksOf
  <2>2. Len(q) + i \in 1 .. Len(w) /\ w[Len(q) + i] = b
    BY <1>1, <2>1
  <2> QED BY <1>1, <2>2, BlocksOf
<1>5. ASSUME Pieces!IsInjective(q), Pieces!IsInjective(r), Blocks(q) \cap Blocks(r) = {},
             NEW i \in 1 .. Len(w), NEW j \in 1 .. Len(w), w[i] = w[j]
      PROVE  i = j
  <2>1. CASE i <= Len(q) /\ j <= Len(q)
    <3>1. i \in 1 .. Len(q) /\ j \in 1 .. Len(q) /\ q[i] = q[j]
      BY <1>1, <1>5, <2>1
    <3> QED BY <1>1, <1>5, <3>1 DEF Pieces!IsInjective
  <2>2. CASE i > Len(q) /\ j > Len(q)
    <3>1. i - Len(q) \in 1 .. Len(r) /\ j - Len(q) \in 1 .. Len(r)
      BY <1>0, <2>2
    <3>2. r[i - Len(q)] = r[j - Len(q)]
      BY <1>0, <1>5, <2>2
    <3>3. i - Len(q) = j - Len(q)
      BY <1>1, <1>5, <3>1, <3>2 DEF Pieces!IsInjective
    <3> QED BY <3>3
  <2>3. CASE i <= Len(q) /\ j > Len(q)
    <3>1. j - Len(q) \in 1 .. Len(r) /\ q[i] = r[j - Len(q)] /\ i \in 1 .. Len(q)
      BY <1>0, <1>1, <1>5, <2>3
    <3>2. q[i] \in Blocks(q) /\ r[j - Len(q)] \in Blocks(r)
      BY <3>1, BlocksOf
    <3> QED BY <1>5, <3>1, <3>2
  <2>4. CASE i > Len(q) /\ j <= Len(q)
    <3>1. i - Len(q) \in 1 .. Len(r) /\ q[j] = r[i - Len(q)] /\ j \in 1 .. Len(q)
      BY <1>0, <1>1, <1>5, <2>4
    <3>2. q[j] \in Blocks(q) /\ r[i - Len(q)] \in Blocks(r)
      BY <3>1, BlocksOf
    <3> QED BY <1>5, <3>1, <3>2
  <2> QED BY <2>1, <2>2, <2>3, <2>4
<1>6. Blocks(w) = Blocks(q) \cup Blocks(r)
  BY <1>2, <1>3, <1>4
<1>7. Pieces!IsInjective(q) /\ Pieces!IsInjective(r) /\ Blocks(q) \cap Blocks(r) = {}
        => Pieces!IsInjective(w)
  BY <1>1, <1>5 DEF Pieces!IsInjective
<1> QED BY <1>6, <1>7 DEF w

LEMMA BlocksMore ==
  ASSUME NEW q \in Seq(Nat), NEW b \in Nat
  PROVE  /\ Append(q, b) \in Seq(Nat) /\ Append(q, b) # <<>>
         /\ q # <<>> => Head(Append(q, b)) = Head(q)
         /\ Blocks(Append(q, b)) = Blocks(q) \cup {b}
         /\ Pieces!IsInjective(q) /\ b \notin Blocks(q) => Pieces!IsInjective(Append(q, b))
<1> DEFINE w == Append(q, b)
<1>1. /\ w \in Seq(Nat) /\ Len(w) = Len(q) + 1
      /\ \A i \in 1 .. Len(q) : w[i] = q[i]
      /\ w[Len(q) + 1] = b
  OBVIOUS
<1>2. q # <<>> => Head(w) = Head(q)
  OBVIOUS
<1> HIDE DEF w
<1>3. w # <<>>
  BY <1>1
<1>4. Blocks(w) = Blocks(q) \cup {b}
  <2>1. ASSUME NEW c \in Blocks(w) PROVE c \in Blocks(q) \cup {b}
    <3>1. PICK i \in 1 .. Len(w) : w[i] = c
      BY <1>1, BlocksOf
    <3>2. i \in 1 .. Len(q) \/ i = Len(q) + 1
      BY <1>1
    <3> QED BY <1>1, <3>1, <3>2, BlocksOf
  <2>2. ASSUME NEW c \in Blocks(q) PROVE c \in Blocks(w)
    <3>1. PICK i \in 1 .. Len(q) : q[i] = c
      BY BlocksOf
    <3>2. i \in 1 .. Len(w) /\ w[i] = c
      BY <1>1, <3>1
    <3> QED BY <1>1, <3>2, BlocksOf
  <2>3. b \in Blocks(w)
    <3>1. Len(q) + 1 \in 1 .. Len(w)
      BY <1>1
    <3> QED BY <1>1, <3>1, BlocksOf
  <2> QED BY <2>1, <2>2, <2>3
<1>5. ASSUME Pieces!IsInjective(q), b \notin Blocks(q),
             NEW i \in 1 .. Len(w), NEW j \in 1 .. Len(w), w[i] = w[j]
      PROVE  i = j
  <2>1. \A k \in 1 .. Len(q) : q[k] \in Blocks(q) /\ w[k] = q[k]
    BY <1>1, BlocksOf
  <2>2. (i \in 1 .. Len(q) \/ i = Len(q) + 1) /\ (j \in 1 .. Len(q) \/ j = Len(q) + 1)
    BY <1>1
  <2>3. CASE i \in 1 .. Len(q) /\ j \in 1 .. Len(q)
    <3>1. q[i] = q[j] /\ i \in DOMAIN q /\ j \in DOMAIN q
      BY <1>5, <2>1, <2>3
    <3> QED BY <1>5, <3>1 DEF Pieces!IsInjective
  <2>4. \A k \in 1 .. Len(q) : w[k] # b
    BY <1>5, <2>1
  <2>5. CASE i = Len(q) + 1
    BY <1>1, <1>5, <2>2, <2>4, <2>5
  <2>6. CASE j = Len(q) + 1
    BY <1>1, <1>5, <2>2, <2>4, <2>6
  <2> QED BY <2>2, <2>3, <2>5, <2>6
<1>6. Pieces!IsInjective(q) /\ b \notin Blocks(q) => Pieces!IsInjective(w)
  BY <1>1, <1>5 DEF Pieces!IsInjective
<1> QED BY <1>1, <1>2, <1>3, <1>4, <1>6 DEF w

LEMMA BlocksTail ==
  ASSUME NEW q \in Seq(Nat), q # <<>>, Pieces!IsInjective(q)
  PROVE  /\ Tail(q) \in Seq(Nat) /\ Head(q) \in Blocks(q)
         /\ Blocks(Tail(q)) = Blocks(q) \ {Head(q)}
<1> DEFINE w == Tail(q)
<1>1. /\ w \in Seq(Nat) /\ Len(w) = Len(q) - 1 /\ Len(q) >= 1 /\ Head(q) = q[1]
      /\ \A i \in 1 .. Len(w) : w[i] = q[i + 1]
  OBVIOUS
<1> HIDE DEF w
<1>2. Head(q) \in Blocks(q)
  BY <1>1, BlocksOf
<1>3. ASSUME NEW b \in Blocks(w) PROVE b \in Blocks(q) \ {Head(q)}
  <2>1. PICK i \in 1 .. Len(w) : w[i] = b
    BY <1>1, BlocksOf
  <2>2. i + 1 \in 1 .. Len(q) /\ q[i + 1] = b /\ 1 \in 1 .. Len(q) /\ i + 1 # 1
    BY <1>1, <2>1
  <2>3. q[i + 1] # q[1]
    BY <2>2 DEF Pieces!IsInjective
  <2> QED BY <1>1, <2>2, <2>3, BlocksOf
<1>4. ASSUME NEW b \in Blocks(q) \ {Head(q)} PROVE b \in Blocks(w)
  <2>1. PICK i \in 1 .. Len(q) : q[i] = b
    BY BlocksOf
  <2>2. i - 1 \in 1 .. Len(w) /\ w[i - 1] = b
    BY <1>1, <1>4, <2>1
  <2> QED BY <1>1, <2>2, BlocksOf
<1> QED BY <1>1, <1>2, <1>3, <1>4 DEF w
LEMMA BlocksOne ==
  ASSUME NEW b \in Nat
  PROVE  /\ <<b>> \in Seq(Nat) /\ <<b>> # <<>> /\ Head(<<b>>) = b
         /\ Blocks(<<b>>) = {b} /\ Pieces!IsInjective(<<b>>)
         /\ Blocks(<<>>) = {} /\ Pieces!IsInjective(<<>>) /\ <<>> \in Seq(Nat)
<1>1. /\ <<b>> \in Seq(Nat) /\ <<b>> # <<>> /\ Head(<<b>>) = b
      /\ DOMAIN <<b>> = {1} /\ <<b>>[1] = b
  OBVIOUS
<1>2. DOMAIN <<>> = {} /\ <<>> \in Seq(Nat)
  OBVIOUS
<1>3. Blocks(<<b>>) = {b} /\ Pieces!IsInjective(<<b>>)
  BY <1>1 DEF Blocks, Pieces!ToSet, Pieces!IsInjective
<1>4. Blocks(<<>>) = {} /\ Pieces!IsInjective(<<>>)
  BY <1>2, Zenon DEF Blocks, Pieces!ToSet, Pieces!IsInjective
<1> QED BY <1>1, <1>2, <1>3, <1>4

Fits(p) == p.block \in DOMAIN heap /\ p.at + p.size <= heap[p.block]
FreeSpace == [block |-> freestart_.block, at |-> freestart_.at, size |-> remaining_]
SomePiece == [block : Nat, at : Nat, size : Nat]

\* Each block is owned once, and the first one is as large as Reset takes it to be.
HeapOK ==
  /\ DOMAIN heap \subseteq Nat /\ \A b \in DOMAIN heap : heap[b] \in Nat
  /\ first_blocks_ \in Seq(Nat) /\ Pieces!IsInjective(first_blocks_)
  /\ overflow_blocks_ \in Seq(Nat) /\ Pieces!IsInjective(overflow_blocks_)
  /\ Blocks(first_blocks_) \cup Blocks(overflow_blocks_) = DOMAIN heap
  /\ Blocks(first_blocks_) \cap Blocks(overflow_blocks_) = {}
  /\ first_blocks_ # <<>> => heap[Head(first_blocks_)] = block_size_

\* There is a block left for malloc.
CountOK == IsFiniteSet(DOMAIN heap) /\ Cardinality(DOMAIN heap) <= Len(pieces) + 1

PiecesOK ==
  /\ pieces \in Seq(SomePiece)
  /\ \A i \in 1 .. Len(pieces) : Fits(pieces[i])
  /\ \A i, j \in 1 .. Len(pieces) : i # j => Pieces!Apart(pieces[i], pieces[j])

FreeOK ==
  /\ freestart_ \in [block : Nat, at : Nat] /\ remaining_ \in 0 .. block_size_
  /\ first_blocks_ # <<>> =>
       Fits(FreeSpace) /\ \A i \in 1 .. Len(pieces) : Pieces!Apart(pieces[i], FreeSpace)

EndedOK == first_blocks_ = <<>> => overflow_blocks_ = <<>> /\ pieces = <<>>

ArenaInv == HeapOK /\ CountOK /\ PiecesOK /\ FreeOK /\ EndedOK

LEMMA ArenaFacts ==
  /\ block_size_ \in Nat /\ block_size_ > 8 /\ Sizes \subseteq Nat /\ MaxPieces \in Nat
BY MCSequentialAssumption DEF Pieces!ArenaAssumption

LEMMA ApartBothWays ==
  ASSUME NEW p, NEW q, Pieces!Apart(p, q)
  PROVE  Pieces!Apart(q, p)
BY DEF Pieces!Apart

\* What was apart from some space is apart from each part of it.
LEMMA ApartFromPart ==
  ASSUME NEW p \in SomePiece, NEW q \in SomePiece, NEW r \in SomePiece,
         Pieces!Apart(p, q), r.block = q.block,
         q.at <= r.at, r.at + r.size <= q.at + q.size
  PROVE  Pieces!Apart(p, r)
<1>1. Pieces!Inside(r) \subseteq Pieces!Inside(q)
  BY DEF Pieces!Inside, SomePiece
<1> QED BY <1>1 DEF Pieces!Apart

LEMMA ArenaMeans == ArenaInv => Pieces!PiecesApart
<1> SUFFICES ASSUME ArenaInv PROVE Pieces!PiecesApart
  OBVIOUS
<1> DEFINE free == FreeSpace
           joined == Append(pieces, free)
           owned == first_blocks_ \o overflow_blocks_
<1>1. Pieces!ToSet(owned) = DOMAIN heap /\ Pieces!IsInjective(owned)
  BY BlocksJoined DEF ArenaInv, HeapOK, Blocks
<1>2. remaining_ <= block_size_
  BY DEF ArenaInv, FreeOK
<1>3. CASE first_blocks_ = <<>>
  <2>1. pieces = <<>> /\ DOMAIN pieces = {}
    BY <1>3 DEF ArenaInv, EndedOK
  <2> HIDE DEF owned
  <2>2. /\ \A i \in DOMAIN pieces :
             pieces[i].block \in DOMAIN heap /\ pieces[i].at + pieces[i].size <= heap[pieces[i].block]
        /\ \A i, j \in DOMAIN pieces : i # j => Pieces!Apart(pieces[i], pieces[j])
    BY <2>1
  <2> QED BY <1>1, <1>2, <1>3, <2>2 DEF Pieces!PiecesApart, owned
<1>4. CASE first_blocks_ # <<>>
  <2>1. /\ pieces \in Seq(SomePiece) /\ free \in SomePiece /\ Fits(free)
        /\ \A i \in 1 .. Len(pieces) : Fits(pieces[i]) /\ Pieces!Apart(pieces[i], free)
        /\ \A i, j \in 1 .. Len(pieces) : i # j => Pieces!Apart(pieces[i], pieces[j])
    BY <1>4, ArenaFacts DEF ArenaInv, PiecesOK, FreeOK, FreeSpace, SomePiece
  <2> HIDE DEF free
  <2>2. /\ DOMAIN joined = 1 .. Len(pieces) + 1 /\ Len(pieces) \in Nat
        /\ \A i \in 1 .. Len(pieces) : joined[i] = pieces[i]
        /\ joined[Len(pieces) + 1] = free
    BY <2>1
  <2> HIDE DEF joined
  <2>3. \A i \in DOMAIN joined : i \in 1 .. Len(pieces) \/ i = Len(pieces) + 1
    BY <2>2
  <2>4. ASSUME NEW i \in DOMAIN joined PROVE Fits(joined[i])
    BY <2>1, <2>2, <2>3
  <2>5. ASSUME NEW i \in DOMAIN joined, NEW j \in DOMAIN joined, i # j
        PROVE  Pieces!Apart(joined[i], joined[j])
    <3>1. CASE i \in 1 .. Len(pieces) /\ j \in 1 .. Len(pieces)
      BY <2>1, <2>2, <2>5, <3>1
    <3>2. CASE i \in 1 .. Len(pieces) /\ j = Len(pieces) + 1
      BY <2>1, <2>2, <3>2
    <3>3. CASE j \in 1 .. Len(pieces) /\ i = Len(pieces) + 1
      <4>1. Pieces!Apart(joined[j], joined[i])
        BY <2>1, <2>2, <3>3
      <4> QED BY <4>1, ApartBothWays
    <3> QED BY <2>3, <2>5, <3>1, <3>2, <3>3
  <2> HIDE DEF owned
  <2>6. \A i \in DOMAIN joined :
          joined[i].block \in DOMAIN heap /\ joined[i].at + joined[i].size <= heap[joined[i].block]
    BY <2>4 DEF Fits
  <2>7. \A i, j \in DOMAIN joined : i # j => Pieces!Apart(joined[i], joined[j])
    BY <2>5
  <2> QED BY <1>1, <1>2, <1>4, <2>6, <2>7 DEF Pieces!PiecesApart, owned, joined, free, FreeSpace
<1> QED BY <1>3, <1>4

LEMMA ArenaStart == Pieces!Init => ArenaInv
<1> SUFFICES ASSUME Pieces!Init PROVE ArenaInv
  OBVIOUS
<1> USE ArenaFacts
<1>1. /\ DOMAIN heap = {1} /\ heap[1] = block_size_
      /\ first_blocks_ = <<1>> /\ overflow_blocks_ = <<>> /\ pieces = <<>>
      /\ freestart_ = [block |-> 1, at |-> 0] /\ remaining_ = block_size_
  BY DEF Pieces!Init, Pieces!InBlock
<1>2. HeapOK
  BY <1>1, BlocksOne DEF HeapOK
<1>3. IsFiniteSet({1}) /\ Cardinality({1}) = 1
  BY FS_Singleton
<1>4. CountOK
  BY <1>1, <1>3 DEF CountOK
<1>5. PiecesOK /\ EndedOK
  BY <1>1, BlocksOne DEF PiecesOK, EndedOK
<1>6. FreeOK
  BY <1>1 DEF FreeOK, FreeSpace, Fits
<1> QED BY <1>2, <1>4, <1>5, <1>6 DEF ArenaInv

\* malloc has a block, which nobody has.
LEMMA FreshIsNew ==
  ASSUME ArenaInv, Len(pieces) < MaxPieces
  PROVE  Pieces!Fresh \in Nat /\ Pieces!Fresh \notin DOMAIN heap
<1> USE ArenaFacts
<1> DEFINE T == (1 .. MaxPieces + 1) \ DOMAIN heap
<1>1. /\ IsFiniteSet(1 .. MaxPieces + 1) /\ Cardinality(1 .. MaxPieces + 1) = MaxPieces + 1
  BY FS_Interval
<1>2. /\ IsFiniteSet(DOMAIN heap) /\ Cardinality(DOMAIN heap) <= Len(pieces) + 1
      /\ Cardinality(DOMAIN heap) \in Nat /\ Len(pieces) \in Nat
  BY FS_CardinalityType DEF ArenaInv, CountOK, PiecesOK
<1>3. T # {}
  <2> SUFFICES ASSUME T = {} PROVE FALSE
    OBVIOUS
  <2>1. 1 .. MaxPieces + 1 \in SUBSET DOMAIN heap
    OBVIOUS
  <2>2. Cardinality(1 .. MaxPieces + 1) <= Cardinality(DOMAIN heap)
    BY <1>2, <2>1, FS_Subset
  <2> HIDE DEF T
  <2> QED BY <1>1, <1>2, <2>2
<1>4. T \subseteq Nat
  OBVIOUS
<1>5. \E x \in T : \A y \in T : x <= y
  BY <1>3, <1>4, LeastNatural
<1>6. Pieces!Fresh \in T
  BY <1>5, Zenon DEF Pieces!Fresh, Pieces!Min
<1> QED BY <1>4, <1>6
LEMMA AddBlock ==
  ASSUME ArenaInv, first_blocks_ # <<>>, Len(pieces) < MaxPieces,
         NEW k \in Nat, Pieces!AllocNewBlock(k)
  PROVE  /\ HeapOK' /\ first_blocks_' # <<>>
         /\ IsFiniteSet(DOMAIN heap') /\ Cardinality(DOMAIN heap') <= Len(pieces) + 2
         /\ DOMAIN heap' = DOMAIN heap \cup {Pieces!Fresh}
         /\ heap'[Pieces!Fresh] = k /\ \A b \in DOMAIN heap : heap'[b] = heap[b]
<1> DEFINE fresh == Pieces!Fresh
<1>1. fresh \in Nat /\ fresh \notin DOMAIN heap
  BY FreshIsNew
<1> HIDE DEF fresh
<1>2. /\ heap' = [b \in DOMAIN heap \cup {fresh} |-> IF b = fresh THEN k ELSE heap[b]]
      /\ \/ first_blocks_' = Append(first_blocks_, fresh) /\ overflow_blocks_' = overflow_blocks_
         \/ overflow_blocks_' = Append(overflow_blocks_, fresh) /\ first_blocks_' = first_blocks_
  BY DEF Pieces!AllocNewBlock, fresh
<1>3. /\ DOMAIN heap' = DOMAIN heap \cup {fresh} /\ heap'[fresh] = k
      /\ \A b \in DOMAIN heap : heap'[b] = heap[b]
  BY <1>1, <1>2
<1>4. Blocks(first_blocks_) \subseteq DOMAIN heap /\ Blocks(overflow_blocks_) \subseteq DOMAIN heap
  BY DEF ArenaInv, HeapOK
<1>5. Head(first_blocks_) \in DOMAIN heap /\ heap[Head(first_blocks_)] = block_size_
  <2>1. Head(first_blocks_) \in Blocks(first_blocks_)
    BY BlocksTail DEF ArenaInv, HeapOK
  <2> QED BY <1>4, <2>1 DEF ArenaInv, HeapOK
<1>6. /\ first_blocks_' # <<>> /\ heap'[Head(first_blocks_')] = block_size_
      /\ first_blocks_' \in Seq(Nat) /\ Pieces!IsInjective(first_blocks_')
      /\ overflow_blocks_' \in Seq(Nat) /\ Pieces!IsInjective(overflow_blocks_')
      /\ Blocks(first_blocks_') \cup Blocks(overflow_blocks_') = DOMAIN heap \cup {fresh}
      /\ Blocks(first_blocks_') \cap Blocks(overflow_blocks_') = {}
  <2>1. CASE first_blocks_' = Append(first_blocks_, fresh) /\ overflow_blocks_' = overflow_blocks_
    <3>1. /\ first_blocks_ \in Seq(Nat) /\ fresh \notin Blocks(first_blocks_)
          /\ fresh \notin Blocks(overflow_blocks_)
      BY <1>1, <1>4 DEF ArenaInv, HeapOK
    <3>2. /\ first_blocks_' \in Seq(Nat) /\ first_blocks_' # <<>>
          /\ Head(first_blocks_') = Head(first_blocks_)
          /\ Blocks(first_blocks_') = Blocks(first_blocks_) \cup {fresh}
          /\ Pieces!IsInjective(first_blocks_')
      BY <1>1, <2>1, <3>1, BlocksMore DEF ArenaInv, HeapOK
    <3> QED BY <1>3, <1>5, <2>1, <3>1, <3>2 DEF ArenaInv, HeapOK
  <2>2. CASE overflow_blocks_' = Append(overflow_blocks_, fresh) /\ first_blocks_' = first_blocks_
    <3>1. /\ overflow_blocks_ \in Seq(Nat) /\ fresh \notin Blocks(first_blocks_)
          /\ fresh \notin Blocks(overflow_blocks_)
      BY <1>1, <1>4 DEF ArenaInv, HeapOK
    <3>2. /\ overflow_blocks_' \in Seq(Nat)
          /\ Blocks(overflow_blocks_') = Blocks(overflow_blocks_) \cup {fresh}
          /\ Pieces!IsInjective(overflow_blocks_')
      BY <1>1, <2>2, <3>1, BlocksMore DEF ArenaInv, HeapOK
    <3> QED BY <1>3, <1>5, <2>2, <3>1, <3>2 DEF ArenaInv, HeapOK
  <2> QED BY <1>2, <2>1, <2>2
<1>7. /\ DOMAIN heap' \subseteq Nat /\ \A b \in DOMAIN heap' : heap'[b] \in Nat
  BY <1>1, <1>3 DEF ArenaInv, HeapOK
<1>8. HeapOK'
  BY <1>3, <1>6, <1>7 DEF HeapOK
<1>9. IsFiniteSet(DOMAIN heap') /\ Cardinality(DOMAIN heap') <= Len(pieces) + 2
  <2>1. IsFiniteSet(DOMAIN heap) /\ Cardinality(DOMAIN heap) <= Len(pieces) + 1
    BY DEF ArenaInv, CountOK
  <2>2. /\ IsFiniteSet(DOMAIN heap \cup {fresh}) /\ Cardinality(DOMAIN heap) \in Nat
        /\ Cardinality(DOMAIN heap \cup {fresh}) = Cardinality(DOMAIN heap) + 1
    BY <1>1, <2>1, FS_AddElement, FS_CardinalityType
  <2>3. Len(pieces) \in Nat
    BY DEF ArenaInv, PiecesOK
  <2> QED BY <1>3, <2>1, <2>2, <2>3
<1> QED BY <1>3, <1>6, <1>8, <1>9 DEF fresh

\* A piece is handed out that is apart from the others.
LEMMA GivePiece ==
  ASSUME ArenaInv, DOMAIN heap \subseteq DOMAIN heap', \A b \in DOMAIN heap : heap'[b] = heap[b],
         NEW p \in SomePiece, p.block \in DOMAIN heap', p.at + p.size <= heap'[p.block],
         \A i \in 1 .. Len(pieces) : Pieces!Apart(pieces[i], p),
         pieces' = Append(pieces, p)
  PROVE  PiecesOK' /\ Len(pieces') = Len(pieces) + 1
<1>1. /\ pieces \in Seq(SomePiece) /\ Len(pieces) \in Nat
      /\ \A i \in 1 .. Len(pieces) : Fits(pieces[i])
      /\ \A i, j \in 1 .. Len(pieces) : i # j => Pieces!Apart(pieces[i], pieces[j])
  BY DEF ArenaInv, PiecesOK
<1>2. /\ pieces' \in Seq(SomePiece) /\ Len(pieces') = Len(pieces) + 1
      /\ \A i \in 1 .. Len(pieces) : pieces'[i] = pieces[i]
      /\ pieces'[Len(pieces) + 1] = p
  BY <1>1
<1>3. \A i \in 1 .. Len(pieces') : i \in 1 .. Len(pieces) \/ i = Len(pieces) + 1
  BY <1>1, <1>2
<1>4. ASSUME NEW i \in 1 .. Len(pieces')
      PROVE  pieces'[i].block \in DOMAIN heap' /\ pieces'[i].at + pieces'[i].size <= heap'[pieces'[i].block]
  <2>1. CASE i \in 1 .. Len(pieces)
    <3>1. pieces'[i] = pieces[i] /\ Fits(pieces[i])
      BY <1>1, <1>2, <2>1
    <3> QED BY <3>1 DEF Fits
  <2>2. CASE i = Len(pieces) + 1
    BY <1>2, <2>2
  <2> QED BY <1>3, <2>1, <2>2
<1>5. ASSUME NEW i \in 1 .. Len(pieces'), NEW j \in 1 .. Len(pieces'), i # j
      PROVE  Pieces!Apart(pieces'[i], pieces'[j])
  <2>1. CASE i \in 1 .. Len(pieces) /\ j \in 1 .. Len(pieces)
    BY <1>1, <1>2, <1>5, <2>1
  <2>2. CASE i \in 1 .. Len(pieces) /\ j = Len(pieces) + 1
    BY <1>2, <2>2
  <2>3. CASE j \in 1 .. Len(pieces) /\ i = Len(pieces) + 1
    BY <1>2, <2>3, ApartBothWays
  <2> QED BY <1>3, <1>5, <2>1, <2>2, <2>3
<1>6. \A i \in 1 .. Len(pieces') : Fits(pieces[i])'
  BY <1>4 DEF Fits
<1> QED BY <1>2, <1>5, <1>6 DEF PiecesOK

\* The next bytes of the free space.
LEMMA TakeFree ==
  ASSUME ArenaInv, first_blocks_ # <<>>, NEW k \in Nat, 0 < k, k <= remaining_,
         Pieces!TakeFrom(freestart_, remaining_, k), UNCHANGED Pieces!blocks
  PROVE  ArenaInv'
<1> USE ArenaFacts
<1> DEFINE p == [block |-> freestart_.block, at |-> freestart_.at, size |-> k]
<1>1. /\ pieces' = Append(pieces, p) /\ freestart_' = [freestart_ EXCEPT !.at = @ + k]
      /\ remaining_' = remaining_ - k
      /\ heap' = heap /\ first_blocks_' = first_blocks_ /\ overflow_blocks_' = overflow_blocks_
  BY DEF Pieces!TakeFrom, Pieces!Give, Pieces!blocks
<1>2. /\ freestart_ \in [block : Nat, at : Nat] /\ remaining_ \in 0 .. block_size_
      /\ FreeSpace \in SomePiece /\ Fits(FreeSpace)
      /\ \A i \in 1 .. Len(pieces) : Pieces!Apart(pieces[i], FreeSpace) /\ pieces[i] \in SomePiece
  <2>1. freestart_ \in [block : Nat, at : Nat] /\ remaining_ \in 0 .. block_size_
    BY DEF ArenaInv, FreeOK
  <2>2. FreeSpace \in SomePiece
    BY <2>1 DEF FreeSpace, SomePiece
  <2>3. /\ pieces \in Seq(SomePiece) /\ Fits(FreeSpace)
        /\ \A i \in 1 .. Len(pieces) : Pieces!Apart(pieces[i], FreeSpace)
    BY DEF ArenaInv, FreeOK, PiecesOK
  <2> QED BY <2>1, <2>2, <2>3
<1>3. p \in SomePiece
  BY <1>2 DEF SomePiece
<1>4. p.block \in DOMAIN heap /\ p.at + p.size <= heap[p.block]
  BY <1>2 DEF FreeSpace, Fits, ArenaInv, HeapOK
<1>5. \A i \in 1 .. Len(pieces) : Pieces!Apart(pieces[i], p)
  <2>1. p.block = FreeSpace.block /\ FreeSpace.at <= p.at
        /\ p.at + p.size <= FreeSpace.at + FreeSpace.size
    BY <1>2 DEF FreeSpace
  <2> HIDE DEF p
  <2> QED BY <1>2, <1>3, <2>1, ApartFromPart
<1>6. PiecesOK' /\ Len(pieces') = Len(pieces) + 1
  <2> HIDE DEF p
  <2> QED BY <1>1, <1>3, <1>4, <1>5, GivePiece
<1> DEFINE f == FreeSpace'
<1>7. f = [block |-> freestart_.block, at |-> freestart_.at + k, size |-> remaining_ - k]
  BY <1>1, <1>2 DEF FreeSpace
<1>8. f \in SomePiece /\ f.block = FreeSpace.block /\ FreeSpace.at <= f.at
      /\ f.at + f.size <= FreeSpace.at + FreeSpace.size
  BY <1>2, <1>7 DEF SomePiece, FreeSpace
<1>9. Pieces!Apart(p, f)
  BY <1>2, <1>7 DEF Pieces!Apart, Pieces!Inside
<1>10. \A i \in 1 .. Len(pieces') : Pieces!Apart(pieces'[i], f)
  <2> HIDE DEF f, p
  <2>1. \A i \in 1 .. Len(pieces) : Pieces!Apart(pieces[i], f)
    BY <1>2, <1>8, ApartFromPart
  <2>2. /\ \A i \in 1 .. Len(pieces) : pieces'[i] = pieces[i]
        /\ pieces'[Len(pieces) + 1] = p /\ Len(pieces) \in Nat
    BY <1>1, <1>3 DEF ArenaInv, PiecesOK
  <2>3. \A i \in 1 .. Len(pieces') : i \in 1 .. Len(pieces) \/ i = Len(pieces) + 1
    BY <1>6, <2>2
  <2> QED BY <1>9, <2>1, <2>2, <2>3
<1>11. f.block \in DOMAIN heap /\ f.at + f.size <= heap[f.block]
  <2>1. freestart_.block \in DOMAIN heap /\ freestart_.at + remaining_ <= heap[freestart_.block]
    BY <1>2 DEF FreeSpace, Fits
  <2>2. f.block = freestart_.block /\ f.at + f.size = freestart_.at + remaining_
    BY <1>2, <1>7
  <2> QED BY <2>1, <2>2
<1>12. freestart_' \in [block : Nat, at : Nat] /\ remaining_' \in 0 .. block_size_
  BY <1>1, <1>2
<1>13. FreeOK'
  <2>1. Fits(FreeSpace)'
    BY <1>1, <1>11 DEF Fits
  <2> QED BY <1>10, <1>12, <2>1 DEF FreeOK
<1>14. HeapOK'
  BY <1>1 DEF ArenaInv, HeapOK
<1>15. CountOK'
  <2>1. Len(pieces) \in Nat /\ IsFiniteSet(DOMAIN heap) /\ Cardinality(DOMAIN heap) \in Nat
        /\ Cardinality(DOMAIN heap) <= Len(pieces) + 1
    BY FS_CardinalityType DEF ArenaInv, PiecesOK, CountOK
  <2> QED BY <1>1, <1>6, <2>1 DEF CountOK
<1>16. EndedOK'
  BY <1>1 DEF EndedOK
<1> QED BY <1>6, <1>13, <1>14, <1>15, <1>16 DEF ArenaInv

\* A new block, with the piece at its start; the free space is what is left of
\* the new block, or the old one.
LEMMA TakeNew ==
  ASSUME ArenaInv, first_blocks_ # <<>>, Len(pieces) < MaxPieces, NEW k \in Nat, 0 < k,
         \/ /\ Pieces!AllocNewBlock(k) /\ Pieces!Give(Pieces!InBlock(Pieces!Fresh, 0), k)
            /\ UNCHANGED <<freestart_, remaining_>>
         \/ /\ k <= block_size_ /\ Pieces!AllocNewBlock(block_size_)
            /\ Pieces!TakeFrom(Pieces!InBlock(Pieces!Fresh, 0), block_size_, k)
  PROVE  ArenaInv'
<1> USE ArenaFacts
<1> DEFINE fresh == Pieces!Fresh
           p == [block |-> fresh, at |-> 0, size |-> k]
           f == FreeSpace'
<1>1. fresh \in Nat /\ fresh \notin DOMAIN heap
  BY FreshIsNew
<1>2. PICK size \in Nat : Pieces!AllocNewBlock(size) /\ k <= size
  OBVIOUS
<1>3. /\ HeapOK' /\ first_blocks_' # <<>>
      /\ IsFiniteSet(DOMAIN heap') /\ Cardinality(DOMAIN heap') <= Len(pieces) + 2
      /\ DOMAIN heap' = DOMAIN heap \cup {fresh}
      /\ heap'[fresh] = size /\ \A b \in DOMAIN heap : heap'[b] = heap[b]
  BY <1>2, AddBlock
<1>4. pieces' = Append(pieces, p)
  BY DEF Pieces!Give, Pieces!TakeFrom, Pieces!InBlock
<1> HIDE DEF fresh
<1>5. p \in SomePiece /\ p.block \in DOMAIN heap' /\ p.at + p.size <= heap'[p.block]
  BY <1>1, <1>2, <1>3 DEF SomePiece
<1>6. /\ Len(pieces) \in Nat
      /\ \A i \in 1 .. Len(pieces) : pieces[i].block \in DOMAIN heap /\ pieces[i] \in SomePiece
  BY DEF ArenaInv, PiecesOK, Fits
<1>7. \A i \in 1 .. Len(pieces) : Pieces!Apart(pieces[i], p)
  BY <1>1, <1>6 DEF Pieces!Apart
<1>8. PiecesOK' /\ Len(pieces') = Len(pieces) + 1
  <2> HIDE DEF p
  <2> QED BY <1>3, <1>4, <1>5, <1>7, GivePiece
<1>9. CountOK'
  BY <1>3, <1>6, <1>8 DEF CountOK
<1>10. EndedOK'
  BY <1>3 DEF EndedOK
<1>11. \A i \in 1 .. Len(pieces') :
         pieces'[i] = p \/ (i \in 1 .. Len(pieces) /\ pieces'[i] = pieces[i])
  <2> HIDE DEF p
  <2>1. /\ \A i \in 1 .. Len(pieces) : pieces'[i] = pieces[i]
        /\ pieces'[Len(pieces) + 1] = p
    BY <1>4, <1>5 DEF ArenaInv, PiecesOK
  <2>2. \A i \in 1 .. Len(pieces') : i \in 1 .. Len(pieces) \/ i = Len(pieces) + 1
    BY <1>6, <1>8
  <2> QED BY <2>1, <2>2
<1>12. CASE UNCHANGED <<freestart_, remaining_>>
  <2>1. /\ freestart_ \in [block : Nat, at : Nat] /\ remaining_ \in 0 .. block_size_
        /\ f = FreeSpace /\ Fits(FreeSpace)
        /\ \A i \in 1 .. Len(pieces) : Pieces!Apart(pieces[i], FreeSpace)
    BY <1>12 DEF ArenaInv, FreeOK, FreeSpace
  <2>2. f.block \in DOMAIN heap
    BY <2>1 DEF Fits
  <2>3. Pieces!Apart(p, f)
    BY <1>1, <2>2 DEF Pieces!Apart
  <2>4. Fits(FreeSpace)'
    BY <1>3, <2>1, <2>2 DEF Fits
  <2>5. \A i \in 1 .. Len(pieces') : Pieces!Apart(pieces'[i], f)
    <3> HIDE DEF f, p
    <3> QED BY <1>11, <2>1, <2>3
  <2> QED BY <1>3, <1>8, <1>9, <1>10, <1>12, <2>1, <2>4, <2>5 DEF ArenaInv, FreeOK
<1>13. CASE Pieces!AllocNewBlock(block_size_) /\ k <= block_size_
            /\ Pieces!TakeFrom(Pieces!InBlock(Pieces!Fresh, 0), block_size_, k)
  <2>1. /\ freestart_' = [block |-> fresh, at |-> k] /\ remaining_' = block_size_ - k
    BY <1>13 DEF Pieces!TakeFrom, Pieces!InBlock, fresh
  <2>2. f = [block |-> fresh, at |-> k, size |-> block_size_ - k]
    BY <2>1 DEF FreeSpace
  <2>3. heap'[fresh] = block_size_
    BY <1>13, AddBlock DEF fresh
  <2>4. Fits(FreeSpace)'
    BY <1>3, <1>13, <2>2, <2>3 DEF Fits
  <2>5. Pieces!Apart(p, f) /\ \A i \in 1 .. Len(pieces) : Pieces!Apart(pieces[i], f)
    BY <1>1, <1>6, <2>2 DEF Pieces!Apart, Pieces!Inside
  <2>6. \A i \in 1 .. Len(pieces') : Pieces!Apart(pieces'[i], f)
    <3> HIDE DEF f, p
    <3> QED BY <1>11, <2>5
  <2>7. freestart_' \in [block : Nat, at : Nat] /\ remaining_' \in 0 .. block_size_
    BY <1>1, <1>13, <2>1
  <2> QED BY <1>3, <1>8, <1>9, <1>10, <2>4, <2>6, <2>7 DEF ArenaInv, FreeOK
<1> QED BY <1>12, <1>13

LEMMA ArenaReset ==
  ASSUME ArenaInv, Pieces!Reset
  PROVE  ArenaInv'
<1> USE ArenaFacts
<1> DEFINE b == Head(first_blocks_)
           gone == Blocks(Tail(first_blocks_) \o overflow_blocks_)
<1>1. /\ first_blocks_ # <<>> /\ heap' = Pieces!Restrict(heap, DOMAIN heap \ gone)
      /\ first_blocks_' = <<b>> /\ overflow_blocks_' = <<>> /\ pieces' = <<>>
      /\ freestart_' = [block |-> b, at |-> 0] /\ remaining_' = heap[b]
  BY DEF Pieces!Reset, Pieces!FreeBlocks, Pieces!InBlock, Blocks
<1>2. /\ b \in Blocks(first_blocks_) /\ Tail(first_blocks_) \in Seq(Nat)
      /\ Blocks(Tail(first_blocks_)) = Blocks(first_blocks_) \ {b}
  BY <1>1, BlocksTail DEF ArenaInv, HeapOK
<1>3. gone = (Blocks(first_blocks_) \ {b}) \cup Blocks(overflow_blocks_)
  BY <1>2, BlocksJoined DEF ArenaInv, HeapOK
<1>4. b \in Nat /\ DOMAIN heap \ gone = {b} /\ heap[b] = block_size_
  <2> HIDE DEF gone
  <2>1. DOMAIN heap \ gone = {b}
    BY <1>2, <1>3 DEF ArenaInv, HeapOK
  <2> QED BY <1>1, <1>2, <2>1 DEF ArenaInv, HeapOK
<1> HIDE DEF b, gone
<1>5. DOMAIN heap' = {b} /\ heap'[b] = block_size_
  BY <1>1, <1>4 DEF Pieces!Restrict
<1>6. HeapOK'
  <2>1. /\ first_blocks_' \in Seq(Nat) /\ Pieces!IsInjective(first_blocks_')
        /\ overflow_blocks_' \in Seq(Nat) /\ Pieces!IsInjective(overflow_blocks_')
        /\ Blocks(first_blocks_') = {b} /\ Blocks(overflow_blocks_') = {}
        /\ Head(first_blocks_') = b
    BY <1>1, <1>4, BlocksOne
  <2> QED BY <1>4, <1>5, <2>1 DEF HeapOK
<1>7. CountOK'
  <2>1. IsFiniteSet({b}) /\ Cardinality({b}) = 1
    BY FS_Singleton
  <2> QED BY <1>1, <1>5, <2>1 DEF CountOK
<1>8. PiecesOK' /\ EndedOK'
  BY <1>1, BlocksOne, <1>4 DEF PiecesOK, EndedOK
<1>9. FreeOK'
  <2>1. FreeSpace' = [block |-> b, at |-> 0, size |-> block_size_]
    BY <1>1, <1>4 DEF FreeSpace
  <2> QED BY <1>1, <1>4, <1>5, <2>1 DEF FreeOK, Fits
<1> QED BY <1>6, <1>7, <1>8, <1>9 DEF ArenaInv

LEMMA ArenaDestroyed ==
  ASSUME ArenaInv, Pieces!Destroy
  PROVE  ArenaInv'
<1> USE ArenaFacts
<1> DEFINE gone == Blocks(first_blocks_ \o overflow_blocks_)
<1>1. /\ first_blocks_ # <<>> /\ heap' = Pieces!Restrict(heap, DOMAIN heap \ gone)
      /\ first_blocks_' = <<>> /\ overflow_blocks_' = <<>> /\ pieces' = <<>>
      /\ freestart_' = freestart_ /\ remaining_' = remaining_
  BY DEF Pieces!Destroy, Blocks
<1>2. DOMAIN heap \ gone = {}
  BY BlocksJoined DEF ArenaInv, HeapOK
<1> HIDE DEF gone
<1>3. DOMAIN heap' = {}
  BY <1>1, <1>2 DEF Pieces!Restrict
<1>4. HeapOK'
  BY <1>1, <1>3, BlocksOne DEF HeapOK
<1>5. CountOK'
  BY <1>1, <1>3, FS_EmptySet DEF CountOK
<1>6. PiecesOK' /\ EndedOK'
  BY <1>1 DEF PiecesOK, EndedOK
<1>7. FreeOK'
  BY <1>1 DEF ArenaInv, FreeOK
<1> QED BY <1>4, <1>5, <1>6, <1>7 DEF ArenaInv

LEMMA ArenaStep == ArenaInv /\ [Pieces!Next]_arena => ArenaInv'
<1> SUFFICES ASSUME ArenaInv, [Pieces!Next]_arena PROVE ArenaInv'
  OBVIOUS
<1> USE ArenaFacts
<1>1. CASE UNCHANGED arena
  BY <1>1 DEF arena, ArenaInv, HeapOK, CountOK, PiecesOK, FreeOK, EndedOK, Fits, FreeSpace
<1>2. CASE Pieces!Reset
  BY <1>2, ArenaReset
<1>3. CASE Pieces!Destroy
  BY <1>3, ArenaDestroyed
<1>4. ASSUME NEW k \in Sizes, Pieces!Alloc(k) PROVE ArenaInv'
  <2>0. /\ k \in Nat /\ first_blocks_ # <<>> /\ Len(pieces) < MaxPieces
        /\ remaining_ \in Nat /\ block_size_ \div 4 <= block_size_
    BY <1>4 DEF Pieces!Alloc, ArenaInv, FreeOK
  <2>1. CASE UNCHANGED Pieces!vars
    BY <1>1, <2>1 DEF Pieces!vars, arena
  <2>2. CASE /\ 0 < k /\ k <= remaining_ /\ Pieces!TakeFrom(freestart_, remaining_, k)
             /\ UNCHANGED Pieces!blocks
    BY <2>0, <2>2, TakeFree
  <2>3. CASE /\ 0 < k /\ Pieces!AllocNewBlock(k) /\ Pieces!Give(Pieces!InBlock(Pieces!Fresh, 0), k)
             /\ UNCHANGED <<freestart_, remaining_>>
    BY <2>0, <2>3, TakeNew
  <2>4. CASE /\ 0 < k /\ k <= block_size_ /\ Pieces!AllocNewBlock(block_size_)
             /\ Pieces!TakeFrom(Pieces!InBlock(Pieces!Fresh, 0), block_size_, k)
    BY <2>0, <2>4, TakeNew
  <2> QED BY <1>4, <2>0, <2>1, <2>2, <2>3, <2>4 DEF Pieces!Alloc
<1> QED BY <1>1, <1>2, <1>3, <1>4 DEF Pieces!Next

-----------------------------------------------------------------------------
(* The powers of two.                                                      *)

\* The first k + 1 of them.
Doubled(g, k) == g \in [0 .. k -> Nat] /\ g[0] = 1 /\ \A i \in 1 .. k : g[i] = 2 * g[i - 1]

LEMMA DoubledExist == \A k \in Nat : \E g : Doubled(g, k)
<1> DEFINE T == {k \in Nat : ~ \E g : Doubled(g, k)}
<1> SUFFICES ASSUME T # {} PROVE FALSE
  OBVIOUS
<1>1. PICK k \in T : \A j \in T : k <= j
  BY LeastNatural
<1>2. CASE k = 0
  <2>1. Doubled([i \in 0 .. 0 |-> 1], 0)
    BY DEF Doubled
  <2> QED BY <1>1, <1>2, <2>1
<1>3. CASE k # 0
  <2>1. k - 1 \in Nat /\ k - 1 \notin T
    BY <1>1, <1>3
  <2>2. PICK g : Doubled(g, k - 1)
    BY <2>1
  <2> DEFINE h == [i \in 0 .. k |-> IF i = k THEN 2 * g[k - 1] ELSE g[i]]
  <2>3. \A i \in 0 .. k - 1 : g[i] \in Nat /\ h[i] = g[i]
    BY <2>1, <2>2 DEF Doubled
  <2>4. h[k] = 2 * g[k - 1] /\ k - 1 \in 0 .. k - 1
    BY <2>1, <1>3
  <2>5. h \in [0 .. k -> Nat]
    <3>1. ASSUME NEW i \in 0 .. k PROVE h[i] \in Nat
      <4>1. i = k \/ i \in 0 .. k - 1
        OBVIOUS
      <4>2. 2 * g[k - 1] \in Nat
        <5> HIDE DEF h
        <5>1. g[k - 1] \in Nat
          BY <2>3, <2>4
        <5> QED BY <5>1
      <4> HIDE DEF h
      <4> QED BY <2>3, <2>4, <4>1, <4>2
    <3>2. DOMAIN h = 0 .. k /\ h = [i \in 0 .. k |-> h[i]]
      OBVIOUS
    <3> HIDE DEF h
    <3> QED BY <3>1, <3>2
  <2>6. h[0] = 1
    BY <1>3, <2>1, <2>2, <2>3 DEF Doubled
  <2>7. ASSUME NEW i \in 1 .. k PROVE h[i] = 2 * h[i - 1]
    <3>1. i - 1 \in 0 .. k - 1
      BY <1>3
    <3>2. CASE i = k
      BY <2>3, <2>4, <3>1, <3>2
    <3>3. CASE i # k
      BY <2>2, <2>3, <3>1, <3>3 DEF Doubled
    <3> QED BY <3>2, <3>3
  <2>8. Doubled(h, k)
    BY <2>5, <2>6, <2>7 DEF Doubled
  <2> QED BY <1>1, <2>8
<1> QED BY <1>2, <1>3

LEMMA DoubledAgree ==
  ASSUME NEW k \in Nat, NEW l \in Nat, NEW g, NEW h, Doubled(g, k), Doubled(h, l),
         NEW i \in Nat, i <= k, i <= l
  PROVE  g[i] = h[i]
<1> DEFINE T == {j \in Nat : j <= k /\ j <= l /\ g[j] # h[j]}
<1> SUFFICES ASSUME T # {} PROVE FALSE
  OBVIOUS
<1>1. PICK j \in T : \A y \in T : j <= y
  BY LeastNatural
<1>2. j # 0
  BY <1>1 DEF Doubled
<1>3. j - 1 \in Nat /\ j - 1 \notin T /\ j \in 1 .. k /\ j \in 1 .. l
  BY <1>1, <1>2
<1>4. g[j - 1] = h[j - 1]
  BY <1>3
<1> QED BY <1>1, <1>3, <1>4 DEF Doubled

LEMMA PowerIs ==
  /\ Vectors!Power[0] = 1
  /\ \A k \in Nat : Vectors!Power[k] \in Nat /\ Vectors!Power[k + 1] = 2 * Vectors!Power[k]
<1> DEFINE H(k) == CHOOSE g : Doubled(g, k)
           G == [k \in Nat |-> H(k)[k]]
<1>1. \A k \in Nat : Doubled(H(k), k)
  BY DoubledExist
<1> HIDE DEF H
<1>2. \A k \in Nat : H(k)[k] \in Nat /\ H(0)[0] = 1
  BY <1>1 DEF Doubled
<1>3. ASSUME NEW k \in Nat, k # 0 PROVE H(k)[k] = 2 * H(k - 1)[k - 1]
  <2>1. k - 1 \in Nat /\ k - 1 <= k
    BY <1>3
  <2>2. Doubled(H(k), k) /\ Doubled(H(k - 1), k - 1)
    BY <1>1, <2>1
  <2>3. H(k)[k - 1] = H(k - 1)[k - 1]
    BY <2>1, <2>2, DoubledAgree
  <2>4. H(k)[k] = 2 * H(k)[k - 1]
    BY <1>3, <2>2 DEF Doubled
  <2> QED BY <2>3, <2>4
<1>4. G = [k \in Nat |-> IF k = 0 THEN 1 ELSE 2 * G[k - 1]]
  <2>1. ASSUME NEW k \in Nat PROVE H(k)[k] = IF k = 0 THEN 1 ELSE 2 * G[k - 1]
    <3>1. CASE k = 0
      BY <1>2, <3>1
    <3>2. CASE k # 0
      <4>1. k - 1 \in Nat
        BY <3>2
      <4>2. G[k - 1] = H(k - 1)[k - 1]
        BY <4>1
      <4> HIDE DEF G
      <4> QED BY <1>3, <3>2, <4>2
    <3> QED BY <3>1, <3>2
  <2>2. [k \in Nat |-> H(k)[k]] = [k \in Nat |-> IF k = 0 THEN 1 ELSE 2 * G[k - 1]]
    <3> HIDE DEF G
    <3> QED BY <2>1
  <2> QED BY <2>2
<1> HIDE DEF G
<1> DEFINE P == Vectors!Power
<1>5. P = [k \in Nat |-> IF k = 0 THEN 1 ELSE 2 * P[k - 1]]
  <2>1. P = CHOOSE g : g = [k \in Nat |-> IF k = 0 THEN 1 ELSE 2 * g[k - 1]]
    BY DEF Vectors!Power
  <2> HIDE DEF P
  <2> QED BY <1>4, <2>1
<1> HIDE DEF P
<1>6. P[0] = 1 /\ \A k \in Nat : P[k + 1] = 2 * P[k]
  <2>1. ASSUME NEW k \in Nat PROVE P[k] = IF k = 0 THEN 1 ELSE 2 * P[k - 1]
    BY <1>5
  <2>2. P[0] = 1
    BY <2>1
  <2>3. ASSUME NEW k \in Nat PROVE P[k + 1] = 2 * P[k]
    <3>1. k + 1 \in Nat /\ k + 1 # 0 /\ (k + 1) - 1 = k
      OBVIOUS
    <3> QED BY <2>1, <3>1
  <2> QED BY <2>2, <2>3
<1> DEFINE T == {k \in Nat : P[k] \notin Nat}
<1>7. T = {}
  <2> SUFFICES ASSUME T # {} PROVE FALSE
    OBVIOUS
  <2>1. PICK k \in T : \A y \in T : k <= y
    BY LeastNatural
  <2>2. k # 0
    BY <1>6, <2>1
  <2>3. k - 1 \in Nat /\ k - 1 \notin T /\ (k - 1) + 1 = k
    BY <2>1, <2>2
  <2>4. P[k - 1] \in Nat /\ P[k] = 2 * P[k - 1]
    BY <1>6, <2>3
  <2> QED BY <2>1, <2>4
<1> QED BY <1>6, <1>7 DEF P

LEMMA PowerGrows == \A k \in Nat : Vectors!Power[k] >= k + 1
<1> DEFINE P == Vectors!Power
<1>0. P[0] = 1 /\ \A k \in Nat : P[k] \in Nat /\ P[k + 1] = 2 * P[k]
  BY PowerIs
<1> HIDE DEF P
<1> DEFINE T == {k \in Nat : ~ (P[k] >= k + 1)}
<1> SUFFICES ASSUME T # {} PROVE FALSE
  BY DEF P
<1>1. PICK k \in T : \A y \in T : k <= y
  BY LeastNatural
<1>2. k # 0
  BY <1>0, <1>1
<1>3. k - 1 \in Nat /\ k - 1 \notin T /\ (k - 1) + 1 = k
  BY <1>1, <1>2
<1>4. P[k - 1] >= k /\ P[k] = 2 * P[k - 1]
  BY <1>0, <1>3
<1> QED BY <1>0, <1>1, <1>3, <1>4

\* There is a capacity, and it is enough.
LEMMA TargetIsEnough ==
  ASSUME NEW k \in Nat
  PROVE  Vectors!Target(k) \in Nat /\ Vectors!Target(k) >= k
<1> DEFINE P == Vectors!Power
           m == Vectors!MaxOf(kFit, k)
           T == {j \in Nat : P[j] >= m}
<1>1. m \in Nat /\ m >= k /\ m >= 1
  BY MCSequentialAssumption DEF Vectors!InlinedVectorAssumption, Vectors!MaxOf
<1>2. P[0] = 1 /\ \A j \in Nat : P[j] \in Nat /\ P[j + 1] = 2 * P[j] /\ P[j] >= j + 1
  BY PowerIs, PowerGrows
<1>3. Vectors!Target(k) = CHOOSE t \in {P[j] : j \in 0 .. m} : t >= m /\ (t = 1 \/ t \div 2 < m)
  BY DEF Vectors!Target
<1> HIDE DEF P, m
<1>4. m \in T
  BY <1>1, <1>2
<1>5. PICK j \in T : \A y \in T : j <= y
  BY <1>4, LeastNatural
<1>6. j \in 0 .. m /\ P[j] >= m
  BY <1>1, <1>4, <1>5
<1>7. P[j] = 1 \/ P[j] \div 2 < m
  <2>1. CASE j = 0
    BY <1>2, <2>1
  <2>2. CASE j # 0
    <3>1. j - 1 \in Nat /\ j - 1 \notin T /\ (j - 1) + 1 = j
      BY <1>5, <2>2
    <3>2. P[j - 1] \in Nat /\ P[j - 1] < m /\ P[j] = 2 * P[j - 1]
      BY <1>1, <1>2, <3>1
    <3> QED BY <3>2
  <2> QED BY <2>1, <2>2
<1>8. \E t \in {P[i] : i \in 0 .. m} : t >= m /\ (t = 1 \/ t \div 2 < m)
  BY <1>6, <1>7
<1>9. Vectors!Target(k) \in {P[i] : i \in 0 .. m} /\ Vectors!Target(k) >= m
  BY <1>3, <1>8
<1> QED BY <1>1, <1>2, <1>9
-----------------------------------------------------------------------------
(* The slots of a vector.                                                  *)

\* m slots that hold c, the others raw.
Holding(c, m) == [i \in 1 .. m |-> IF i <= Len(c) THEN c[i] ELSE RawSlot]

Holds(v, c) ==
  /\ v \in [is_inline : BOOLEAN, size : Nat, slots : Seq(Values \cup {RawSlot})]
  /\ c \in Seq(Values) /\ v.size = Len(c) /\ Len(c) <= Len(v.slots)
  /\ v.slots = Holding(c, Len(v.slots))

\* w is a function on the numbers of m slots.
IsSlots(w, m) == w = [i \in 1 .. m |-> w[i]]

LEMMA SlotFacts ==
  RawSlot \notin Values /\ Broken \notin Values /\ RawSlot # Broken /\ kFit \in Nat \ {0}
BY MCSequentialAssumption DEF Vectors!InlinedVectorAssumption

LEMMA HoldingIs ==
  ASSUME NEW c \in Seq(Values), NEW m \in Nat, Len(c) <= m
  PROVE  /\ Holding(c, m) \in Seq(Values \cup {RawSlot}) /\ Len(Holding(c, m)) = m
         /\ DOMAIN Holding(c, m) = 1 .. m /\ Len(c) \in Nat
         /\ \A i \in 1 .. Len(c) : Holding(c, m)[i] = c[i] /\ c[i] \in Values
         /\ \A i \in 1 .. m : i > Len(c) => Holding(c, m)[i] = RawSlot
<1> DEFINE w == Holding(c, m)
<1>1. Len(c) \in Nat /\ \A i \in 1 .. Len(c) : c[i] \in Values
  OBVIOUS
<1>2. \A i \in 1 .. m : w[i] = IF i <= Len(c) THEN c[i] ELSE RawSlot
  BY DEF Holding
<1>3. w \in [1 .. m -> Values \cup {RawSlot}]
  BY <1>1 DEF Holding
<1> HIDE DEF w
<1>4. w \in Seq(Values \cup {RawSlot}) /\ Len(w) = m /\ DOMAIN w = 1 .. m
  BY <1>3
<1> QED BY <1>1, <1>2, <1>4 DEF w

LEMMA IsHolding ==
  ASSUME NEW c \in Seq(Values), NEW m \in Nat, Len(c) <= m, NEW w,
         IsSlots(w, m),
         \A i \in 1 .. Len(c) : w[i] = c[i],
         \A i \in 1 .. m : i > Len(c) => w[i] = RawSlot
  PROVE  w = Holding(c, m)
<1>1. ASSUME NEW i \in 1 .. m PROVE w[i] = IF i <= Len(c) THEN c[i] ELSE RawSlot
  <2>1. Len(c) \in Nat
    OBVIOUS
  <2>2. CASE i <= Len(c)
    BY <2>1, <2>2
  <2>3. CASE ~ (i <= Len(c))
    BY <2>1, <2>3
  <2> QED BY <2>2, <2>3
<1>2. w = [i \in 1 .. m |-> w[i]]
  BY DEF IsSlots
<1> DEFINE F(i) == IF i <= Len(c) THEN c[i] ELSE RawSlot
<1>3. \A i \in 1 .. m : w[i] = F(i)
  BY <1>1
<1> HIDE DEF F
<1>4. w = [i \in 1 .. m |-> F(i)]
  BY <1>2, <1>3
<1> QED BY <1>4 DEF Holding, F

IsVector(v) ==
  v = [is_inline |-> v.is_inline, size |-> v.size, slots |-> v.slots] /\ v.is_inline \in BOOLEAN

LEMMA MakeHolds ==
  ASSUME NEW c \in Seq(Values), NEW m \in Nat, Len(c) <= m,
         NEW v, IsVector(v), v.size = Len(c), v.slots = Holding(c, m)
  PROVE  Holds(v, c) /\ Len(v.slots) = m
<1>1. v.slots \in Seq(Values \cup {RawSlot}) /\ Len(v.slots) = m /\ v.size \in Nat
  BY HoldingIs
<1> QED BY <1>1 DEF Holds, IsVector

LEMMA HoldsVector ==
  ASSUME NEW v, NEW c, Holds(v, c)
  PROVE  /\ IsVector(v) /\ c \in Seq(Values) /\ v.size = Len(c) /\ Len(c) \in Nat
         /\ Vectors!capacity(v) = Len(v.slots) /\ Len(v.slots) \in Nat /\ Len(c) <= Len(v.slots)
         /\ v.slots = Holding(c, Len(v.slots))
BY DEF Holds, IsVector, Vectors!capacity

LEMMA HoldsMeans ==
  ASSUME NEW v, NEW c, Holds(v, c)
  PROVE  /\ c \in Seq(Values) /\ v.size = Len(c) /\ v.size \in Nat
         /\ Vectors!capacity(v) \in Nat /\ Vectors!capacity(v) = Len(v.slots) /\ Len(c) <= Len(v.slots)
         /\ v.is_inline \in BOOLEAN
         /\ v = [is_inline |-> v.is_inline, size |-> Len(c), slots |-> Holding(c, Len(v.slots))]
         /\ DOMAIN v.slots = 1 .. Len(v.slots)
         /\ \A i \in 1 .. Len(c) : v.slots[i] = c[i] /\ c[i] \in Values
         /\ \A i \in 1 .. Len(v.slots) : i > Len(c) => v.slots[i] = RawSlot
<1>1. /\ v = [is_inline |-> v.is_inline, size |-> v.size, slots |-> v.slots]
      /\ v.is_inline \in BOOLEAN /\ v.size \in Nat /\ Len(v.slots) \in Nat
  BY DEF Holds
<1>2. /\ c \in Seq(Values) /\ v.size = Len(c) /\ Len(c) <= Len(v.slots)
      /\ v.slots = Holding(c, Len(v.slots))
  BY DEF Holds
<1>3. /\ DOMAIN v.slots = 1 .. Len(v.slots)
      /\ \A i \in 1 .. Len(c) : v.slots[i] = c[i] /\ c[i] \in Values
      /\ \A i \in 1 .. Len(v.slots) : i > Len(c) => v.slots[i] = RawSlot
  <2>1. PICK m \in Nat : m = Len(v.slots)
    BY <1>1
  <2> QED BY <1>2, <2>1, HoldingIs
<1> QED BY <1>1, <1>2, <1>3 DEF Vectors!capacity

LEMMA ElementsAre ==
  ASSUME NEW v, NEW c, Holds(v, c), NEW k \in Nat, k <= Len(c)
  PROVE  /\ SubSeq(v.slots, 1, k) = SubSeq(c, 1, k)
         /\ SubSeq(v.slots, k + 1, Len(c)) = SubSeq(c, k + 1, Len(c))
         /\ Vectors!ElementsOf(v) = c
<1>1. /\ c \in Seq(Values) /\ v.slots \in Seq(Values \cup {RawSlot}) /\ v.size = Len(c)
      /\ Len(c) \in Nat /\ Len(c) <= Len(v.slots)
      /\ \A i \in 1 .. Len(c) : v.slots[i] = c[i]
  BY HoldsMeans DEF Holds
<1> DEFINE w == v.slots
<1>2. /\ c \in Seq(Values \cup {RawSlot}) /\ w \in Seq(Values \cup {RawSlot})
      /\ Len(c) \in Nat /\ Len(c) <= Len(w) /\ \A i \in 1 .. Len(c) : w[i] = c[i]
  BY <1>1
<1> HIDE DEF w
<1>3. ASSUME NEW a \in Nat, NEW b \in Nat, a <= b, b <= Len(c)
      PROVE  SubSeq(w, a + 1, b) = SubSeq(c, a + 1, b)
  <2> DEFINE l == SubSeq(w, a + 1, b)
             r == SubSeq(c, a + 1, b)
  <2>1. /\ l \in Seq(Values \cup {RawSlot}) /\ Len(l) = b - a
        /\ \A i \in 1 .. b - a : l[i] = w[a + i]
    BY <1>2, <1>3
  <2>2. /\ r \in Seq(Values \cup {RawSlot}) /\ Len(r) = b - a
        /\ \A i \in 1 .. b - a : r[i] = c[a + i]
    BY <1>2, <1>3
  <2> HIDE DEF l, r
  <2>3. \A i \in 1 .. b - a : a + i \in 1 .. Len(c)
    BY <1>2, <1>3
  <2>4. \A i \in 1 .. b - a : l[i] = r[i]
    BY <1>2, <2>1, <2>2, <2>3
  <2>5. l = r
    BY <2>1, <2>2, <2>4, SeqEqual
  <2> QED BY <2>5 DEF l, r
<1>4. SubSeq(c, 1, Len(c)) = c
  BY <1>1
<1>5. SubSeq(w, 0 + 1, Len(c)) = SubSeq(c, 0 + 1, Len(c)) /\ SubSeq(w, 0 + 1, k) = SubSeq(c, 0 + 1, k)
  BY <1>2, <1>3
<1>6. SubSeq(w, k + 1, Len(c)) = SubSeq(c, k + 1, Len(c))
  BY <1>2, <1>3
<1> QED BY <1>1, <1>4, <1>5, <1>6 DEF Vectors!ElementsOf, w

LEMMA MemoryIs ==
  ASSUME NEW m \in Nat
  PROVE  /\ Vectors!Memory(m) = Holding(<<>>, m) /\ DOMAIN Vectors!Memory(m) = 1 .. m
         /\ Len(Vectors!Memory(m)) = m /\ \A i \in 1 .. m : Vectors!Memory(m)[i] = RawSlot
<1> DEFINE w == Vectors!Memory(m)
<1>1. w = [i \in 1 .. m |-> RawSlot] /\ w \in [1 .. m -> {RawSlot}]
  BY DEF Vectors!Memory
<1>2. <<>> \in Seq(Values) /\ Len(<<>>) = 0
  OBVIOUS
<1> HIDE DEF w
<1>3. w \in Seq({RawSlot}) /\ Len(w) = m
  BY <1>1
<1>4. IsSlots(w, m) /\ DOMAIN w = 1 .. m /\ \A i \in 1 .. m : w[i] = RawSlot
  BY <1>1 DEF IsSlots
<1>5. w = Holding(<<>>, m)
  <2>1. PICK c \in Seq(Values) : c = <<>> /\ Len(c) = 0
    BY <1>2
  <2>2. w = Holding(c, m)
    <3>1. Len(c) <= m /\ \A i \in 1 .. Len(c) : w[i] = c[i]
      BY <2>1
    <3> QED BY <1>4, <3>1, IsHolding
  <2> QED BY <2>1, <2>2
<1> QED BY <1>1, <1>3, <1>4, <1>5 DEF w

\* Elements joined to those that are held.
LEMMA JoinedIs ==
  ASSUME NEW c \in Seq(Values), NEW d \in Seq(Values)
  PROVE  /\ c \o d \in Seq(Values) /\ Len(c \o d) = Len(c) + Len(d)
         /\ Len(c) \in Nat /\ Len(d) \in Nat /\ DOMAIN d = 1 .. Len(d)
         /\ \A i \in 1 .. Len(c) : (c \o d)[i] = c[i]
         /\ \A i \in 1 .. Len(d) : (c \o d)[Len(c) + i] = d[i]
OBVIOUS

LEMMA ConstructHolding ==
  ASSUME NEW c \in Seq(Values), NEW d \in Seq(Values), NEW m \in Nat, Len(c) + Len(d) <= m
  PROVE  Vectors!Construct(Holding(c, m), Len(c), d) = Holding(c \o d, m)
<1> DEFINE w == Holding(c, m)
           j == c \o d
           x == Vectors!Construct(w, Len(c), d)
<1>1. /\ j \in Seq(Values) /\ Len(j) = Len(c) + Len(d)
      /\ Len(c) \in Nat /\ Len(d) \in Nat /\ DOMAIN d = 1 .. Len(d)
      /\ \A i \in 1 .. Len(c) : j[i] = c[i]
      /\ \A i \in 1 .. Len(d) : j[Len(c) + i] = d[i]
  BY JoinedIs
<1> HIDE DEF j
<1>2. /\ DOMAIN w = 1 .. m
      /\ \A i \in 1 .. Len(c) : w[i] = c[i]
      /\ \A i \in 1 .. m : i > Len(c) => w[i] = RawSlot
  BY <1>1, HoldingIs
<1> HIDE DEF w
<1>0. x = Vectors!Construct(w, Len(c), d)
  OBVIOUS
<1> HIDE DEF x
<1>3. /\ IsSlots(x, m)
      /\ \A i \in 1 .. m : ~ (i - Len(c) \in 1 .. Len(d)) => x[i] = w[i]
      /\ \A i \in 1 .. m : i - Len(c) \in 1 .. Len(d) /\ w[i] = RawSlot => x[i] = d[i - Len(c)]
  BY <1>0, <1>1, <1>2 DEF Vectors!Construct, IsSlots
<1>4. ASSUME NEW i \in 1 .. Len(j) PROVE x[i] = j[i]
  <2>1. CASE i <= Len(c)
    <3>1. i \in 1 .. Len(c) /\ i \in 1 .. m /\ ~ (i - Len(c) \in 1 .. Len(d))
      BY <1>1, <2>1
    <3> QED BY <1>1, <1>2, <1>3, <3>1
  <2>2. CASE i > Len(c)
    <3>1. i - Len(c) \in 1 .. Len(d) /\ i \in 1 .. m /\ Len(c) + (i - Len(c)) = i
      BY <1>1, <2>2
    <3>2. x[i] = d[i - Len(c)]
      BY <1>2, <1>3, <2>2, <3>1
    <3>3. j[Len(c) + (i - Len(c))] = d[i - Len(c)]
      BY <1>1, <3>1
    <3> QED BY <3>1, <3>2, <3>3
  <2> QED BY <1>1, <2>1, <2>2
<1>5. ASSUME NEW i \in 1 .. m, i > Len(j) PROVE x[i] = RawSlot
  BY <1>1, <1>2, <1>3, <1>5
<1>6. x = Holding(j, m)
  BY <1>1, <1>3, <1>4, <1>5, IsHolding
<1> QED BY <1>6 DEF x, w, j
\* Elements assigned to those at the front.
LEMMA AssignFront ==
  ASSUME NEW c \in Seq(Values), NEW d \in Seq(Values), NEW m \in Nat, Len(d) <= Len(c), Len(c) <= m,
         NEW x, x = Vectors!Assign(Holding(c, m), 0, d)
  PROVE  /\ IsSlots(x, m) /\ DOMAIN x = 1 .. m
         /\ \A i \in 1 .. Len(d) : x[i] = d[i]
         /\ \A i \in 1 .. m : i > Len(d) /\ i <= Len(c) => x[i] \in Values
         /\ \A i \in 1 .. m : i > Len(c) => x[i] = RawSlot
<1> DEFINE w == Holding(c, m)
<1>1. /\ DOMAIN w = 1 .. m /\ Len(c) \in Nat
      /\ \A i \in 1 .. Len(c) : w[i] = c[i] /\ c[i] \in Values
      /\ \A i \in 1 .. m : i > Len(c) => w[i] = RawSlot
  BY HoldingIs
<1>2. x = Vectors!Assign(w, 0, d)
  OBVIOUS
<1> HIDE DEF w
<1>3. Len(d) \in Nat /\ DOMAIN d = 1 .. Len(d)
  OBVIOUS
<1>4. /\ IsSlots(x, m) /\ DOMAIN x = 1 .. m
      /\ \A i \in 1 .. m : ~ (i - 0 \in 1 .. Len(d)) => x[i] = w[i]
      /\ \A i \in 1 .. m : i - 0 \in 1 .. Len(d) /\ w[i] \in Values => x[i] = d[i - 0]
  BY <1>1, <1>2, <1>3, SlotFacts DEF Vectors!Assign, IsSlots
<1>5. ASSUME NEW i \in 1 .. Len(d) PROVE x[i] = d[i]
  <2>1. i \in 1 .. m /\ i - 0 = i /\ i \in 1 .. Len(c)
    BY <1>1, <1>3
  <2> QED BY <1>1, <1>4, <2>1
<1>6. ASSUME NEW i \in 1 .. m, i > Len(d) PROVE x[i] = w[i]
  <2>1. ~ (i - 0 \in 1 .. Len(d))
    BY <1>3, <1>6
  <2> QED BY <1>4, <2>1
<1>7. ASSUME NEW i \in 1 .. m, i > Len(d), i <= Len(c) PROVE x[i] \in Values
  BY <1>1, <1>6, <1>7
<1>8. ASSUME NEW i \in 1 .. m, i > Len(c) PROVE x[i] = RawSlot
  BY <1>1, <1>3, <1>6, <1>8
<1> QED BY <1>4, <1>5, <1>7, <1>8

\* The elements behind d, up to k, are destroyed.
LEMMA DestroyTail ==
  ASSUME NEW d \in Seq(Values), NEW k \in Nat, NEW m \in Nat, Len(d) <= k, k <= m,
         NEW w, IsSlots(w, m), DOMAIN w = 1 .. m,
         \A i \in 1 .. Len(d) : w[i] = d[i],
         \A i \in 1 .. m : i > Len(d) /\ i <= k => w[i] \in Values,
         \A i \in 1 .. m : i > k => w[i] = RawSlot
  PROVE  Vectors!Destroy(w, Len(d), k - Len(d)) = Holding(d, m)
<1> DEFINE raw == Vectors!Memory(k - Len(d))
           x == Vectors!Assign(w, Len(d), raw)
<1>1. Len(d) \in Nat /\ k - Len(d) \in Nat
  OBVIOUS
<1>2. DOMAIN raw = 1 .. k - Len(d) /\ \A i \in 1 .. k - Len(d) : raw[i] = RawSlot
  BY <1>1, MemoryIs
<1>3. x = Vectors!Assign(w, Len(d), raw)
  OBVIOUS
<1> HIDE DEF raw, x
<1>4. /\ IsSlots(x, m)
      /\ \A i \in 1 .. m : ~ (i - Len(d) \in 1 .. k - Len(d)) => x[i] = w[i]
      /\ \A i \in 1 .. m : i - Len(d) \in 1 .. k - Len(d) /\ w[i] \in Values => x[i] = raw[i - Len(d)]
  BY <1>1, <1>2, <1>3, SlotFacts DEF Vectors!Assign, IsSlots
<1>5. ASSUME NEW i \in 1 .. Len(d) PROVE x[i] = d[i]
  <2>1. i \in 1 .. m /\ ~ (i - Len(d) \in 1 .. k - Len(d))
    BY <1>1
  <2> QED BY <1>4, <2>1
<1>6. ASSUME NEW i \in 1 .. m, i > Len(d) PROVE x[i] = RawSlot
  <2>1. CASE i <= k
    <3>1. i - Len(d) \in 1 .. k - Len(d) /\ w[i] \in Values
      BY <1>1, <1>6, <2>1
    <3> QED BY <1>2, <1>4, <3>1
  <2>2. CASE i > k
    <3>1. ~ (i - Len(d) \in 1 .. k - Len(d)) /\ w[i] = RawSlot
      BY <1>1, <2>2
    <3> QED BY <1>4, <3>1
  <2> QED BY <2>1, <2>2
<1>7. x = Holding(d, m)
  BY <1>4, <1>5, <1>6, IsHolding
<1> QED BY <1>7 DEF Vectors!Destroy, x, raw

-----------------------------------------------------------------------------
(* The operations.                                                         *)

LEMMA EmptyHolds == Holds(Vectors!Empty, <<>>)
<1>1. PICK c \in Seq(Values) : c = <<>> /\ Len(c) = 0
  <2>1. <<>> \in Seq(Values) /\ Len(<<>>) = 0
    OBVIOUS
  <2> QED BY <2>1
<1>2. Vectors!Memory(kFit) = Holding(c, kFit)
  BY <1>1, SlotFacts, MemoryIs
<1>3. PICK v : v = Vectors!Empty
  OBVIOUS
<1>4. IsVector(v) /\ v.size = 0 /\ v.slots = Holding(c, kFit)
  BY <1>2, <1>3 DEF IsVector, Vectors!Empty
<1>5. Len(c) <= kFit /\ kFit \in Nat
  BY <1>1, SlotFacts
<1>6. Holds(v, c)
  BY <1>1, <1>4, <1>5, MakeHolds
<1> QED BY <1>1, <1>3, <1>6

\* What the elements of d are constructed from.
Reads(v, a, d) ==
  DOMAIN a = 1 .. Len(d) /\ \A i \in 1 .. Len(d) : Vectors!Read(v.slots, a[i]) = d[i]

Joins(j, c, d) == j = c \o d

LEMMA JoinOf ==
  ASSUME NEW c \in Seq(Values), NEW d \in Seq(Values)
  PROVE  \E j \in Seq(Values) : Joins(j, c, d) /\ Len(j) = Len(c) + Len(d)
BY JoinedIs DEF Joins

\* The same, element by element.
IsJoin(j, c, d) ==
  /\ j \in Seq(Values) /\ Len(j) = Len(c) + Len(d)
  /\ \A i \in 1 .. Len(c) : j[i] = c[i]
  /\ \A i \in 1 .. Len(d) : j[Len(c) + i] = d[i]

IsPart(r, c, a, b) ==
  /\ r \in Seq(Values) /\ Len(r) = b - a /\ DOMAIN r = 1 .. b - a
  /\ \A i \in 1 .. b - a : r[i] = c[a + i]

LEMMA JoinIs ==
  ASSUME NEW c \in Seq(Values), NEW d \in Seq(Values)
  PROVE  IsJoin(c \o d, c, d)
BY JoinedIs DEF IsJoin

LEMMA PartIs ==
  ASSUME NEW c \in Seq(Values), NEW a \in Nat, NEW b \in Nat, a <= b, b <= Len(c)
  PROVE  IsPart(SubSeq(c, a + 1, b), c, a, b)
BY DEF IsPart

LEMMA FrontIs ==
  ASSUME NEW c \in Seq(Values), NEW b \in Nat, b <= Len(c)
  PROVE  IsPart(SubSeq(c, 1, b), c, 0, b)
BY DEF IsPart

LEMMA ConstructMore ==
  ASSUME NEW c \in Seq(Values), NEW d \in Seq(Values), NEW m \in Nat, Len(c) + Len(d) <= m,
         NEW j, Joins(j, c, d), NEW w, w = Holding(c, m), NEW l, l = Len(c)
  PROVE  Vectors!Construct(w, l, d) = Holding(j, m)
BY ConstructHolding DEF Joins

\* The old elements and the new ones get to the new memory.
LEMMA GrowIs ==
  ASSUME NEW v, NEW c, Holds(v, c), NEW d \in Seq(Values), NEW k \in Nat, Len(c) + Len(d) <= k,
         NEW a, Reads(v, a, d), NEW j, Joins(j, c, d)
  PROVE  /\ IsVector(Vectors!Grow(v, k, a)) /\ Vectors!Grow(v, k, a).size = Len(c)
         /\ \E m \in Nat : k <= m /\ Vectors!Grow(v, k, a).slots = Holding(j, m)
<1>1. PICK m \in Nat : m = Vectors!Target(k) /\ Len(c) + Len(d) <= m /\ k <= m
  <2>1. Len(c) \in Nat /\ Len(d) \in Nat
    BY HoldsMeans
  <2> QED BY <2>1, TargetIsEnough
<1> DEFINE raw == Vectors!Memory(m)
           read == [i \in DOMAIN a |-> Vectors!Read(v.slots, a[i])]
           fresh == Vectors!Construct(raw, Len(c), read)
           x == Vectors!Construct(fresh, 0, c)
<1>2. /\ c \in Seq(Values) /\ Vectors!ElementsOf(v) = c /\ v.size = Len(c)
  <2>1. Len(c) \in Nat /\ Len(c) <= Len(c)
    BY HoldsMeans
  <2> QED BY <2>1, HoldsMeans, ElementsAre
<1>3. Vectors!Grow(v, k, a) = [is_inline |-> FALSE, size |-> Len(c), slots |-> x]
  BY <1>1, <1>2 DEF Vectors!Grow
<1>4. /\ DOMAIN raw = 1 .. m /\ \A i \in 1 .. m : raw[i] = RawSlot
  BY MemoryIs
<1>5. /\ DOMAIN read = 1 .. Len(d) /\ \A i \in 1 .. Len(d) : read[i] = d[i]
  BY DEF Reads
<1>6. /\ j \in Seq(Values) /\ Len(j) = Len(c) + Len(d)
      /\ Len(c) \in Nat /\ Len(d) \in Nat /\ DOMAIN c = 1 .. Len(c)
      /\ \A i \in 1 .. Len(c) : j[i] = c[i]
      /\ \A i \in 1 .. Len(d) : j[Len(c) + i] = d[i]
  BY <1>2, JoinedIs DEF Joins
<1>7. fresh = Vectors!Construct(raw, Len(c), read) /\ x = Vectors!Construct(fresh, 0, c)
  OBVIOUS
<1> HIDE DEF raw, read, fresh, x
<1>8. /\ DOMAIN fresh = 1 .. m
      /\ \A i \in 1 .. m : ~ (i - Len(c) \in 1 .. Len(d)) => fresh[i] = RawSlot
      /\ \A i \in 1 .. m : i - Len(c) \in 1 .. Len(d) => fresh[i] = d[i - Len(c)]
  BY <1>4, <1>5, <1>6, <1>7 DEF Vectors!Construct
<1>9. /\ IsSlots(x, m)
      /\ \A i \in 1 .. m : ~ (i - 0 \in 1 .. Len(c)) => x[i] = fresh[i]
      /\ \A i \in 1 .. m : i - 0 \in 1 .. Len(c) /\ fresh[i] = RawSlot => x[i] = c[i - 0]
  BY <1>6, <1>7, <1>8 DEF Vectors!Construct, IsSlots
<1>10. ASSUME NEW i \in 1 .. Len(j) PROVE x[i] = j[i]
  <2>1. CASE i <= Len(c)
    <3>1. i \in 1 .. Len(c) /\ i \in 1 .. m /\ i - 0 = i /\ ~ (i - Len(c) \in 1 .. Len(d))
      BY <1>1, <1>6, <2>1
    <3>2. fresh[i] = RawSlot
      BY <1>8, <3>1
    <3> QED BY <1>6, <1>9, <3>1, <3>2
  <2>2. CASE i > Len(c)
    <3>1. /\ i - Len(c) \in 1 .. Len(d) /\ i \in 1 .. m /\ Len(c) + (i - Len(c)) = i
          /\ ~ (i - 0 \in 1 .. Len(c))
      BY <1>1, <1>6, <2>2
    <3>2. x[i] = d[i - Len(c)]
      BY <1>8, <1>9, <3>1
    <3>3. j[Len(c) + (i - Len(c))] = d[i - Len(c)]
      BY <1>6, <3>1
    <3> QED BY <3>1, <3>2, <3>3
  <2> QED BY <1>6, <2>1, <2>2
<1>11. ASSUME NEW i \in 1 .. m, i > Len(j) PROVE x[i] = RawSlot
  <2>1. ~ (i - Len(c) \in 1 .. Len(d)) /\ ~ (i - 0 \in 1 .. Len(c))
    BY <1>6, <1>11
  <2> QED BY <1>8, <1>9, <2>1
<1>12. x = Holding(j, m)
  BY <1>1, <1>6, <1>9, <1>10, <1>11, IsHolding
<1>13. PICK g : g = Vectors!Grow(v, k, a)
  OBVIOUS
<1>14. g = [is_inline |-> FALSE, size |-> Len(c), slots |-> x]
  BY <1>3, <1>13
<1>15. IsVector(g) /\ g.size = Len(c) /\ g.slots = x
  BY <1>14 DEF IsVector
<1> QED BY <1>1, <1>12, <1>13, <1>15

LEMMA ReserveHolds ==
  ASSUME NEW v, NEW c, Holds(v, c), NEW k \in Nat
  PROVE  Holds(Vectors!reserve(v, k), c) /\ k <= Len(Vectors!reserve(v, k).slots)
<1>1. CASE k > Vectors!capacity(v)
  <2>1. PICK d \in Seq(Values) : d = <<>> /\ Len(d) = 0 /\ DOMAIN d = 1 .. Len(d)
    <3>1. <<>> \in Seq(Values) /\ Len(<<>>) = 0 /\ DOMAIN <<>> = 1 .. 0
      OBVIOUS
    <3> QED BY <3>1
  <2>2. /\ c \in Seq(Values) /\ Len(c) \in Nat /\ Len(c) + Len(d) <= k /\ Len(c) <= k
    BY <1>1, <2>1, HoldsVector
  <2>3. Joins(c, c, d)
    BY <2>1, <2>2 DEF Joins
  <2>4. Reads(v, d, d)
    BY <2>1 DEF Reads
  <2>5. PICK u : u = Vectors!reserve(v, k) /\ u = Vectors!Grow(v, k, d)
    BY <1>1, <2>1 DEF Vectors!reserve
  <2>6. /\ IsVector(u) /\ u.size = Len(c)
        /\ \E m \in Nat : k <= m /\ u.slots = Holding(c, m)
    BY <2>2, <2>3, <2>4, <2>5, GrowIs
  <2>7. PICK m \in Nat : k <= m /\ u.slots = Holding(c, m)
    BY <2>6
  <2>8. Len(c) <= m
    BY <2>2, <2>7
  <2>9. Holds(u, c) /\ Len(u.slots) = m
    BY <2>2, <2>6, <2>7, <2>8, MakeHolds
  <2> QED BY <2>5, <2>7, <2>9
<1>2. CASE ~ (k > Vectors!capacity(v))
  BY <1>2, HoldsVector DEF Vectors!reserve
<1> QED BY <1>1, <1>2

\* An element, or one of the vector's own.
LEMMA EmplaceHolds ==
  ASSUME NEW v, NEW c, Holds(v, c), NEW a, NEW r \in Values, Vectors!Read(v.slots, a) = r
  PROVE  Holds(Vectors!emplace_back(v, a), c \o <<r>>)
<1>1. PICK d \in Seq(Values) : d = <<r>> /\ Len(d) = 1 /\ d[1] = r
  <2>1. <<r>> \in Seq(Values) /\ Len(<<r>>) = 1 /\ <<r>>[1] = r
    OBVIOUS
  <2> QED BY <2>1
<1>2. PICK m \in Nat : m = Len(v.slots)
  BY HoldsVector
<1>3. PICK l \in Nat : l = Len(c)
  BY HoldsVector
<1>4. /\ IsVector(v) /\ c \in Seq(Values) /\ v.size = l /\ Vectors!capacity(v) = m
      /\ l <= m /\ v.slots = Holding(c, m)
  BY <1>2, <1>3, HoldsVector
<1>5. PICK j \in Seq(Values) : Joins(j, c, d) /\ Len(j) = l + 1
  <2>1. PICK j \in Seq(Values) : Joins(j, c, d) /\ Len(j) = Len(c) + Len(d)
    BY <1>4, JoinOf
  <2> QED BY <1>1, <1>3, <2>1
<1>6. PICK u : u = Vectors!emplace_back(v, a)
  OBVIOUS
<1>7. CASE l < m
  <2>1. PICK x : x = Vectors!Construct(v.slots, l, d)
    OBVIOUS
  <2>2. x = Holding(j, m)
    <3>1. Len(c) + Len(d) <= m
      BY <1>1, <1>3, <1>7
    <3> QED BY <1>3, <1>4, <1>5, <2>1, <3>1, ConstructMore
  <2>3. u = [v EXCEPT !.slots = x, !.size = l + 1]
    BY <1>1, <1>4, <1>6, <1>7, <2>1 DEF Vectors!emplace_back
  <2>4. IsVector(u) /\ u.size = l + 1 /\ u.slots = x
    BY <1>4, <2>3 DEF IsVector
  <2>5. Len(j) <= m
    BY <1>5, <1>7
  <2> QED BY <1>1, <1>5, <1>6, <2>2, <2>4, <2>5, MakeHolds DEF Joins
<1>8. CASE ~ (l < m)
  <2>1. PICK b : b = <<a>> /\ DOMAIN b = 1 .. 1 /\ b[1] = a
    <3>1. DOMAIN <<a>> = 1 .. 1 /\ <<a>>[1] = a
      OBVIOUS
    <3> QED BY <3>1
  <2>2. Reads(v, b, d)
    BY <1>1, <2>1 DEF Reads
  <2>3. PICK g : g = Vectors!Grow(v, l + 1, b)
    OBVIOUS
  <2>4. /\ IsVector(g) /\ g.size = l /\ \E k \in Nat : l + 1 <= k /\ g.slots = Holding(j, k)
    <3>1. l + 1 \in Nat /\ Len(c) + Len(d) <= l + 1
      BY <1>1, <1>3
    <3> QED BY <1>3, <1>5, <2>2, <2>3, <3>1, GrowIs
  <2>5. PICK k \in Nat : l + 1 <= k /\ g.slots = Holding(j, k)
    BY <2>4
  <2>6. u = [g EXCEPT !.size = @ + 1]
    BY <1>4, <1>6, <1>8, <2>1, <2>3 DEF Vectors!emplace_back
  <2>7. IsVector(u) /\ u.size = l + 1 /\ u.slots = Holding(j, k)
    BY <2>4, <2>5, <2>6 DEF IsVector
  <2>8. Len(j) <= k
    BY <1>5, <2>5
  <2> QED BY <1>1, <1>5, <1>6, <2>7, <2>8, MakeHolds DEF Joins
<1> QED BY <1>3, <1>7, <1>8

LEMMA AppendRangeHolds ==
  ASSUME NEW v, NEW c, Holds(v, c), NEW d \in Seq(Values)
  PROVE  Holds(Vectors!AppendRange(v, d), c \o d)
<1>1. PICK l \in Nat, k \in Nat : l = Len(c) /\ k = Len(d)
  BY HoldsVector
<1>2. PICK u : u = Vectors!reserve(v, l + k)
  OBVIOUS
<1>3. Holds(u, c) /\ l + k <= Len(u.slots)
  BY <1>1, <1>2, ReserveHolds
<1>4. PICK m \in Nat : m = Len(u.slots)
  BY <1>3, HoldsVector
<1>5. /\ IsVector(u) /\ c \in Seq(Values) /\ u.size = l /\ v.size = l
      /\ l + k <= m /\ u.slots = Holding(c, m)
  BY <1>1, <1>3, <1>4, HoldsVector
<1>6. PICK j \in Seq(Values) : Joins(j, c, d) /\ Len(j) = l + k
  BY <1>1, <1>5, JoinOf
<1>7. PICK x : x = Vectors!Construct(u.slots, l, d)
  OBVIOUS
<1>8. x = Holding(j, m)
  BY <1>1, <1>5, <1>6, <1>7, ConstructMore
<1>9. PICK r : r = Vectors!AppendRange(v, d)
  OBVIOUS
<1>10. r = [u EXCEPT !.slots = Vectors!Construct(@, l, d), !.size = @ + k]
  BY <1>1, <1>2, <1>5, <1>9 DEF Vectors!AppendRange
<1>11. IsVector(r) /\ r.size = l + k /\ r.slots = x
  BY <1>5, <1>7, <1>10 DEF IsVector
<1>12. Len(j) <= m
  BY <1>5, <1>6
<1> QED BY <1>6, <1>8, <1>9, <1>11, <1>12, MakeHolds DEF Joins
LEMMA TwoParts ==
  ASSUME NEW c \in Seq(Values), NEW k \in Nat, k <= Len(c)
  PROVE  SubSeq(c, 1, k) \o SubSeq(c, k + 1, Len(c)) = c
<1>1. PICK l \in Nat : l = Len(c)
  OBVIOUS
<1>2. PICK f : f = SubSeq(c, 1, k)
  OBVIOUS
<1>3. PICK r : r = SubSeq(c, k + 1, l)
  OBVIOUS
<1>4. PICK j : j = f \o r
  OBVIOUS
<1>5. IsPart(f, c, 0, k)
  BY <1>2, FrontIs
<1>6. IsPart(r, c, k, l)
  BY <1>1, <1>3, PartIs
<1>7. IsJoin(j, f, r)
  <2>1. f \in Seq(Values) /\ r \in Seq(Values)
    BY <1>5, <1>6 DEF IsPart
  <2> QED BY <1>4, <2>1, JoinIs
<1>8. j = c
  <2>1. Len(f) = k /\ Len(r) = l - k /\ Len(j) = l /\ j \in Seq(Values)
    BY <1>1, <1>5, <1>6, <1>7 DEF IsPart, IsJoin
  <2>2. /\ \A i \in 1 .. k : j[i] = f[i] /\ f[i] = c[0 + i]
        /\ \A i \in 1 .. l - k : j[k + i] = r[i] /\ r[i] = c[k + i]
    BY <2>1, <1>5, <1>6, <1>7 DEF IsPart, IsJoin
  <2>3. ASSUME NEW i \in 1 .. l PROVE j[i] = c[i]
    <3>1. CASE i <= k
      BY <2>2, <3>1
    <3>2. CASE i > k
      <4>1. i - k \in 1 .. l - k /\ k + (i - k) = i
        BY <3>2
      <4>2. j[k + (i - k)] = c[k + (i - k)]
        BY <2>2, <4>1
      <4> QED BY <4>1, <4>2
    <3> QED BY <3>1, <3>2
  <2> QED BY <1>1, <2>1, <2>3, SeqEqual
<1> QED BY <1>1, <1>2, <1>3, <1>4, <1>8

LEMMA HoldsSlots ==
  ASSUME NEW v, NEW c, Holds(v, c), NEW m, m = Len(v.slots), NEW w, w = v.slots
  PROVE  /\ IsSlots(w, m) /\ DOMAIN w = 1 .. m /\ m \in Nat /\ Len(c) <= m /\ Len(c) \in Nat
         /\ \A i \in 1 .. Len(c) : w[i] = c[i] /\ w[i] \in Values
         /\ \A i \in 1 .. m : i > Len(c) => w[i] = RawSlot
<1>1. m \in Nat /\ c \in Seq(Values) /\ Len(c) <= m /\ w = Holding(c, m)
  BY HoldsVector
<1>2. IsSlots(w, m)
  BY <1>1 DEF IsSlots, Holding
<1> QED BY <1>1, <1>2, HoldingIs

LEMMA SamePartOf ==
  ASSUME NEW S, NEW w \in Seq(S), NEW c \in Seq(S), NEW a \in Nat, NEW b \in Nat,
         a <= b, b <= Len(w), b <= Len(c), \A i \in 1 .. b : w[i] = c[i]
  PROVE  SubSeq(w, a + 1, b) = SubSeq(c, a + 1, b)
<1> DEFINE f == SubSeq(w, a + 1, b)
           r == SubSeq(c, a + 1, b)
<1>1. /\ f \in Seq(S) /\ Len(f) = b - a
      /\ \A i \in 1 .. b - a : f[i] = w[a + i]
  OBVIOUS
<1>2. /\ r \in Seq(S) /\ Len(r) = b - a
      /\ \A i \in 1 .. b - a : r[i] = c[a + i]
  OBVIOUS
<1>3. \A i \in 1 .. b - a : a + i \in 1 .. b
  OBVIOUS
<1> HIDE DEF f, r
<1>4. \A i \in 1 .. b - a : f[i] = r[i]
  BY <1>1, <1>2, <1>3
<1>5. f = r
  BY <1>1, <1>2, <1>4, SeqEqual
<1> QED BY <1>5 DEF f, r

LEMMA ResizeHolds ==
  ASSUME NEW v, NEW c, Holds(v, c), NEW k \in Nat, NEW e \in Values
  PROVE  Holds(Vectors!Resize(v, k, e), [i \in 1 .. k |-> IF i <= Len(c) THEN c[i] ELSE e])
<1>1. PICK l \in Nat : l = Len(c)
  BY HoldsVector
<1>2. PICK m \in Nat : m = Len(v.slots)
  BY HoldsVector
<1>3. PICK w : w = v.slots
  OBVIOUS
<1>4. IsVector(v) /\ c \in Seq(Values) /\ v.size = l /\ l <= m /\ w = Holding(c, m)
  BY <1>1, <1>2, <1>3, HoldsVector
<1>5. /\ IsSlots(w, m) /\ DOMAIN w = 1 .. m
      /\ \A i \in 1 .. l : w[i] = c[i] /\ w[i] \in Values
      /\ \A i \in 1 .. m : i > l => w[i] = RawSlot
  BY <1>1, <1>2, <1>3, HoldsSlots
<1> DEFINE F(i) == IF i <= Len(c) THEN c[i] ELSE e
           q == [i \in 1 .. k |-> F(i)]
<1>6. \A i \in 1 .. k : (i <= l => F(i) = c[i]) /\ (i > l => F(i) = e)
  BY <1>1
<1>7. \A i \in 1 .. k : F(i) \in Values
  <2>1. \A i \in 1 .. k : i \in 1 .. l \/ i > l
    BY <1>1
  <2>2. \A i \in 1 .. l : c[i] \in Values
    BY <1>1, <1>4
  <2> HIDE DEF F
  <2> QED BY <1>6, <2>1, <2>2
<1> HIDE DEF F
<1>8. q \in Seq(Values) /\ Len(q) = k /\ \A i \in 1 .. k : q[i] = F(i)
  BY <1>7
<1> HIDE DEF q
<1>9. CASE k <= l
  <2>1. PICK g : g = l - k
    OBVIOUS
  <2>2. PICK x : x = Vectors!Destroy(w, k, g)
    OBVIOUS
  <2>3. x = Holding(q, m)
    <3>1. \A i \in 1 .. Len(q) : w[i] = q[i]
      <4>1. \A i \in 1 .. k : i \in 1 .. l /\ i <= l
        BY <1>9
      <4> QED BY <1>5, <1>6, <1>8, <4>1
    <3>2. \A i \in 1 .. m : i > Len(q) /\ i <= l => w[i] \in Values
      BY <1>5, <1>8
    <3>3. Len(q) <= l /\ l <= m
      BY <1>4, <1>8, <1>9
    <3>4. Vectors!Destroy(w, Len(q), l - Len(q)) = Holding(q, m)
      BY <1>5, <1>8, <3>1, <3>2, <3>3, DestroyTail
    <3> QED BY <1>8, <2>1, <2>2, <3>4
  <2>4. PICK u : u = Vectors!Resize(v, k, e)
    OBVIOUS
  <2>5. u = [v EXCEPT !.slots = x, !.size = k]
    BY <1>3, <1>4, <1>9, <2>1, <2>2, <2>4 DEF Vectors!Resize
  <2>6. IsVector(u) /\ u.size = k /\ u.slots = x
    BY <1>4, <2>5 DEF IsVector
  <2>7. Len(q) <= m
    BY <1>4, <1>8, <1>9
  <2>8. Holds(u, q)
    BY <1>8, <2>3, <2>6, <2>7, MakeHolds
  <2> QED BY <2>4, <2>8 DEF q, F
<1>10. CASE ~ (k <= l)
  <2>1. PICK g \in Nat : g = k - l
    BY <1>10
  <2>2. PICK d : d = [i \in 1 .. g |-> e]
    OBVIOUS
  <2>3. d \in Seq(Values) /\ Len(d) = g /\ \A i \in 1 .. g : d[i] = e
    BY <2>2
  <2>4. Vectors!Resize(v, k, e) = Vectors!AppendRange(v, d)
    BY <1>4, <1>10, <2>1, <2>2 DEF Vectors!Resize
  <2>5. PICK j : j = c \o d
    OBVIOUS
  <2>50. IsJoin(j, c, d)
    BY <1>4, <2>3, <2>5, JoinIs
  <2>6. /\ j \in Seq(Values) /\ Len(j) = l + g
        /\ \A i \in 1 .. l : j[i] = c[i]
        /\ \A i \in 1 .. g : j[l + i] = d[i]
    BY <1>1, <2>3, <2>50 DEF IsJoin
  <2>7. ASSUME NEW i \in 1 .. k PROVE j[i] = q[i]
    <3>1. CASE i <= l
      BY <1>6, <1>8, <2>6, <3>1
    <3>2. CASE i > l
      <4>1. i - l \in 1 .. g /\ l + (i - l) = i
        BY <2>1, <3>2
      <4>2. j[l + (i - l)] = e
        BY <2>3, <2>6, <4>1
      <4> QED BY <1>6, <1>8, <3>2, <4>1, <4>2
    <3> QED BY <3>1, <3>2
  <2>8. j = q
    <3>1. Len(j) = k
      BY <2>1, <2>6
    <3> QED BY <1>8, <2>6, <2>7, <3>1, SeqEqual
  <2>9. Holds(Vectors!AppendRange(v, d), c \o d)
    BY <2>3, AppendRangeHolds
  <2>10. Holds(Vectors!Resize(v, k, e), q)
    BY <2>4, <2>5, <2>8, <2>9
  <2> QED BY <2>10 DEF q, F
<1> QED BY <1>9, <1>10

\* What is left when some elements are cut out.
IsCut(q, c, a, b) ==
  /\ q \in Seq(Values) /\ Len(q) = Len(c) - (b - a)
  /\ \A i \in 1 .. a : q[i] = c[i]
  /\ \A i \in 1 .. Len(c) - b : q[a + i] = c[b + i]

LEMMA CutIs ==
  ASSUME NEW c \in Seq(Values), NEW a \in Nat, NEW b \in Nat, a <= b, b <= Len(c)
  PROVE  IsCut(Vectors!Cut(c, a, b), c, a, b)
<1>1. PICK l \in Nat : l = Len(c)
  OBVIOUS
<1>2. PICK f : f = SubSeq(c, 1, a)
  OBVIOUS
<1>3. PICK r : r = SubSeq(c, b + 1, l)
  OBVIOUS
<1>4. PICK q : q = f \o r /\ q = Vectors!Cut(c, a, b)
  BY <1>1, <1>2, <1>3 DEF Vectors!Cut
<1>5. IsPart(f, c, 0, a)
  BY <1>2, FrontIs
<1>6. IsPart(r, c, b, l)
  BY <1>1, <1>3, PartIs
<1>7. IsJoin(q, f, r)
  <2>1. f \in Seq(Values) /\ r \in Seq(Values)
    BY <1>5, <1>6 DEF IsPart
  <2> QED BY <1>4, <2>1, JoinIs
<1>8. IsCut(q, c, a, b)
  <2>1. Len(f) = a /\ Len(r) = l - b /\ Len(q) = a + (l - b) /\ q \in Seq(Values)
    BY <1>1, <1>5, <1>6, <1>7 DEF IsPart, IsJoin
  <2>2. /\ \A i \in 1 .. a : q[i] = f[i] /\ f[i] = c[0 + i]
        /\ \A i \in 1 .. l - b : q[a + i] = r[i] /\ r[i] = c[b + i]
    BY <2>1, <1>5, <1>6, <1>7 DEF IsPart, IsJoin
  <2>3. \A i \in 1 .. a : 0 + i = i
    OBVIOUS
  <2>4. Len(q) = l - (b - a)
    BY <2>1
  <2>6. ASSUME NEW i \in 1 .. a PROVE q[i] = c[i]
    BY <2>2, <2>3
  <2>5. \A i \in 1 .. l - b : q[a + i] = c[b + i]
    BY <2>2
  <2> QED BY <1>1, <2>1, <2>4, <2>5, <2>6 DEF IsCut
<1> QED BY <1>4, <1>8

LEMMA EraseHolds ==
  ASSUME NEW v, NEW c, Holds(v, c), NEW a \in Nat, NEW b \in Nat, a <= b, b <= Len(c)
  PROVE  Holds(Vectors!erase(v, a, b), Vectors!Cut(c, a, b))
<1>1. PICK l \in Nat : l = Len(c)
  BY HoldsVector
<1>2. PICK m \in Nat : m = Len(v.slots)
  BY HoldsVector
<1>3. PICK w : w = v.slots
  OBVIOUS
<1>4. IsVector(v) /\ c \in Seq(Values) /\ v.size = l /\ l <= m
  BY <1>1, <1>2, HoldsVector
<1>5. /\ IsSlots(w, m) /\ DOMAIN w = 1 .. m
      /\ \A i \in 1 .. l : w[i] = c[i] /\ w[i] \in Values
      /\ \A i \in 1 .. m : i > l => w[i] = RawSlot
  BY <1>1, <1>2, <1>3, HoldsSlots
<1>6. PICK r : r = SubSeq(w, b + 1, l)
  OBVIOUS
<1>7. r = SubSeq(c, b + 1, l)
  BY <1>1, <1>3, <1>6, ElementsAre
<1>8. DOMAIN r = 1 .. l - b /\ \A i \in 1 .. l - b : r[i] = c[b + i]
  <2>1. IsPart(r, c, b, l)
    BY <1>1, <1>4, <1>7, PartIs
  <2> QED BY <2>1 DEF IsPart
<1>9. PICK q : q = Vectors!Cut(c, a, b) /\ IsCut(q, c, a, b)
  BY <1>4, CutIs
<1>10. /\ q \in Seq(Values) /\ Len(q) = l - (b - a)
       /\ \A i \in 1 .. a : q[i] = c[i]
       /\ \A i \in 1 .. l - b : q[a + i] = c[b + i]
  BY <1>1, <1>9 DEF IsCut
<1>11. PICK x : x = Vectors!Assign(w, a, r)
  OBVIOUS
<1>12. /\ IsSlots(x, m) /\ DOMAIN x = 1 .. m
       /\ \A i \in 1 .. m : ~ (i - a \in 1 .. l - b) => x[i] = w[i]
       /\ \A i \in 1 .. m : i - a \in 1 .. l - b /\ w[i] \in Values => x[i] = r[i - a]
  BY <1>5, <1>8, <1>11, SlotFacts DEF Vectors!Assign, IsSlots
<1>13. ASSUME NEW i \in 1 .. Len(q) PROVE x[i] = q[i]
  <2>1. CASE i <= a
    <3>1. i \in 1 .. a /\ i \in 1 .. m /\ i \in 1 .. l /\ ~ (i - a \in 1 .. l - b)
      BY <1>1, <1>4, <2>1
    <3> QED BY <1>5, <1>10, <1>12, <3>1
  <2>2. CASE i > a
    <3>1. i - a \in 1 .. l - b /\ i \in 1 .. m /\ i \in 1 .. l /\ a + (i - a) = i
      BY <1>1, <1>4, <1>10, <2>2
    <3>2. x[i] = r[i - a] /\ r[i - a] = c[b + (i - a)]
      BY <1>5, <1>8, <1>12, <3>1
    <3>3. q[a + (i - a)] = c[b + (i - a)]
      BY <1>10, <3>1
    <3> QED BY <3>1, <3>2, <3>3
  <2> QED BY <1>10, <2>1, <2>2
<1>14. ASSUME NEW i \in 1 .. m, i > Len(q) PROVE x[i] = w[i]
  <2>1. ~ (i - a \in 1 .. l - b)
    BY <1>10, <1>14
  <2> QED BY <1>12, <2>1
<1>15. PICK y : y = Vectors!Destroy(x, Len(q), l - Len(q))
  OBVIOUS
<1>16. y = Holding(q, m)
  <2>1. Len(q) <= l /\ Len(q) \in Nat
    BY <1>1, <1>10
  <2>2. \A i \in 1 .. m : i > Len(q) /\ i <= l => x[i] \in Values
    BY <1>5, <1>14
  <2>3. \A i \in 1 .. m : i > l => x[i] = RawSlot
    BY <1>5, <1>14, <2>1
  <2> QED BY <1>4, <1>10, <1>12, <1>13, <1>15, <2>1, <2>2, <2>3, DestroyTail
<1>17. PICK u : u = Vectors!erase(v, a, b)
  OBVIOUS
<1>18. u = [v EXCEPT !.slots = y, !.size = Len(q)]
  <2>1. PICK k : k = l - (b - a)
    OBVIOUS
  <2>2. k = Len(q) /\ l - Len(q) = b - a
    BY <1>1, <1>10, <2>1
  <2>3. u = [v EXCEPT !.slots = Vectors!Destroy(Vectors!Assign(@, a, SubSeq(@, b + 1, l)), k, b - a),
                      !.size = k]
    BY <1>4, <1>17, <2>1 DEF Vectors!erase
  <2> QED BY <1>3, <1>6, <1>11, <1>15, <2>2, <2>3
<1>19. IsVector(u) /\ u.size = Len(q) /\ u.slots = y
  BY <1>4, <1>18 DEF IsVector
<1>20. Len(q) <= m
  BY <1>1, <1>4, <1>10
<1> QED BY <1>9, <1>10, <1>16, <1>17, <1>19, <1>20, MakeHolds
\* A sequence with an element put in.
IsInserted(q, c, k, e) ==
  /\ q \in Seq(Values) /\ Len(q) = Len(c) + 1
  /\ \A i \in 1 .. k : q[i] = c[i]
  /\ q[k + 1] = e
  /\ \A i \in k + 1 .. Len(c) : q[i + 1] = c[i]

LEMMA InsertedIs ==
  ASSUME NEW c \in Seq(Values), NEW k \in Nat, k <= Len(c), NEW e \in Values
  PROVE  IsInserted(SubSeq(c, 1, k) \o <<e>> \o SubSeq(c, k + 1, Len(c)), c, k, e)
<1>1. PICK l \in Nat : l = Len(c)
  OBVIOUS
<1>2. PICK f : f = SubSeq(c, 1, k)
  OBVIOUS
<1>3. PICK r : r = SubSeq(c, k + 1, l)
  OBVIOUS
<1>4. PICK d : d = <<e>> /\ d \in Seq(Values) /\ Len(d) = 1 /\ d[1] = e
  <2>1. <<e>> \in Seq(Values) /\ Len(<<e>>) = 1 /\ <<e>>[1] = e
    OBVIOUS
  <2> QED BY <2>1
<1>5. PICK j : j = f \o d
  OBVIOUS
<1>6. PICK q : q = j \o r
  OBVIOUS
<1>7. IsPart(f, c, 0, k) /\ IsPart(r, c, k, l)
  BY <1>1, <1>2, <1>3, FrontIs, PartIs
<1>8. f \in Seq(Values) /\ r \in Seq(Values) /\ Len(f) = k /\ Len(r) = l - k
  BY <1>7 DEF IsPart
<1>9. IsJoin(j, f, d)
  BY <1>4, <1>5, <1>8, JoinIs
<1>10. j \in Seq(Values) /\ Len(j) = k + 1
  BY <1>4, <1>8, <1>9 DEF IsJoin
<1>11. IsJoin(q, j, r)
  BY <1>6, <1>8, <1>10, JoinIs
<1>12. /\ q \in Seq(Values) /\ Len(q) = (k + 1) + (l - k)
       /\ \A i \in 1 .. k + 1 : q[i] = j[i]
       /\ \A i \in 1 .. l - k : q[(k + 1) + i] = r[i]
  BY <1>8, <1>10, <1>11 DEF IsJoin
<1>13. /\ \A i \in 1 .. k : j[i] = f[i]
       /\ \A i \in 1 .. 1 : j[k + i] = d[i]
  BY <1>4, <1>8, <1>9 DEF IsJoin
<1>14. /\ \A i \in 1 .. k - 0 : f[i] = c[0 + i]
       /\ \A i \in 1 .. l - k : r[i] = c[k + i]
  BY <1>7 DEF IsPart
<1>15. ASSUME NEW i \in 1 .. k PROVE q[i] = c[i]
  <2>1. i \in 1 .. k + 1 /\ i \in 1 .. k - 0 /\ 0 + i = i
    OBVIOUS
  <2> QED BY <1>12, <1>13, <1>14, <2>1
<1>16. q[k + 1] = e
  <2>1. k + 1 \in 1 .. k + 1 /\ 1 \in 1 .. 1
    OBVIOUS
  <2> QED BY <1>4, <1>12, <1>13, <2>1
<1>17. ASSUME NEW i \in k + 1 .. l PROVE q[i + 1] = c[i]
  <2>1. i - k \in 1 .. l - k /\ (k + 1) + (i - k) = i + 1 /\ k + (i - k) = i
    OBVIOUS
  <2>2. q[(k + 1) + (i - k)] = r[i - k] /\ r[i - k] = c[k + (i - k)]
    BY <1>12, <1>14, <2>1
  <2> QED BY <2>1, <2>2
<1>18. Len(q) = l + 1
  BY <1>12
<1>19. IsInserted(q, c, k, e)
  BY <1>1, <1>12, <1>15, <1>16, <1>17, <1>18 DEF IsInserted
<1> QED BY <1>1, <1>2, <1>3, <1>4, <1>5, <1>6, <1>19

LEMMA InsertHolds ==
  ASSUME NEW v, NEW c, Holds(v, c), NEW k \in Nat, k <= Len(c), NEW e \in Values,
         NEW q, IsInserted(q, c, k, e)
  PROVE  Holds(Vectors!insert(v, k, e), q)
<1>1. PICK l \in Nat : l = Len(c)
  BY HoldsVector
<1>2. IsVector(v) /\ c \in Seq(Values) /\ v.size = l
  BY <1>1, HoldsVector
<1>3. /\ q \in Seq(Values) /\ Len(q) = l + 1
      /\ \A i \in 1 .. k : q[i] = c[i]
      /\ q[k + 1] = e
      /\ \A i \in k + 1 .. l : q[i + 1] = c[i]
  BY <1>1 DEF IsInserted
<1>4. CASE k = l
  <2>1. PICK d : d = <<e>> /\ d \in Seq(Values) /\ Len(d) = 1 /\ d[1] = e
    <3>1. <<e>> \in Seq(Values) /\ Len(<<e>>) = 1 /\ <<e>>[1] = e
      OBVIOUS
    <3> QED BY <3>1
  <2>2. PICK j : j = c \o d
    OBVIOUS
  <2>3. IsJoin(j, c, d)
    BY <1>2, <2>1, <2>2, JoinIs
  <2>4. /\ j \in Seq(Values) /\ Len(j) = l + 1
        /\ \A i \in 1 .. l : j[i] = c[i]
        /\ \A i \in 1 .. 1 : j[l + i] = d[i]
    BY <1>1, <2>1, <2>3 DEF IsJoin
  <2>5. ASSUME NEW i \in 1 .. l + 1 PROVE j[i] = q[i]
    <3>1. CASE i \in 1 .. l
      BY <1>3, <1>4, <2>4, <3>1
    <3>2. CASE i = l + 1
      BY <1>3, <1>4, <2>1, <2>4, <3>2
    <3> QED BY <3>1, <3>2
  <2>6. j = q
    BY <1>3, <2>4, <2>5, SeqEqual
  <2>7. Vectors!Read(v.slots, e) = e
    BY DEF Vectors!Read
  <2>8. Holds(Vectors!emplace_back(v, e), c \o <<e>>)
    BY <2>7, EmplaceHolds
  <2>9. Vectors!insert(v, k, e) = Vectors!emplace_back(v, e)
    BY <1>2, <1>4 DEF Vectors!insert
  <2> QED BY <2>1, <2>2, <2>6, <2>8, <2>9
<1>5. CASE k # l
  <2>1. PICK u : u = Vectors!reserve(v, l + 1)
    OBVIOUS
  <2>2. Holds(u, c) /\ l + 1 <= Len(u.slots)
    BY <2>1, ReserveHolds
  <2>3. PICK m \in Nat : m = Len(u.slots)
    BY <2>2, HoldsVector
  <2>4. PICK w : w = u.slots
    OBVIOUS
  <2>5. IsVector(u) /\ u.size = l /\ l + 1 <= m
    BY <1>1, <2>2, <2>3, HoldsVector
  <2>6. /\ IsSlots(w, m) /\ DOMAIN w = 1 .. m
        /\ \A i \in 1 .. l : w[i] = c[i] /\ w[i] \in Values
        /\ \A i \in 1 .. m : i > l => w[i] = RawSlot
    BY <1>1, <2>2, <2>3, <2>4, HoldsSlots
  <2>7. PICK d : d = <<w[l]>> /\ DOMAIN d = 1 .. 1 /\ d[1] = w[l]
    <3>1. DOMAIN <<w[l]>> = 1 .. 1 /\ <<w[l]>>[1] = w[l]
      OBVIOUS
    <3> QED BY <3>1
  <2>8. PICK more : more = Vectors!Construct(w, l, d)
    OBVIOUS
  <2>9. /\ DOMAIN more = 1 .. m
        /\ \A i \in 1 .. m : ~ (i - l \in 1 .. 1) => more[i] = w[i]
        /\ \A i \in 1 .. m : i - l \in 1 .. 1 /\ w[i] = RawSlot => more[i] = d[i - l]
    BY <2>6, <2>7, <2>8 DEF Vectors!Construct
  <2>10. more[l + 1] = c[l]
    <3>1. l + 1 \in 1 .. m /\ (l + 1) - l = 1 /\ l \in 1 .. l
      BY <1>1, <1>5, <2>5
    <3> QED BY <2>6, <2>7, <2>9, <3>1
  <2>11. \A i \in 1 .. l : more[i] = c[i] /\ c[i] \in Values
    <3>1. \A i \in 1 .. l : i \in 1 .. m /\ ~ (i - l \in 1 .. 1)
      BY <2>5
    <3> QED BY <2>6, <2>9, <3>1
  <2>12. \A i \in 1 .. m : i > l + 1 => more[i] = RawSlot
    BY <2>6, <2>9
  <2>13. PICK r : r = SubSeq(w, k + 1, l - 1)
    OBVIOUS
  <2>14. /\ DOMAIN r = 1 .. (l - 1) - k
         /\ \A i \in 1 .. (l - 1) - k : r[i] = c[k + i]
    <3>1. IsPart(SubSeq(c, k + 1, l - 1), c, k, l - 1)
      <4>1. l - 1 \in Nat /\ k <= l - 1 /\ l - 1 <= Len(c)
        BY <1>1, <1>5
      <4> QED BY <1>2, <4>1, PartIs
    <3>2. r = SubSeq(c, k + 1, l - 1)
      <4>1. /\ w \in Seq(Values \cup {RawSlot}) /\ c \in Seq(Values \cup {RawSlot})
            /\ Len(w) = m /\ Len(c) = l
        BY <1>1, <1>2, <2>2, <2>3, <2>4 DEF Holds
      <4> QED BY <1>1, <1>5, <2>5, <2>6, <2>13, <4>1, SamePartOf
    <3> QED BY <3>1, <3>2 DEF IsPart
  <2>15. PICK x : x = Vectors!Assign(more, k + 1, r)
    OBVIOUS
  <2>16. /\ DOMAIN x = 1 .. m
         /\ \A i \in 1 .. m : ~ (i - (k + 1) \in 1 .. (l - 1) - k) => x[i] = more[i]
         /\ \A i \in 1 .. m : i - (k + 1) \in 1 .. (l - 1) - k /\ more[i] \in Values
                                => x[i] = r[i - (k + 1)]
    BY <2>9, <2>14, <2>15, SlotFacts DEF Vectors!Assign
  <2>17. PICK b : b = <<e>> /\ DOMAIN b = 1 .. 1 /\ b[1] = e
    <3>1. DOMAIN <<e>> = 1 .. 1 /\ <<e>>[1] = e
      OBVIOUS
    <3> QED BY <3>1
  <2>18. PICK y : y = Vectors!Assign(x, k, b)
    OBVIOUS
  <2>19. /\ IsSlots(y, m)
         /\ \A i \in 1 .. m : ~ (i - k \in 1 .. 1) => y[i] = x[i]
         /\ \A i \in 1 .. m : i - k \in 1 .. 1 /\ x[i] \in Values => y[i] = b[i - k]
    BY <2>16, <2>17, <2>18, SlotFacts DEF Vectors!Assign, IsSlots
  <2>20. ASSUME NEW i \in 1 .. k PROVE y[i] = q[i]
    <3>1. /\ i \in 1 .. m /\ i \in 1 .. l /\ ~ (i - k \in 1 .. 1)
          /\ ~ (i - (k + 1) \in 1 .. (l - 1) - k)
      BY <1>1, <2>5
    <3> QED BY <1>3, <2>11, <2>16, <2>19, <3>1
  <2>21. y[k + 1] = q[k + 1]
    <3>1. /\ k + 1 \in 1 .. m /\ k + 1 \in 1 .. l /\ (k + 1) - k = 1
          /\ ~ ((k + 1) - (k + 1) \in 1 .. (l - 1) - k)
      BY <1>1, <1>5, <2>5
    <3>2. x[k + 1] \in Values
      BY <2>11, <2>16, <3>1
    <3> QED BY <1>3, <2>17, <2>19, <3>1, <3>2
  <2>22. ASSUME NEW i \in k + 1 .. l PROVE y[i + 1] = q[i + 1]
    <3>1. /\ i + 1 \in 1 .. m /\ ~ ((i + 1) - k \in 1 .. 1) /\ q[i + 1] = c[i]
      BY <1>3, <2>5
    <3>2. CASE i = l
      <4>1. ~ ((i + 1) - (k + 1) \in 1 .. (l - 1) - k)
        BY <3>2
      <4> QED BY <2>10, <2>16, <2>19, <3>1, <3>2, <4>1
    <3>3. CASE i # l
      <4>1. /\ (i + 1) - (k + 1) \in 1 .. (l - 1) - k /\ i + 1 \in 1 .. l
            /\ k + ((i + 1) - (k + 1)) = i
        BY <3>3
      <4>2. more[i + 1] \in Values /\ r[(i + 1) - (k + 1)] = c[i]
        BY <2>11, <2>14, <4>1
      <4> QED BY <2>16, <2>19, <3>1, <4>1, <4>2
    <3> QED BY <3>2, <3>3
  <2>23. ASSUME NEW i \in 1 .. Len(q) PROVE y[i] = q[i]
    <3>1. i \in 1 .. k \/ i = k + 1 \/ (i - 1 \in k + 1 .. l /\ (i - 1) + 1 = i)
      BY <1>1, <1>3
    <3> QED BY <2>20, <2>21, <2>22, <3>1
  <2>24. ASSUME NEW i \in 1 .. m, i > Len(q) PROVE y[i] = RawSlot
    <3>1. /\ ~ (i - k \in 1 .. 1) /\ ~ (i - (k + 1) \in 1 .. (l - 1) - k) /\ i > l + 1
      BY <1>1, <1>3, <2>24
    <3> QED BY <2>12, <2>16, <2>19, <3>1
  <2>25. y = Holding(q, m)
    BY <1>3, <2>5, <2>19, <2>23, <2>24, IsHolding
  <2>26. PICK z : z = Vectors!insert(v, k, e)
    OBVIOUS
  <2>27. z = [u EXCEPT !.slots = y, !.size = l + 1]
    BY <1>2, <1>5, <2>1, <2>4, <2>5, <2>7, <2>8, <2>13, <2>15, <2>17, <2>18, <2>26
       DEF Vectors!insert
  <2>28. IsVector(z) /\ z.size = l + 1 /\ z.slots = y
    BY <2>5, <2>27 DEF IsVector
  <2>29. Holds(z, q)
    BY <1>3, <2>5, <2>25, <2>28, MakeHolds
  <2> QED BY <2>26, <2>29
<1> QED BY <1>4, <1>5

\* All that is held is assigned anew.
LEMMA AssignAll ==
  ASSUME NEW v, NEW c, Holds(v, c), NEW d \in Seq(Values), Len(d) = Len(c),
         NEW u, u = [v EXCEPT !.slots = Vectors!Assign(@, 0, d)]
  PROVE  Holds(u, d)
<1>1. PICK m \in Nat : m = Len(v.slots)
  BY HoldsVector
<1>2. /\ IsVector(v) /\ c \in Seq(Values) /\ v.size = Len(c) /\ Len(c) <= m
      /\ v.slots = Holding(c, m) /\ Len(c) \in Nat
  BY <1>1, HoldsVector
<1>3. PICK x : x = Vectors!Assign(Holding(c, m), 0, d)
  OBVIOUS
<1>4. /\ IsSlots(x, m) /\ \A i \in 1 .. Len(d) : x[i] = d[i]
      /\ \A i \in 1 .. m : i > Len(c) => x[i] = RawSlot
  BY <1>2, <1>3, AssignFront
<1>5. x = Holding(d, m)
  BY <1>2, <1>4, IsHolding
<1>6. IsVector(u) /\ u.size = Len(d) /\ u.slots = x
  BY <1>2, <1>3 DEF IsVector
<1> QED BY <1>2, <1>5, <1>6, MakeHolds

LEMMA CopyHolds ==
  ASSUME NEW v, NEW c, Holds(v, c), NEW u, NEW d, Holds(u, d)
  PROVE  Holds(Vectors!CopyFrom(v, u), d)
<1>1. PICK k \in Nat, l \in Nat : k = Len(c) /\ l = Len(d)
  BY HoldsVector
<1>2. v.size = k /\ u.size = l /\ c \in Seq(Values) /\ d \in Seq(Values)
  BY <1>1, HoldsVector
<1>3. Vectors!ElementsOf(u) = d
  <2>1. 0 \in Nat /\ 0 <= Len(d)
    BY <1>1
  <2> QED BY <2>1, ElementsAre
<1>4. CASE k < l
  <2>1. PICK f : f = SubSeq(u.slots, 1, k)
    OBVIOUS
  <2>2. PICK r : r = SubSeq(u.slots, k + 1, l)
    OBVIOUS
  <2>3. f = SubSeq(d, 1, k) /\ r = SubSeq(d, k + 1, l)
    BY <1>1, <1>4, <2>1, <2>2, ElementsAre
  <2>4. IsPart(f, d, 0, k) /\ IsPart(r, d, k, l)
    BY <1>1, <1>2, <1>4, <2>3, FrontIs, PartIs
  <2>5. f \in Seq(Values) /\ r \in Seq(Values) /\ Len(f) = Len(c)
    BY <1>1, <2>4 DEF IsPart
  <2>6. PICK w : w = [Vectors!reserve(v, l) EXCEPT !.slots = Vectors!Assign(@, 0, f)]
    OBVIOUS
  <2>7. Holds(Vectors!reserve(v, l), c)
    BY ReserveHolds
  <2>8. Holds(w, f)
    BY <2>5, <2>6, <2>7, AssignAll
  <2>9. Holds(Vectors!AppendRange(w, r), f \o r)
    BY <2>5, <2>8, AppendRangeHolds
  <2>10. f \o r = d
    <3>1. k <= Len(d)
      BY <1>1, <1>4
    <3>2. SubSeq(d, 1, k) \o SubSeq(d, k + 1, Len(d)) = d
      BY <1>2, <3>1, TwoParts
    <3> QED BY <1>1, <2>3, <3>2, Zenon
  <2>11. Vectors!CopyFrom(v, u) = Vectors!AppendRange(w, r)
    BY <1>2, <1>4, <2>1, <2>2, <2>6 DEF Vectors!CopyFrom
  <2> QED BY <2>9, <2>10, <2>11
<1>5. CASE ~ (k < l)
  <2>1. PICK q : q = Vectors!Cut(c, l, k)
    OBVIOUS
  <2>2. IsCut(q, c, l, k)
    BY <1>1, <1>2, <1>5, <2>1, CutIs
  <2>3. Len(q) = Len(d)
    BY <1>1, <1>5, <2>2 DEF IsCut
  <2>4. PICK w : w = Vectors!erase(v, l, k)
    OBVIOUS
  <2>5. Holds(w, q)
    BY <1>1, <1>5, <2>1, <2>4, EraseHolds
  <2>6. Vectors!CopyFrom(v, u) = [w EXCEPT !.slots = Vectors!Assign(@, 0, d)]
    BY <1>2, <1>3, <1>5, <2>4 DEF Vectors!CopyFrom
  <2> QED BY <1>2, <2>3, <2>5, <2>6, AssignAll
<1> QED BY <1>4, <1>5

LEMMA ExchangeHolds ==
  ASSUME NEW v, NEW c, Holds(v, c), NEW u, NEW d, Holds(u, d), Len(d) <= Len(c)
  PROVE  Holds(Vectors!Exchange(v, u)[1], d) /\ Holds(Vectors!Exchange(v, u)[2], c)
<1>1. PICK k \in Nat, l \in Nat : k = Len(c) /\ l = Len(d)
  BY HoldsVector
<1>2. PICK m \in Nat : m = Len(v.slots)
  BY HoldsVector
<1>3. /\ IsVector(v) /\ v.size = k /\ u.size = l /\ c \in Seq(Values) /\ d \in Seq(Values)
      /\ l <= k /\ k <= m /\ v.slots = Holding(c, m)
  BY <1>1, <1>2, HoldsVector
<1>4. Vectors!ElementsOf(u) = d
  <2>1. 0 \in Nat /\ 0 <= Len(d)
    BY <1>1
  <2> QED BY <2>1, ElementsAre
<1>5. PICK f : f = SubSeq(v.slots, 1, l)
  OBVIOUS
<1>6. PICK r : r = SubSeq(v.slots, l + 1, k)
  OBVIOUS
<1>7. f = SubSeq(c, 1, l) /\ r = SubSeq(c, l + 1, k)
  <2>1. l <= Len(c)
    BY <1>1
  <2>2. /\ SubSeq(v.slots, 1, l) = SubSeq(c, 1, l)
        /\ SubSeq(v.slots, l + 1, Len(c)) = SubSeq(c, l + 1, Len(c))
    BY <2>1, ElementsAre
  <2> QED BY <1>1, <1>5, <1>6, <2>2, Zenon
<1>8. IsPart(f, c, 0, l) /\ IsPart(r, c, l, k)
  BY <1>1, <1>3, <1>7, FrontIs, PartIs
<1>9. f \in Seq(Values) /\ r \in Seq(Values) /\ Len(f) = l /\ Len(r) = k - l
  BY <1>8 DEF IsPart
<1>10. f \o r = c
  <2>1. l <= Len(c)
    BY <1>1, <1>3
  <2>2. SubSeq(c, 1, l) \o SubSeq(c, l + 1, Len(c)) = c
    BY <1>3, <2>1, TwoParts
  <2> QED BY <1>1, <1>7, <2>2, Zenon
<1>11. PICK x : x = Vectors!Assign(v.slots, 0, d)
  OBVIOUS
<1>12. /\ IsSlots(x, m) /\ DOMAIN x = 1 .. m
       /\ \A i \in 1 .. l : x[i] = d[i]
       /\ \A i \in 1 .. m : i > l /\ i <= k => x[i] \in Values
       /\ \A i \in 1 .. m : i > k => x[i] = RawSlot
  BY <1>1, <1>3, <1>11, AssignFront
<1>13. PICK y : y = Vectors!Destroy(x, l, k - l)
  OBVIOUS
<1>14. y = Holding(d, m)
  <2>1. /\ \A i \in 1 .. Len(d) : x[i] = d[i]
        /\ \A i \in 1 .. m : i > Len(d) /\ i <= k => x[i] \in Values
        /\ Len(d) <= k
    BY <1>1, <1>3, <1>12
  <2>2. Vectors!Destroy(x, Len(d), k - Len(d)) = Holding(d, m)
    BY <1>3, <1>12, <2>1, DestroyTail
  <2> QED BY <1>1, <1>13, <2>2
<1>15. PICK a : a = [v EXCEPT !.slots = y, !.size = l]
  OBVIOUS
<1>16. IsVector(a) /\ a.size = Len(d) /\ a.slots = y
  BY <1>1, <1>3, <1>15 DEF IsVector
<1>17. Holds(a, d)
  BY <1>1, <1>3, <1>14, <1>16, MakeHolds
<1>18. PICK room : room = Vectors!reserve(u, k)
  OBVIOUS
<1>19. Holds(room, d) /\ k <= Len(room.slots)
  BY <1>18, ReserveHolds
<1>20. PICK w : w = [room EXCEPT !.slots = Vectors!Assign(@, 0, f)]
  OBVIOUS
<1>21. Holds(w, f)
  BY <1>1, <1>9, <1>19, <1>20, AssignAll
<1>22. PICK h \in Nat : h = Len(room.slots)
  BY <1>19, HoldsVector
<1>23. PICK z : z = Vectors!Assign(room.slots, 0, f)
  OBVIOUS
<1>24. z = Holding(f, h)
  <2>1. /\ IsSlots(z, h) /\ \A i \in 1 .. Len(f) : z[i] = f[i]
        /\ \A i \in 1 .. h : i > Len(d) => z[i] = RawSlot
    <3>1. room.slots = Holding(d, h) /\ Len(f) <= Len(d) /\ Len(d) <= h
      BY <1>1, <1>9, <1>19, <1>22, HoldsVector
    <3>2. z = Vectors!Assign(Holding(d, h), 0, f)
      BY <1>23, <3>1
    <3>3. d \in Seq(Values) /\ f \in Seq(Values)
      BY <1>3, <1>9
    <3> QED BY <3>1, <3>2, <3>3, AssignFront
  <2>2. Len(f) <= h /\ Len(f) = Len(d)
    BY <1>1, <1>3, <1>9, <1>19, <1>22
  <2> QED BY <1>9, <2>1, <2>2, IsHolding
<1>25. PICK t : t = Vectors!Construct(z, l, r)
  OBVIOUS
<1>26. t = Holding(c, h)
  <2>1. Joins(c, f, r)
    BY <1>10 DEF Joins
  <2>2. Len(f) + Len(r) <= h
    BY <1>3, <1>9, <1>19, <1>22
  <2> QED BY <1>9, <1>24, <1>25, <2>1, <2>2, ConstructMore
<1>27. PICK b : b = [room EXCEPT !.slots = t, !.size = k]
  OBVIOUS
<1>28. IsVector(b) /\ b.size = Len(c) /\ b.slots = t
  <2>1. IsVector(room)
    BY <1>19, HoldsVector
  <2> QED BY <1>1, <1>27, <2>1 DEF IsVector
<1>29. Holds(b, c)
  BY <1>1, <1>3, <1>19, <1>22, <1>26, <1>28, MakeHolds
<1>30. Vectors!Exchange(v, u) = <<a, b>>
  <2>1. Vectors!Exchange(v, u) =
          << [v EXCEPT !.slots = Vectors!Destroy(Vectors!Assign(@, 0, d), l, Len(r)), !.size = l],
             [room EXCEPT !.slots = Vectors!Construct(Vectors!Assign(@, 0, f), l, r), !.size = k] >>
    BY <1>3, <1>4, <1>5, <1>6, <1>18 DEF Vectors!Exchange
  <2>2. [v EXCEPT !.slots = Vectors!Destroy(Vectors!Assign(@, 0, d), l, Len(r)), !.size = l] = a
    BY <1>3, <1>9, <1>11, <1>13, <1>15
  <2>3. [room EXCEPT !.slots = Vectors!Construct(Vectors!Assign(@, 0, f), l, r), !.size = k] = b
    BY <1>23, <1>25, <1>27
  <2> QED BY <2>1, <2>2, <2>3
<1> QED BY <1>17, <1>29, <1>30

LEMMA SwappedHolds ==
  ASSUME NEW v, NEW c, Holds(v, c), NEW u, NEW d, Holds(u, d)
  PROVE  Holds(Vectors!Swapped(v, u)[1], d) /\ Holds(Vectors!Swapped(v, u)[2], c)
<1>1. /\ v.size = Len(c) /\ u.size = Len(d) /\ Len(c) \in Nat /\ Len(d) \in Nat
  BY HoldsVector
<1>2. CASE ~ v.is_inline /\ ~ u.is_inline
  BY <1>2 DEF Vectors!Swapped
<1>3. CASE ~ (~ v.is_inline /\ ~ u.is_inline)
  <2>1. CASE v.size >= u.size
    <3>1. Len(d) <= Len(c)
      BY <1>1, <2>1
    <3>2. Vectors!Swapped(v, u) = Vectors!Exchange(v, u)
      BY <1>3, <2>1 DEF Vectors!Swapped
    <3> QED BY <3>1, <3>2, ExchangeHolds
  <2>2. CASE ~ (v.size >= u.size)
    <3>1. Len(c) <= Len(d)
      BY <1>1, <2>2
    <3>2. PICK both : both = Vectors!Exchange(u, v)
      OBVIOUS
    <3>3. Vectors!Swapped(v, u) = <<both[2], both[1]>>
      BY <1>3, <2>2, <3>2 DEF Vectors!Swapped
    <3>4. Holds(both[1], c) /\ Holds(both[2], d)
      BY <3>1, <3>2, ExchangeHolds
    <3> QED BY <3>3, <3>4
  <2> QED BY <2>1, <2>2
<1> QED BY <1>2, <1>3

-----------------------------------------------------------------------------
(* The invariant.                                                          *)

\* Each vector holds what its history says.
VecInv ==
  /\ vectors = [x \in {1, 2} |-> vectors[x]] /\ contents = [x \in {1, 2} |-> contents[x]]
  /\ \A x \in {1, 2} : Holds(vectors[x], contents[x])

LEMMA VecStart == Vectors!Init => VecInv
BY EmptyHolds DEF Vectors!Init, Vectors!Ids, VecInv

LEMMA BecomeHolds ==
  ASSUME VecInv, NEW x \in {1, 2}, NEW v, NEW c, Holds(v, c), Vectors!Become(x, v, c)
  PROVE  VecInv'
<1>1. /\ vectors' = [vectors EXCEPT ![x] = v]
      /\ contents' = [contents EXCEPT ![x] = c]
  BY DEF Vectors!Become
<1>2. /\ vectors = [z \in {1, 2} |-> vectors[z]] /\ contents = [z \in {1, 2} |-> contents[z]]
      /\ \A z \in {1, 2} : Holds(vectors[z], contents[z])
  BY DEF VecInv
<1>3. /\ DOMAIN vectors = {1, 2} /\ DOMAIN contents = {1, 2}
  BY <1>2
<1>4. /\ vectors' = [z \in {1, 2} |-> vectors'[z]] /\ contents' = [z \in {1, 2} |-> contents'[z]]
      /\ vectors'[x] = v /\ contents'[x] = c
      /\ \A z \in {1, 2} : z # x => vectors'[z] = vectors[z] /\ contents'[z] = contents[z]
  BY <1>1, <1>3
<1>5. ASSUME NEW z \in {1, 2} PROVE Holds(vectors'[z], contents'[z])
  BY <1>2, <1>4
<1>6. /\ vectors' = [z \in {1, 2} |-> vectors'[z]] /\ contents' = [z \in {1, 2} |-> contents'[z]]
      /\ \A z \in {1, 2} : Holds(vectors'[z], contents'[z])
  BY <1>4, <1>5
<1> QED BY <1>6 DEF VecInv

LEMMA VecMeans == VecInv => Vectors!VectorsHold
<1> SUFFICES ASSUME VecInv, NEW x \in {1, 2}
             PROVE  /\ vectors[x].size = Len(contents[x])
                    /\ vectors[x].slots = contents[x] \o Vectors!Memory(Vectors!capacity(vectors[x]) - Len(contents[x]))
  BY DEF Vectors!VectorsHold, Vectors!Ids
<1>1. PICK v : v = vectors[x]
  OBVIOUS
<1>2. PICK c : c = contents[x]
  OBVIOUS
<1>3. Holds(v, c)
  BY <1>1, <1>2 DEF VecInv
<1>4. PICK m \in Nat, l \in Nat : m = Len(v.slots) /\ l = Len(c)
  BY <1>3, HoldsVector
<1>5. /\ v.size = l /\ c \in Seq(Values) /\ l <= m /\ v.slots = Holding(c, m)
      /\ Vectors!capacity(v) = m
  BY <1>3, <1>4, HoldsVector
<1>6. PICK raw : raw = Vectors!Memory(m - l)
  OBVIOUS
<1>7. /\ DOMAIN raw = 1 .. m - l /\ Len(raw) = m - l
      /\ \A i \in 1 .. m - l : raw[i] = RawSlot
  <2>1. m - l \in Nat
    BY <1>5
  <2> QED BY <1>6, <2>1, MemoryIs
<1>8. raw \in Seq(Values \cup {RawSlot}) /\ c \in Seq(Values \cup {RawSlot})
  <2>1. raw = [i \in 1 .. m - l |-> RawSlot] /\ m - l \in Nat
    BY <1>5, <1>6 DEF Vectors!Memory
  <2>2. raw \in Seq(Values \cup {RawSlot})
    BY <2>1
  <2> QED BY <1>5, <2>2
<1>9. PICK j : j = c \o raw
  OBVIOUS
<1>10. /\ j \in Seq(Values \cup {RawSlot}) /\ Len(j) = l + (m - l)
       /\ \A i \in 1 .. l : j[i] = c[i]
       /\ \A i \in 1 .. m - l : j[l + i] = raw[i]
  BY <1>4, <1>7, <1>8, <1>9
<1>11. PICK w : w = Holding(c, m)
  OBVIOUS
<1>12. /\ w \in Seq(Values \cup {RawSlot}) /\ Len(w) = m
       /\ \A i \in 1 .. l : w[i] = c[i]
       /\ \A i \in 1 .. m : i > l => w[i] = RawSlot
  BY <1>4, <1>5, <1>11, HoldingIs
<1>13. ASSUME NEW i \in 1 .. m PROVE j[i] = w[i]
  <2>1. CASE i <= l
    BY <1>10, <1>12, <2>1
  <2>2. CASE i > l
    <3>1. i - l \in 1 .. m - l /\ l + (i - l) = i
      BY <2>2
    <3>2. j[l + (i - l)] = RawSlot
      BY <1>7, <1>10, <3>1
    <3> QED BY <1>12, <2>2, <3>1, <3>2
  <2> QED BY <2>1, <2>2
<1>14. j = w
  <2>1. Len(j) = m
    BY <1>5, <1>10
  <2> QED BY <1>10, <1>12, <1>13, <2>1, SeqEqual
<1>15. /\ v.size = Len(c) /\ v.slots = c \o Vectors!Memory(Vectors!capacity(v) - Len(c))
  BY <1>4, <1>5, <1>6, <1>9, <1>11, <1>14
<1> QED BY <1>1, <1>2, <1>15

LEMMA VecStep == VecInv /\ [Vectors!Next]_inlined => VecInv'
<1> SUFFICES ASSUME VecInv, [Vectors!Next]_inlined PROVE VecInv'
  OBVIOUS
<1>1. CASE UNCHANGED inlined
  BY <1>1 DEF inlined, VecInv
<1>2. CASE Vectors!Next
  <2>1. PICK x \in {1, 2} :
          \/ Vectors!PushBack(x) \/ Vectors!Insert(x) \/ Vectors!Erase(x) \/ Vectors!Reserve(x)
          \/ Vectors!ResizeTo(x) \/ Vectors!Clear(x) \/ Vectors!New(x) \/ Vectors!CopyAssign(x)
          \/ Vectors!Swap(x)
    BY <1>2 DEF Vectors!Next, Vectors!Ids
  <2>2. PICK v, c : v = vectors[x] /\ c = contents[x]
    OBVIOUS
  <2>3. /\ Holds(v, c) /\ c \in Seq(Values) /\ Len(c) \in Nat
        /\ \A y \in {1, 2} : Holds(vectors[y], contents[y])
    BY <2>2, HoldsVector DEF VecInv
  <2>4. CASE Vectors!PushBack(x)
    <3>1. PICK a \in Values \cup DOMAIN c :
            Vectors!Become(x, Vectors!emplace_back(v, a), Append(c, Vectors!Read(c, a)))
      BY <2>2, <2>4 DEF Vectors!PushBack
    <3>2. PICK r : r = Vectors!Read(c, a)
      OBVIOUS
    <3>3. r \in Values /\ Vectors!Read(v.slots, a) = r
      <4>1. CASE a \in Values
        BY <3>2, <4>1 DEF Vectors!Read
      <4>2. CASE a \notin Values
        <5>1. a \in 1 .. Len(c)
          BY <2>3, <3>1, <4>2
        <5>2. v.slots[a] = c[a] /\ c[a] \in Values
          BY <2>3, <5>1, HoldsMeans
        <5> QED BY <3>2, <4>2, <5>2 DEF Vectors!Read
      <4> QED BY <4>1, <4>2
    <3>4. Holds(Vectors!emplace_back(v, a), c \o <<r>>)
      BY <2>3, <3>3, EmplaceHolds
    <3>5. c \o <<r>> = Append(c, r)
      BY <2>3, <3>3
    <3> QED BY <3>1, <3>2, <3>4, <3>5, BecomeHolds
  <2>5. CASE Vectors!Insert(x)
    <3>1. PICK k \in 0 .. Len(c), e \in Values :
            Vectors!Become(x, Vectors!insert(v, k, e),
                           SubSeq(c, 1, k) \o <<e>> \o SubSeq(c, k + 1, Len(c)))
      BY <2>2, <2>5 DEF Vectors!Insert
    <3>2. k \in Nat /\ k <= Len(c)
      BY <2>3, <3>1
    <3>3. PICK q : q = SubSeq(c, 1, k) \o <<e>> \o SubSeq(c, k + 1, Len(c))
      OBVIOUS
    <3>4. IsInserted(q, c, k, e)
      BY <2>3, <3>2, <3>3, InsertedIs
    <3>5. Holds(Vectors!insert(v, k, e), q)
      BY <2>3, <3>2, <3>4, InsertHolds
    <3> QED BY <3>1, <3>3, <3>5, BecomeHolds
  <2>6. CASE Vectors!Erase(x)
    <3>1. PICK a \in 0 .. Len(c), b \in 0 .. Len(c) :
            a <= b /\ Vectors!Become(x, Vectors!erase(v, a, b), Vectors!Cut(c, a, b))
      BY <2>2, <2>6 DEF Vectors!Erase
    <3>2. a \in Nat /\ b \in Nat /\ b <= Len(c)
      BY <2>3, <3>1
    <3>3. Holds(Vectors!erase(v, a, b), Vectors!Cut(c, a, b))
      BY <2>3, <3>1, <3>2, EraseHolds
    <3> QED BY <3>1, <3>3, BecomeHolds
  <2>7. CASE Vectors!Reserve(x)
    <3>1. PICK k \in 0 .. MaxSize : Vectors!Become(x, Vectors!reserve(v, k), c)
      BY <2>2, <2>7 DEF Vectors!Reserve
    <3>2. Holds(Vectors!reserve(v, k), c)
      <4>1. k \in Nat
        BY <3>1
      <4> QED BY <2>3, <4>1, ReserveHolds
    <3> QED BY <3>1, <3>2, BecomeHolds
  <2>8. CASE Vectors!ResizeTo(x)
    <3>1. PICK k \in 0 .. MaxSize, e \in Values :
            Vectors!Become(x, Vectors!Resize(v, k, e),
                           [i \in 1 .. k |-> IF i <= Len(c) THEN c[i] ELSE e])
      BY <2>2, <2>8 DEF Vectors!ResizeTo
    <3>2. k \in Nat
      BY <3>1
    <3>3. Holds(Vectors!Resize(v, k, e), [i \in 1 .. k |-> IF i <= Len(c) THEN c[i] ELSE e])
      BY <2>3, <3>2, ResizeHolds
    <3> QED BY <3>1, <3>3, BecomeHolds
  <2>9. CASE Vectors!Clear(x)
    BY <2>9, EmptyHolds, BecomeHolds DEF Vectors!Clear
  <2>10. CASE Vectors!New(x)
    <3>1. PICK y \in {1, 2} :
            \/ Vectors!Become(x, Vectors!AppendRange(Vectors!Empty, contents[y]), contents[y])
            \/ Vectors!Become(x, Vectors!CopyFrom(Vectors!Empty, vectors[y]), contents[y])
      BY <2>10 DEF Vectors!New, Vectors!Ids
    <3>2. PICK u, d : u = vectors[y] /\ d = contents[y]
      OBVIOUS
    <3>3. Holds(u, d) /\ d \in Seq(Values)
      BY <2>3, <3>2, HoldsVector
    <3>4. Holds(Vectors!CopyFrom(Vectors!Empty, u), d)
      BY <3>3, EmptyHolds, CopyHolds
    <3>5. Holds(Vectors!AppendRange(Vectors!Empty, d), d)
      <4>1. Holds(Vectors!AppendRange(Vectors!Empty, d), <<>> \o d)
        BY <3>3, EmptyHolds, AppendRangeHolds
      <4>2. <<>> \o d = d
        BY <3>3
      <4> QED BY <4>1, <4>2
    <3> QED BY <3>1, <3>2, <3>4, <3>5, BecomeHolds
  <2>11. CASE Vectors!CopyAssign(x)
    <3>1. PICK y \in {1, 2} : Vectors!Become(x, Vectors!CopyFrom(v, vectors[y]), contents[y])
      BY <2>2, <2>11 DEF Vectors!CopyAssign, Vectors!Ids
    <3>2. Holds(Vectors!CopyFrom(v, vectors[y]), contents[y])
      BY <2>3, CopyHolds
    <3> QED BY <3>1, <3>2, BecomeHolds
  <2>12. CASE Vectors!Swap(x)
    <3>1. PICK y \in {1, 2} \ {x} :
            LET both == Vectors!Swapped(v, vectors[y])
            IN  /\ vectors'  = [z \in {1, 2} |-> IF z = x THEN both[1] ELSE both[2]]
                /\ contents' = [z \in {1, 2} |-> IF z = x THEN contents[y] ELSE c]
      BY <2>2, <2>12 DEF Vectors!Swap, Vectors!Ids
    <3>2. PICK both : both = Vectors!Swapped(v, vectors[y])
      OBVIOUS
    <3>3. /\ vectors'  = [z \in {1, 2} |-> IF z = x THEN both[1] ELSE both[2]]
          /\ contents' = [z \in {1, 2} |-> IF z = x THEN contents[y] ELSE c]
      BY <3>1, <3>2
    <3>4. Holds(both[1], contents[y]) /\ Holds(both[2], c)
      BY <2>3, <3>2, SwappedHolds
    <3>5. PICK d : d = contents[y]
      OBVIOUS
    <3>6. /\ vectors' = [z \in {1, 2} |-> vectors'[z]] /\ contents' = [z \in {1, 2} |-> contents'[z]]
          /\ vectors'[x] = both[1] /\ contents'[x] = d
          /\ \A z \in {1, 2} : z # x => vectors'[z] = both[2] /\ contents'[z] = c
      BY <3>3, <3>5
    <3>7. ASSUME NEW z \in {1, 2} PROVE Holds(vectors'[z], contents'[z])
      BY <3>4, <3>5, <3>6
    <3>8. /\ vectors' = [z \in {1, 2} |-> vectors'[z]] /\ contents' = [z \in {1, 2} |-> contents'[z]]
          /\ \A z \in {1, 2} : Holds(vectors'[z], contents'[z])
      BY <3>6, <3>7
    <3> QED BY <3>8 DEF VecInv
  <2> QED BY <2>1, <2>4, <2>5, <2>6, <2>7, <2>8, <2>9, <2>10, <2>11, <2>12
<1> QED BY <1>1, <1>2

-----------------------------------------------------------------------------
(* Both, where the run checks them: with the other components.             *)

LEMMA MemoryStart == MCInit => ArenaInv /\ VecInv
BY ArenaStart, VecStart DEF MCInit

LEMMA MemoryStep == ArenaInv /\ VecInv /\ [MCNext]_MCvars => (ArenaInv /\ VecInv)'
<1>1. [MCNext]_MCvars => [Pieces!Next]_arena
  BY DEF MCNext, Only, Is, MCvars, rest
<1>2. [MCNext]_MCvars => [Vectors!Next]_inlined
  BY DEF MCNext, Only, Is, MCvars
<1>3. ArenaInv /\ [Pieces!Next]_arena => ArenaInv'
  BY ArenaStep
<1>4. VecInv /\ [Vectors!Next]_inlined => VecInv'
  BY VecStep
<1> QED BY <1>1, <1>2, <1>3, <1>4

\* Memory that an InlinedVector or an Arena has given is kept, apart from all
\* else, until it is given back (inlined_vector.h; arena.cc, Alloc and Reset).
THEOREM MemoryKept == MCSpec => []MemoryHolds
<1>1. ArenaInv /\ VecInv => MemoryHolds
  BY ArenaMeans, VecMeans DEF MemoryHolds
<1> QED BY <1>1, MemoryStart, MemoryStep, PTL DEF MCSpec

-----------------------------------------------------------------------------
(* The bitmap.                                                             *)

BitmapInv == nbits_ \in Nat

LEMMA LeastIs ==
  ASSUME NEW T, T \subseteq Nat, T # {}
  PROVE  /\ Bits!Min(T) \in T
         /\ \A y \in T : Bits!Min(T) <= y
BY LeastNatural DEF Bits!Min

LEMMA LeastOf ==
  ASSUME NEW T, T \subseteq Nat, NEW m \in T, \A y \in T : m <= y
  PROVE  Bits!Min(T) = m
<1>1. Bits!Min(T) \in T /\ Bits!Min(T) <= m
  BY LeastIs
<1>2. m <= Bits!Min(T)
  BY <1>1
<1>3. Bits!Min(T) \in Nat /\ m \in Nat
  BY <1>1
<1> QED BY <1>1, <1>2, <1>3

(* A position is a bit of a word, and a word before another lies before it. *)
LEMMA PositionIs ==
  ASSUME NEW p \in Nat, NEW k \in Nat \ {0}
  PROVE  /\ p \div k \in Nat /\ p % k \in 0 .. k - 1
         /\ p = (p \div k) * k + (p % k)
OBVIOUS

LEMMA ProductGrows ==
  ASSUME NEW i \in Int, NEW j \in Int, i < j, NEW k \in Nat
  PROVE  /\ i * k \in Int /\ j * k \in Int
         /\ i * k + k <= j * k
<1>1. PICK d \in Nat : j = i + 1 + d
  <2>1. j - i - 1 \in Nat /\ j = i + 1 + (j - i - 1)
    OBVIOUS
  <2> QED BY <2>1
<1>2. (i + 1 + d) * k = i * k + k + d * k
  OBVIOUS
<1>3. d * k \in Nat /\ i * k \in Int
  OBVIOUS
<1> QED BY <1>1, <1>2, <1>3

LEMMA WordsBefore ==
  ASSUME NEW i \in Int, NEW j \in Int, NEW k \in Nat \ {0},
         NEW b \in 0 .. k - 1, NEW c \in 0 .. k - 1, i * k + b <= j * k + c
  PROVE  i <= j
<1> SUFFICES ASSUME j < i PROVE FALSE
  OBVIOUS
<1>1. j * k + k <= i * k /\ j * k \in Int /\ i * k \in Int
  BY ProductGrows
<1> QED BY <1>1

LEMMA WordIs ==
  ASSUME NEW i \in Int, NEW k \in Nat \ {0}, NEW b \in 0 .. k - 1, i * k + b \in Nat
  PROVE  (i * k + b) \div k = i /\ (i * k + b) % k = b
<1>1. PICK p \in Nat : p = i * k + b
  OBVIOUS
<1>2. p \div k \in Nat /\ p % k \in 0 .. k - 1 /\ p = (p \div k) * k + (p % k)
  BY PositionIs
<1>3. PICK j \in Nat : j = p \div k
  BY <1>2
<1>4. PICK c \in 0 .. k - 1 : c = p % k
  BY <1>2
<1>5. i * k + b = j * k + c /\ i * k \in Int /\ j * k \in Int
  BY <1>1, <1>2, <1>3, <1>4
<1>6. i <= j
  <2>1. i * k + b <= j * k + c
    BY <1>5
  <2> QED BY <2>1, WordsBefore
<1>7. j <= i
  <2>1. j * k + c <= i * k + b
    BY <1>5
  <2> QED BY <2>1, WordsBefore
<1>8. i = j /\ b = c
  <2>1. i = j
    BY <1>6, <1>7
  <2> QED BY <1>5, <2>1
<1> QED BY <1>1, <1>3, <1>4, <1>8

LEMMA WordsCover ==
  ASSUME NEW n_ \in Nat, NEW p \in Nat, p < n_, kBits \in Nat \ {0}
  PROVE  p \div kBits <= Bits!NumWords(n_) - 1 /\ Bits!NumWords(n_) \in Nat
<1>1. PICK k \in Nat \ {0} : k = kBits
  OBVIOUS
<1>2. PICK m \in Nat : m = n_ + k - 1
  <2>1. n_ + k - 1 \in Nat
    OBVIOUS
  <2> QED BY <2>1
<1>3. /\ p \div k \in Nat /\ p % k \in 0 .. k - 1 /\ p = (p \div k) * k + (p % k)
      /\ m \div k \in Nat /\ m % k \in 0 .. k - 1 /\ m = (m \div k) * k + (m % k)
  BY PositionIs
<1>4. PICK i \in Nat : i = p \div k
  BY <1>3
<1>5. PICK j \in Nat : j = m \div k
  BY <1>3
<1>6. (i + 1) * k + 0 <= j * k + (m % k)
  <2>1. (i + 1) * k = i * k + k /\ i * k \in Nat /\ j * k \in Nat
    OBVIOUS
  <2> QED BY <1>2, <1>3, <1>4, <1>5, <2>1
<1>7. i + 1 <= j
  BY <1>3, <1>6, WordsBefore
<1> QED BY <1>1, <1>2, <1>4, <1>5, <1>7 DEF Bits!NumWords

LEMMA FirstUnsetIs ==
  ASSUME BitmapInv, kBits \in Nat \ {0}, NEW start \in Nat
  PROVE  Bits!FirstUnset(start)
           = Bits!Min({i \in start .. nbits_ - 1 : i \notin word_} \cup {nbits_})
<1> DEFINE U == {i \in start .. nbits_ - 1 : i \notin word_}
           F == {i \in start \div kBits .. Bits!NumWords(nbits_) - 1 : Bits!UnsetIn(i, start) # {}}
<1>1. PICK k \in Nat \ {0} : k = kBits
  OBVIOUS
<1>2. PICK z \in Nat : z = nbits_
  BY DEF BitmapInv
<1>3. /\ start \div k \in Nat /\ start % k \in 0 .. k - 1
      /\ start = (start \div k) * k + (start % k)
  BY PositionIs
<1>4. PICK w \in Nat : w = start \div k
  BY <1>3
<1>5. PICK c \in 0 .. k - 1 : c = start % k
  BY <1>3
<1>6. start = w * k + c /\ w * k \in Nat
  BY <1>3, <1>4, <1>5
<1>7. ASSUME NEW i \in Int
      PROVE  /\ Bits!UnsetIn(i, start) \subseteq 0 .. k - 1
             /\ \A b \in 0 .. k - 1 : b \in Bits!UnsetIn(i, start)
                  <=> i * k + b \notin word_ /\ (i = w => b >= c)
  BY <1>1, <1>4, <1>5 DEF Bits!UnsetIn
<1>8. /\ F \subseteq Nat
      /\ \A i \in Nat : i \in F <=> /\ w <= i /\ i <= Bits!NumWords(z) - 1
                                    /\ Bits!UnsetIn(i, start) # {}
  BY <1>1, <1>2, <1>4
<1>9. ASSUME NEW p \in U
      PROVE  /\ p \in Nat /\ p \div k \in F /\ p % k \in Bits!UnsetIn(p \div k, start)
             /\ p % k \in 0 .. k - 1 /\ p = (p \div k) * k + (p % k) /\ p \div k \in Nat
  <2>1. p \in Nat /\ start <= p /\ p < z /\ p \notin word_
    BY <1>2
  <2>2. p \div k \in Nat /\ p % k \in 0 .. k - 1 /\ p = (p \div k) * k + (p % k)
    BY <2>1, PositionIs
  <2>3. PICK i \in Nat : i = p \div k
    BY <2>2
  <2>4. PICK b \in 0 .. k - 1 : b = p % k
    BY <2>2
  <2>5. p = i * k + b /\ i * k \in Nat
    BY <2>2, <2>3, <2>4
  <2>6. w <= i
    <3>1. w * k + c <= i * k + b
      BY <1>6, <2>1, <2>5
    <3> QED BY <3>1, WordsBefore
  <2>7. i = w => b >= c
    BY <1>6, <2>1, <2>5
  <2>8. b \in Bits!UnsetIn(i, start)
    BY <1>7, <2>1, <2>5, <2>7
  <2>9. i <= Bits!NumWords(z) - 1
    BY <1>1, <2>1, <2>3, WordsCover
  <2>10. i \in F
    BY <1>8, <2>6, <2>8, <2>9
  <2> QED BY <2>1, <2>2, <2>3, <2>4, <2>5, <2>8, <2>10
<1>10. /\ U \subseteq Nat /\ U \cup {nbits_} \subseteq Nat /\ nbits_ \in U \cup {nbits_}
       /\ \A p \in U : start <= p /\ p < nbits_
  BY <1>2
<1>11. Bits!FirstUnset(start)
         = IF start >= nbits_ \/ F = {} THEN nbits_
           ELSE Bits!Min({Bits!Min(F) * kBits + Bits!Min(Bits!UnsetIn(Bits!Min(F), start)), nbits_})
  BY DEF Bits!FirstUnset
<1>12. CASE start >= nbits_ \/ F = {}
  <2>1. U = {}
    <3>1. CASE start >= nbits_
      BY <1>2, <1>10, <3>1
    <3>2. CASE F = {}
      BY <1>9, <3>2
    <3> QED BY <1>12, <3>1, <3>2
  <2>2. Bits!Min(U \cup {nbits_}) = nbits_
    <3> HIDE DEF U
    <3>1. \A y \in U \cup {nbits_} : nbits_ <= y
      BY <1>2, <2>1
    <3> QED BY <1>10, <3>1, LeastOf
  <2> QED BY <1>11, <1>12, <2>2
<1>13. CASE ~ (start >= nbits_ \/ F = {})
  <2>1. PICK i \in Nat : i = Bits!Min(F) /\ i \in F /\ \A j \in F : i <= j
    <3> HIDE DEF F
    <3> QED BY <1>8, <1>13, LeastIs
  <2>2. PICK T : T = Bits!UnsetIn(i, start)
    OBVIOUS
  <2>3. T \subseteq 0 .. k - 1 /\ T # {} /\ T \subseteq Nat /\ w <= i
    <3>1. T \subseteq 0 .. k - 1
      BY <1>7, <2>2
    <3>2. T # {} /\ w <= i
      <4> HIDE DEF F
      <4> QED BY <1>8, <2>1, <2>2
    <3> QED BY <3>1, <3>2
  <2>4. PICK b \in 0 .. k - 1 : b = Bits!Min(T) /\ b \in T /\ \A y \in T : b <= y
    BY <2>3, LeastIs
  <2>5. PICK q \in Nat : q = i * k + b
    <3>1. i * k + b \in Nat
      OBVIOUS
    <3> QED BY <3>1
  <2>6. q \notin word_ /\ start <= q
    <3>1. q \notin word_ /\ (i = w => b >= c)
      BY <1>7, <2>2, <2>4, <2>5
    <3>2. CASE i = w
      BY <1>6, <2>5, <3>1, <3>2
    <3>3. CASE i # w
      <4>1. w * k + k <= i * k /\ i * k \in Int
        <5>1. w < i
          BY <2>3, <3>3
        <5> QED BY <5>1, ProductGrows
      <4>2. PICK u \in Int : u = w * k
        BY <1>6
      <4>3. PICK v \in Int : v = i * k
        BY <4>1
      <4>4. start = u + c /\ q = v + b /\ u + k <= v
        BY <1>6, <2>5, <4>1, <4>2, <4>3
      <4>5. start <= q
        BY <4>4
      <4> QED BY <3>1, <4>5
    <3> QED BY <3>1, <3>2, <3>3
  <2>7. ASSUME NEW p \in U PROVE q <= p
    <3>1. PICK j \in Nat : j = p \div k
      BY <1>9
    <3>2. PICK d \in 0 .. k - 1 : d = p % k
      BY <1>9
    <3>3. p \in Nat /\ j \in F /\ d \in Bits!UnsetIn(j, start) /\ p = j * k + d
      BY <1>9, <3>1, <3>2
    <3>4. i <= j
      BY <2>1, <3>3
    <3>5. CASE i = j
      BY <2>2, <2>4, <2>5, <3>3, <3>5
    <3>6. CASE i # j
      <4>1. i * k + k <= j * k /\ i * k \in Int /\ j * k \in Int
        BY <3>4, <3>6, ProductGrows
      <4> QED BY <2>5, <3>3, <4>1
    <3> QED BY <3>5, <3>6
  <2>8. Bits!FirstUnset(start) = Bits!Min({q, nbits_})
    BY <1>1, <1>11, <1>13, <2>1, <2>2, <2>4, <2>5
  <2>9. {q, nbits_} \subseteq Nat
    BY <1>2
  <2>10. CASE q < nbits_
    <3>1. q \in U
      BY <1>2, <2>6, <2>10
    <3>2. Bits!Min({q, nbits_}) = q
      <4>1. q \in {q, nbits_} /\ \A y \in {q, nbits_} : q <= y
        BY <1>2, <2>10
      <4> QED BY <2>9, <4>1, LeastOf
    <3>3. Bits!Min(U \cup {nbits_}) = q
      <4>1. q \in U \cup {nbits_} /\ \A y \in U \cup {nbits_} : q <= y
        BY <2>7, <2>10, <3>1
      <4> HIDE DEF U
      <4> QED BY <1>10, <4>1, LeastOf
    <3> QED BY <2>8, <3>2, <3>3
  <2>11. CASE ~ q < nbits_
    <3>1. U = {}
      BY <1>2, <1>10, <2>7, <2>11
    <3>2. Bits!Min({q, nbits_}) = nbits_
      <4>1. nbits_ \in {q, nbits_} /\ \A y \in {q, nbits_} : nbits_ <= y
        BY <1>2, <2>11
      <4> QED BY <2>9, <4>1, LeastOf
    <3>3. Bits!Min(U \cup {nbits_}) = nbits_
      <4> HIDE DEF U
      <4>1. \A y \in U \cup {nbits_} : nbits_ <= y
        BY <1>2, <3>1
      <4> QED BY <1>10, <4>1, LeastOf
    <3> QED BY <2>8, <3>2, <3>3
  <2> QED BY <2>10, <2>11
<1> QED BY <1>12, <1>13

\* From any start FirstUnset is the first position that is not set, and the
\* number of bits when there is none (bitmap.cc, FirstUnset).
THEOREM UnsetFound == MCSpec => [](Is("Bitmap") => Bits!FirstUnsetAgrees)
<1>1. kBits \in Nat \ {0} /\ MaxBits \in Nat
  BY MCSequentialAssumption DEF Bits!BitmapAssumption
<1>2. MCInit => BitmapInv
  BY DEF MCInit, Bits!Init, BitmapInv
<1>3. [MCNext]_MCvars => [Bits!Next]_bitmap
  BY DEF MCNext, Only, Is, MCvars, rest
<1>4. BitmapInv /\ [Bits!Next]_bitmap => BitmapInv'
  BY <1>1 DEF BitmapInv, Bits!Next, Bits!Reset, Bits!set, Bits!clear, bitmap
<1>5. BitmapInv => Bits!FirstUnsetAgrees
  BY <1>1, FirstUnsetIs DEF BitmapInv, Bits!FirstUnsetAgrees
<1> QED BY <1>2, <1>3, <1>4, <1>5, PTL DEF MCSpec

-----------------------------------------------------------------------------
(* Sums over finite sets.                                                  *)

\* The sum that the library defines, by taking one element after the other.
Total(f, S) == Sampler!SumFunctionOnSet(f, S)

Some(S) == CHOOSE x \in S : TRUE

Summed(g, f, S) ==
  g = [t \in SUBSET S |-> IF t = {} THEN 0 ELSE f[Some(t)] + g[t \ {Some(t)}]]

LEMMA TotalIs ==
  ASSUME NEW f, NEW S
  PROVE  Total(f, S) = (CHOOSE g : Summed(g, f, S))[S]
BY DEF Total, Sampler!SumFunctionOnSet, Sampler!FoldFunctionOnSet, Sampler!MapThenFoldSet,
       Summed, Some

LEMMA SomeOne ==
  ASSUME NEW S, IsFiniteSet(S), S # {}
  PROVE  /\ Some(S) \in S /\ IsFiniteSet(S \ {Some(S)})
         /\ Cardinality(S) \in Nat /\ Cardinality(S) > 0
         /\ Cardinality(S \ {Some(S)}) = Cardinality(S) - 1
<1>1. Some(S) \in S
  BY DEF Some
<1>2. /\ Cardinality(S) \in Nat
      /\ IsFiniteSet(S \ {Some(S)}) /\ Cardinality(S \ {Some(S)}) = Cardinality(S) - 1
      /\ Cardinality(S \ {Some(S)}) \in Nat
  BY <1>1, FS_RemoveElement, FS_CardinalityType
<1> QED BY <1>1, <1>2

(* Such a function exists: first up to a number of elements.               *)
UpTo(g, f, S, k) ==
  g = [t \in SUBSET S |-> IF t = {} \/ Cardinality(t) > k THEN 0
                          ELSE f[Some(t)] + g[t \ {Some(t)}]]

LEMMA UpToStart ==
  ASSUME NEW f, NEW S, IsFiniteSet(S)
  PROVE  \E g : UpTo(g, f, S, 0)
<1> DEFINE g == [t \in SUBSET S |-> 0]
<1>1. ASSUME NEW t \in SUBSET S PROVE t = {} \/ Cardinality(t) > 0
  BY SomeOne, FS_Subset
<1>2. g = [t \in SUBSET S |-> IF t = {} \/ Cardinality(t) > 0 THEN 0
                              ELSE f[Some(t)] + g[t \ {Some(t)}]]
  BY <1>1
<1> QED BY <1>2 DEF UpTo

LEMMA UpToMore ==
  ASSUME NEW f, NEW S, IsFiniteSet(S), NEW k \in Nat, NEW g, UpTo(g, f, S, k)
  PROVE  \E h : UpTo(h, f, S, k + 1)
<1> DEFINE h == [t \in SUBSET S |-> IF t = {} \/ Cardinality(t) > k + 1 THEN 0
                                    ELSE f[Some(t)] + g[t \ {Some(t)}]]
<1>1. ASSUME NEW t \in SUBSET S, t # {}, ~ Cardinality(t) > k + 1
      PROVE  h[t \ {Some(t)}] = g[t \ {Some(t)}]
  <2>1. IsFiniteSet(t)
    BY FS_Subset
  <2>2. PICK r : r = t \ {Some(t)}
    OBVIOUS
  <2>3. r \in SUBSET S /\ IsFiniteSet(r) /\ Cardinality(r) \in Nat /\ ~ Cardinality(r) > k
    BY <1>1, <2>1, <2>2, SomeOne
  <2>4. g[r] = IF r = {} THEN 0 ELSE f[Some(r)] + g[r \ {Some(r)}]
    BY <2>3 DEF UpTo
  <2>5. h[r] = IF r = {} THEN 0 ELSE f[Some(r)] + g[r \ {Some(r)}]
    BY <2>3
  <2> QED BY <2>2, <2>4, <2>5
<1>2. h = [t \in SUBSET S |-> IF t = {} \/ Cardinality(t) > k + 1 THEN 0
                              ELSE f[Some(t)] + h[t \ {Some(t)}]]
  BY <1>1
<1> QED BY <1>2 DEF UpTo

LEMMA UpToAny ==
  ASSUME NEW f, NEW S, IsFiniteSet(S), NEW k \in Nat
  PROVE  \E g : UpTo(g, f, S, k)
<1> DEFINE T == {m \in Nat : ~ \E g : UpTo(g, f, S, m)}
<1> SUFFICES ASSUME T # {} PROVE FALSE
  OBVIOUS
<1>1. PICK m \in T : \A y \in T : m <= y
  <2> HIDE DEF T
  <2>1. T \subseteq Nat
    BY DEF T
  <2> QED BY <2>1, LeastNatural
<1>2. m # 0
  BY UpToStart
<1>3. m - 1 \in Nat /\ m - 1 \notin T
  BY <1>1, <1>2
<1>4. PICK g : UpTo(g, f, S, m - 1)
  BY <1>3
<1>5. \E h : UpTo(h, f, S, m - 1 + 1)
  BY <1>3, <1>4, UpToMore
<1> QED BY <1>5

LEMMA SummedExists ==
  ASSUME NEW f, NEW S, IsFiniteSet(S)
  PROVE  \E g : Summed(g, f, S)
<1>1. Cardinality(S) \in Nat
  BY FS_CardinalityType
<1>2. PICK g : UpTo(g, f, S, Cardinality(S))
  BY <1>1, UpToAny
<1>3. ASSUME NEW t \in SUBSET S PROVE ~ Cardinality(t) > Cardinality(S)
  <2>1. Cardinality(t) <= Cardinality(S) /\ Cardinality(t) \in Nat
    BY FS_Subset, FS_CardinalityType
  <2> QED BY <1>1, <2>1
<1>4. Summed(g, f, S)
  BY <1>2, <1>3 DEF UpTo, Summed
<1> QED BY <1>4

(* Sets of numbers of elements: the induction that the lemmas below use.   *)
LEMMA SmallestSet ==
  ASSUME NEW C, \A S \in C : IsFiniteSet(S), C # {}
  PROVE  \E S \in C : \A T \in C : Cardinality(S) <= Cardinality(T)
<1> DEFINE N == {Cardinality(S) : S \in C}
<1>1. N \subseteq Nat /\ N # {}
  BY FS_CardinalityType
<1>2. PICK m \in N : \A y \in N : m <= y
  <2> HIDE DEF N
  <2> QED BY <1>1, LeastNatural
<1> QED BY <1>2

LEMMA SummedAgree ==
  ASSUME NEW f, NEW S, NEW R, R \subseteq S, IsFiniteSet(S), NEW g, NEW h,
         Summed(g, f, S), Summed(h, f, R)
  PROVE  g[R] = h[R]
<1> DEFINE C == {t \in SUBSET R : g[t] # h[t]}
<1> SUFFICES ASSUME C # {} PROVE FALSE
  OBVIOUS
<1>1. \A t \in SUBSET R : IsFiniteSet(t)
  BY FS_Subset
<1>2. PICK t \in C : \A u \in C : Cardinality(t) <= Cardinality(u)
  <2>1. \A u \in C : IsFiniteSet(u)
    BY <1>1
  <2> HIDE DEF C
  <2> QED BY <2>1, SmallestSet
<1>3. t \in SUBSET R /\ t \in SUBSET S /\ g[t] # h[t] /\ IsFiniteSet(t)
  BY <1>1
<1>4. t # {}
  BY <1>3 DEF Summed
<1>5. PICK u : u = t \ {Some(t)}
  OBVIOUS
<1>6. u \in SUBSET R /\ Cardinality(u) < Cardinality(t) /\ Cardinality(u) \in Nat /\ Cardinality(t) \in Nat
  <2>1. Cardinality(t) \in Nat /\ Cardinality(u) = Cardinality(t) - 1 /\ IsFiniteSet(u)
    BY <1>3, <1>4, <1>5, SomeOne
  <2>2. Cardinality(u) \in Nat
    BY <2>1, FS_CardinalityType
  <2> QED BY <1>3, <1>5, <2>1, <2>2
<1>7. u \notin C
  BY <1>2, <1>6
<1>8. g[u] = h[u]
  BY <1>6, <1>7
<1>9. g[t] = f[Some(t)] + g[u] /\ h[t] = f[Some(t)] + h[u]
  BY <1>3, <1>4, <1>5 DEF Summed
<1> QED BY <1>3, <1>8, <1>9

LEMMA TotalStep ==
  ASSUME NEW f, NEW S, IsFiniteSet(S)
  PROVE  Total(f, S) = IF S = {} THEN 0 ELSE f[Some(S)] + Total(f, S \ {Some(S)})
<1> DEFINE R == S \ {Some(S)}
<1>1. PICK g : g = (CHOOSE x : Summed(x, f, S))
  OBVIOUS
<1>2. PICK h : h = (CHOOSE x : Summed(x, f, R))
  OBVIOUS
<1>3. IsFiniteSet(R) /\ R \subseteq S
  BY FS_Subset
<1>4. Summed(g, f, S)
  BY <1>1, SummedExists
<1>5. Summed(h, f, R)
  <2> HIDE DEF R
  <2> QED BY <1>2, <1>3, SummedExists
<1>6. g[R] = h[R]
  <2> HIDE DEF R
  <2> QED BY <1>3, <1>4, <1>5, SummedAgree
<1>7. Total(f, S) = g[S] /\ Total(f, R) = h[R]
  BY <1>1, <1>2, TotalIs
<1>8. g[S] = IF S = {} THEN 0 ELSE f[Some(S)] + g[R]
  BY <1>4 DEF Summed
<1> QED BY <1>6, <1>7, <1>8

LEMMA TotalEmpty ==
  ASSUME NEW f
  PROVE  Total(f, {}) = 0
BY TotalStep, FS_EmptySet

LEMMA TotalType ==
  ASSUME NEW S, IsFiniteSet(S), NEW f, \A x \in S : f[x] \in Int
  PROVE  Total(f, S) \in Int
<1> DEFINE C == {t \in SUBSET S : Total(f, t) \notin Int}
<1> SUFFICES ASSUME C # {} PROVE FALSE
  OBVIOUS
<1>1. \A t \in SUBSET S : IsFiniteSet(t)
  BY FS_Subset
<1>2. PICK t \in C : \A u \in C : Cardinality(t) <= Cardinality(u)
  <2>1. \A u \in C : IsFiniteSet(u)
    BY <1>1
  <2> HIDE DEF C
  <2> QED BY <2>1, SmallestSet
<1>3. t \in SUBSET S /\ IsFiniteSet(t) /\ Total(f, t) \notin Int
  BY <1>1
<1>4. t # {}
  BY <1>3, TotalEmpty
<1>5. PICK u : u = t \ {Some(t)}
  OBVIOUS
<1>6. /\ Some(t) \in t /\ u \in SUBSET S /\ IsFiniteSet(u)
      /\ Cardinality(t) \in Nat /\ Cardinality(u) = Cardinality(t) - 1
  BY <1>3, <1>4, <1>5, SomeOne
<1>7. u \notin C
  BY <1>2, <1>6
<1>8. Total(f, u) \in Int /\ f[Some(t)] \in Int
  BY <1>3, <1>6, <1>7
<1>9. Total(f, t) = f[Some(t)] + Total(f, u)
  BY <1>3, <1>4, <1>5, TotalStep
<1> QED BY <1>3, <1>8, <1>9

(* Any element may be taken first.                                         *)
LEMMA TotalTake ==
  ASSUME NEW S, IsFiniteSet(S), NEW f, \A x \in S : f[x] \in Int, NEW a \in S
  PROVE  Total(f, S) = f[a] + Total(f, S \ {a})
<1> DEFINE C == {t \in SUBSET S : \E x \in t : Total(f, t) # f[x] + Total(f, t \ {x})}
<1> SUFFICES ASSUME C # {} PROVE FALSE
  OBVIOUS
<1>1. \A t \in SUBSET S : IsFiniteSet(t)
  BY FS_Subset
<1>2. PICK t \in C : \A u \in C : Cardinality(t) <= Cardinality(u)
  <2>1. \A u \in C : IsFiniteSet(u)
    BY <1>1
  <2> HIDE DEF C
  <2> QED BY <2>1, SmallestSet
<1>3. PICK x \in t : Total(f, t) # f[x] + Total(f, t \ {x})
  OBVIOUS
<1>4. t \in SUBSET S /\ IsFiniteSet(t) /\ t # {}
  BY <1>1, <1>3
<1>5. PICK c : c = Some(t)
  OBVIOUS
<1>6. c \in t /\ Total(f, t) = f[c] + Total(f, t \ {c})
  BY <1>4, <1>5, SomeOne, TotalStep
<1>7. c # x
  BY <1>3, <1>6
<1>8. ASSUME NEW y \in t
      PROVE  t \ {y} \in SUBSET S /\ t \ {y} \notin C
  <2>1. /\ Cardinality(t) \in Nat /\ IsFiniteSet(t \ {y})
        /\ Cardinality(t \ {y}) = Cardinality(t) - 1
    BY <1>4, FS_RemoveElement, FS_CardinalityType
  <2>2. ~ Cardinality(t) <= Cardinality(t \ {y})
    BY <2>1
  <2> QED BY <1>2, <1>4, <2>2
<1>9. Total(f, t \ {c}) = f[x] + Total(f, (t \ {c}) \ {x})
  <2>1. x \in t \ {c}
    BY <1>7
  <2> QED BY <1>6, <1>8, <2>1
<1>10. Total(f, t \ {x}) = f[c] + Total(f, (t \ {x}) \ {c})
  <2>1. c \in t \ {x}
    BY <1>6, <1>7
  <2> QED BY <1>8, <2>1
<1>11. PICK r : r = (t \ {c}) \ {x} /\ r = (t \ {x}) \ {c}
  <2>1. (t \ {c}) \ {x} = (t \ {x}) \ {c}
    OBVIOUS
  <2> QED BY <2>1
<1>12. Total(f, r) \in Int /\ f[x] \in Int /\ f[c] \in Int
  <2>1. r \in SUBSET S
    BY <1>4, <1>11
  <2> QED BY <1>1, <1>4, <1>6, <2>1, TotalType
<1>13. Total(f, t) = f[x] + Total(f, t \ {x})
  <2>1. PICK q \in Int : q = Total(f, r)
    BY <1>12
  <2>2. Total(f, t) = f[c] + (f[x] + q) /\ Total(f, t \ {x}) = f[c] + q
    BY <1>6, <1>9, <1>10, <1>11, <2>1
  <2> QED BY <1>12, <2>2
<1> QED BY <1>3, <1>13

LEMMA TotalSame ==
  ASSUME NEW S, IsFiniteSet(S), NEW f, NEW g, \A x \in S : f[x] = g[x]
  PROVE  Total(f, S) = Total(g, S)
<1> DEFINE C == {t \in SUBSET S : Total(f, t) # Total(g, t)}
<1> SUFFICES ASSUME C # {} PROVE FALSE
  OBVIOUS
<1>1. \A t \in SUBSET S : IsFiniteSet(t)
  BY FS_Subset
<1>2. PICK t \in C : \A u \in C : Cardinality(t) <= Cardinality(u)
  <2>1. \A u \in C : IsFiniteSet(u)
    BY <1>1
  <2> HIDE DEF C
  <2> QED BY <2>1, SmallestSet
<1>3. t \in SUBSET S /\ IsFiniteSet(t) /\ Total(f, t) # Total(g, t)
  BY <1>1
<1>4. t # {}
  BY <1>3, TotalEmpty
<1>5. PICK u : u = t \ {Some(t)}
  OBVIOUS
<1>6. /\ Some(t) \in t /\ u \in SUBSET S
      /\ Cardinality(t) \in Nat /\ Cardinality(u) = Cardinality(t) - 1
  BY <1>3, <1>4, <1>5, SomeOne
<1>7. u \notin C
  BY <1>2, <1>6
<1>8. Total(f, u) = Total(g, u) /\ f[Some(t)] = g[Some(t)]
  BY <1>3, <1>6, <1>7
<1>9. Total(f, t) = f[Some(t)] + Total(f, u) /\ Total(g, t) = g[Some(t)] + Total(g, u)
  BY <1>3, <1>4, <1>5, TotalStep
<1> QED BY <1>3, <1>8, <1>9

\* Two functions of numbers differ at most in one place.
Alike(f, g, a, S) == /\ \A x \in S : f[x] \in Int /\ g[x] \in Int
                     /\ \A x \in S : x # a => f[x] = g[x]

LEMMA TotalChange ==
  ASSUME NEW S, IsFiniteSet(S), NEW f, NEW g, NEW a \in S, Alike(f, g, a, S)
  PROVE  Total(g, S) = Total(f, S) - f[a] + g[a]
<1>1. /\ \A x \in S : f[x] \in Int /\ g[x] \in Int
      /\ \A x \in S : x # a => f[x] = g[x]
  BY DEF Alike
<1> DEFINE r == S \ {a}
<1>2. IsFiniteSet(r) /\ \A x \in r : x \in S /\ f[x] = g[x]
  BY <1>1, FS_Subset
<1>3. Total(f, r) = Total(g, r)
  <2> HIDE DEF r
  <2> QED BY <1>2, TotalSame
<1>4. Total(f, r) \in Int
  <2> HIDE DEF r
  <2> QED BY <1>1, <1>2, TotalType
<1>5. Total(f, S) = f[a] + Total(f, r)
  BY <1>1, TotalTake
<1>6. Total(g, S) = g[a] + Total(g, r)
  BY <1>1, TotalTake
<1> QED BY <1>1, <1>3, <1>4, <1>5, <1>6

(* A multiple of the weights, each less the same number.                   *)
LEMMA TotalLinear ==
  ASSUME NEW S, IsFiniteSet(S), NEW f, NEW w, NEW m \in Int, NEW c \in Int,
         \A x \in S : w[x] \in Int /\ f[x] = w[x] * m - c
  PROVE  Total(f, S) = Total(w, S) * m - c * Cardinality(S)
<1> DEFINE C == {t \in SUBSET S : Total(f, t) # Total(w, t) * m - c * Cardinality(t)}
<1> SUFFICES ASSUME C # {} PROVE FALSE
  <2>1. S \notin C
    OBVIOUS
  <2> QED BY <2>1
<1>1. \A t \in SUBSET S : IsFiniteSet(t)
  BY FS_Subset
<1>2. PICK t \in C : \A u \in C : Cardinality(t) <= Cardinality(u)
  <2>1. \A u \in C : IsFiniteSet(u)
    BY <1>1
  <2> HIDE DEF C
  <2> QED BY <2>1, SmallestSet
<1>3. t \in SUBSET S /\ IsFiniteSet(t) /\ Total(f, t) # Total(w, t) * m - c * Cardinality(t)
  BY <1>1
<1>4. t # {}
  <2>1. Total(f, {}) = 0 /\ Total(w, {}) = 0 /\ Cardinality({}) = 0
    BY TotalEmpty, FS_EmptySet
  <2>2. 0 = 0 * m - c * 0
    OBVIOUS
  <2>3. Total(f, {}) = Total(w, {}) * m - c * Cardinality({})
    BY <2>1, <2>2
  <2> QED BY <1>3, <2>3
<1>5. PICK u : u = t \ {Some(t)}
  OBVIOUS
<1>6. /\ Some(t) \in t /\ u \in SUBSET S
      /\ Cardinality(t) \in Nat /\ Cardinality(u) = Cardinality(t) - 1
  BY <1>3, <1>4, <1>5, SomeOne
<1>7. u \notin C
  BY <1>2, <1>6
<1>8. PICK q \in Int : q = Total(w, u)
  <2>1. \A x \in u : w[x] \in Int
    BY <1>6
  <2> QED BY <1>1, <1>6, <2>1, TotalType
<1>9. PICK b \in Int : b = w[Some(t)] /\ f[Some(t)] = b * m - c
  BY <1>3, <1>6
<1>10. PICK k \in Nat : k = Cardinality(t)
  BY <1>6
<1>11. Total(f, u) = q * m - c * (k - 1)
  BY <1>6, <1>7, <1>8, <1>10
<1>12. Total(f, t) = (b * m - c) + (q * m - c * (k - 1)) /\ Total(w, t) = b + q
  <2>1. Total(f, t) = f[Some(t)] + Total(f, u)
    BY <1>3, <1>4, <1>5, TotalStep
  <2>2. Total(w, t) = w[Some(t)] + Total(w, u)
    BY <1>3, <1>4, <1>5, TotalStep
  <2>3. Total(f, t) = (b * m - c) + (q * m - c * (k - 1))
    BY <1>9, <1>11, <2>1
  <2> QED BY <1>8, <1>9, <2>2, <2>3
<1>13. (b * m - c) + (q * m - c * (k - 1)) = (b + q) * m - c * k
  <2>1. (b + q) * m = b * m + q * m /\ c * (k - 1) = c * k - c
    OBVIOUS
  <2>2. b * m \in Int /\ q * m \in Int /\ c * k \in Int
    OBVIOUS
  <2> QED BY <2>1, <2>2
<1> QED BY <1>3, <1>10, <1>12, <1>13

(* Numbers of one sign sum to at least, or at most, any of them.           *)
LEMMA TotalNatural ==
  ASSUME NEW S, IsFiniteSet(S), NEW f, \A x \in S : f[x] \in Nat
  PROVE  Total(f, S) \in Nat
<1> DEFINE C == {t \in SUBSET S : Total(f, t) \notin Nat}
<1> SUFFICES ASSUME C # {} PROVE FALSE
  OBVIOUS
<1>1. \A t \in SUBSET S : IsFiniteSet(t)
  BY FS_Subset
<1>2. PICK t \in C : \A u \in C : Cardinality(t) <= Cardinality(u)
  <2>1. \A u \in C : IsFiniteSet(u)
    BY <1>1
  <2> HIDE DEF C
  <2> QED BY <2>1, SmallestSet
<1>3. t \in SUBSET S /\ IsFiniteSet(t) /\ Total(f, t) \notin Nat
  BY <1>1
<1>4. t # {}
  BY <1>3, TotalEmpty
<1>5. PICK u : u = t \ {Some(t)}
  OBVIOUS
<1>6. /\ Some(t) \in t /\ u \in SUBSET S
      /\ Cardinality(t) \in Nat /\ Cardinality(u) = Cardinality(t) - 1
  BY <1>3, <1>4, <1>5, SomeOne
<1>7. u \notin C
  BY <1>2, <1>6
<1>8. Total(f, u) \in Nat /\ f[Some(t)] \in Nat
  BY <1>3, <1>6, <1>7
<1>9. Total(f, t) = f[Some(t)] + Total(f, u)
  BY <1>3, <1>4, <1>5, TotalStep
<1> QED BY <1>3, <1>8, <1>9

LEMMA TotalAtLeast ==
  ASSUME NEW S, IsFiniteSet(S), NEW f, \A x \in S : f[x] \in Nat, NEW a \in S
  PROVE  Total(f, S) >= f[a]
<1>1. Total(f, S) = f[a] + Total(f, S \ {a})
  BY TotalTake
<1>2. Total(f, S \ {a}) \in Nat
  BY FS_Subset, TotalNatural
<1> QED BY <1>1, <1>2

LEMMA TotalZero ==
  ASSUME NEW S, IsFiniteSet(S), NEW f, Total(f, S) = 0,
         \/ \A x \in S : f[x] \in Nat
         \/ \A x \in S : - f[x] \in Nat /\ f[x] \in Int
  PROVE  \A x \in S : f[x] = 0
<1>1. CASE \A x \in S : f[x] \in Nat
  <2> TAKE x \in S
  <2>1. Total(f, S) >= f[x]
    BY <1>1, TotalAtLeast
  <2> QED BY <1>1, <2>1
<1>2. CASE \A x \in S : - f[x] \in Nat /\ f[x] \in Int
  <2>1. PICK g : g = [y \in S |-> - f[y]]
    OBVIOUS
  <2>2. \A y \in S : f[y] \in Int /\ g[y] = f[y] * (-1) - 0
    BY <1>2, <2>1
  <2>3. -1 \in Int /\ 0 \in Int
    OBVIOUS
  <2>4. Total(g, S) = Total(f, S) * (-1) - 0 * Cardinality(S)
    BY <2>2, <2>3, TotalLinear
  <2>5. Cardinality(S) \in Nat
    BY FS_CardinalityType
  <2>6. Total(g, S) = 0
    BY <2>4, <2>5
  <2> TAKE x \in S
  <2>7. \A y \in S : g[y] \in Nat
    BY <1>2, <2>1
  <2>8. Total(g, S) >= g[x]
    BY <2>7, TotalAtLeast
  <2>9. g[x] = - f[x] /\ - f[x] \in Nat /\ f[x] \in Int
    BY <1>2, <2>1
  <2> QED BY <2>6, <2>8, <2>9
<1> QED BY <1>1, <1>2

-----------------------------------------------------------------------------
(* The tables of the sampler.                                              *)

Items == 1 .. Len(argument)
Unpaired == Sampler!ToSet(low) \cup Sampler!ToSet(high)

\* What the items that have i as alternative leave to it, and what the items
\* without one have too much or lack.
Given(i)  == [j \in Items |-> IF alt[j] = i THEN Sampler!sum - pr[j] ELSE 0]
Surplus   == [j \in Items |-> IF j \in Unpaired THEN pr[j] - Sampler!sum ELSE 0]

Listed(q) ==
  /\ q \in Seq(Items)
  /\ \A i, j \in 1 .. Len(q) : i # j => q[i] # q[j]

ListsOK == /\ Listed(low) /\ Listed(high)
           /\ Sampler!ToSet(low) \cap Sampler!ToSet(high) = {}

SharesOK ==
  /\ argument \in Seq(Nat) /\ Sampler!sum \in Nat /\ built \in BOOLEAN
  /\ pr \in [Items -> Int] /\ alt \in [Items -> Int]

PoolsOK ==
  /\ \A i \in Sampler!ToSet(low)  : 0 <= pr[i] /\ pr[i] < Sampler!sum
  /\ \A i \in Sampler!ToSet(high) : pr[i] >= Sampler!sum
  /\ \A i \in Unpaired : alt[i] = Sampler!NoItem
  /\ Total(Surplus, Items) = 0

Balanced == \A i \in Items : pr[i] + Total(Given(i), Items) = argument[i] * Len(argument)

SamplerInv ==
  /\ SharesOK /\ ListsOK /\ Balanced
  /\ ~ built => PoolsOK
  /\ built => low = <<>> \/ high = <<>>

LEMMA ItemsFinite ==
  ASSUME argument \in Seq(Nat)
  PROVE  /\ IsFiniteSet(Items) /\ Cardinality(Items) = Len(argument)
         /\ Len(argument) \in Nat /\ Items \subseteq Nat \ {0}
<1>1. Len(argument) \in Nat /\ 1 \in Int
  OBVIOUS
<1>2. IsFiniteSet(1 .. Len(argument))
      /\ Cardinality(1 .. Len(argument)) = IF 1 > Len(argument) THEN 0 ELSE Len(argument) - 1 + 1
  BY <1>1, FS_Interval
<1> QED BY <1>1, <1>2 DEF Items

LEMMA SumIs ==
  ASSUME argument \in Seq(Nat)
  PROVE  Sampler!sum = Total(argument, Items) /\ Sampler!sum \in Nat
<1>1. Sampler!sum = Total(argument, Items)
  BY DEF Sampler!sum, Sampler!SumFunction, Total, Items
<1>2. \A x \in Items : argument[x] \in Nat
  BY DEF Items
<1> QED BY <1>1, <1>2, ItemsFinite, TotalNatural

-----------------------------------------------------------------------------
(* InOrder puts the items of a set into a sequence.                        *)

InOrderOf(q, S) ==
  /\ q \in [1 .. Cardinality(S) -> S]
  /\ \A i, j \in DOMAIN q : i < j => q[i] < q[j]

LEMMA SameCardinality == \A S : Sampler!Cardinality(S) = Cardinality(S)
BY DEF Sampler!Cardinality, Cardinality

LEMMA OrderFirst ==
  ASSUME NEW S, S \subseteq Nat, IsFiniteSet(S), NEW a \in S, \A y \in S : a <= y,
         NEW q, InOrderOf(q, S \ {a})
  PROVE  \E r : InOrderOf(r, S)
<1>1. PICK k \in Nat : Cardinality(S) = k + 1 /\ Cardinality(S \ {a}) = k
  <2>1. Cardinality(S \ {a}) = Cardinality(S) - 1 /\ IsFiniteSet(S \ {a})
    BY FS_RemoveElement
  <2>2. Cardinality(S \ {a}) \in Nat /\ Cardinality(S) \in Nat
    BY <2>1, FS_CardinalityType
  <2> QED BY <2>1, <2>2
<1>2. q \in [1 .. k -> S \ {a}] /\ \A i, j \in 1 .. k : i < j => q[i] < q[j]
  BY <1>1 DEF InOrderOf
<1> DEFINE r == [i \in 1 .. k + 1 |-> IF i = 1 THEN a ELSE q[i - 1]]
<1>3. ASSUME NEW i \in 1 .. k + 1, i # 1
      PROVE  i - 1 \in 1 .. k /\ r[i] = q[i - 1] /\ r[i] \in S /\ a < r[i]
  <2>1. i - 1 \in 1 .. k
    BY <1>3
  <2>2. r[i] = q[i - 1] /\ q[i - 1] \in S \ {a}
    BY <1>2, <1>3, <2>1
  <2> HIDE DEF r
  <2>3. PICK b \in Nat : b = r[i]
    BY <2>2
  <2>4. b \in S /\ b # a /\ a \in Nat
    BY <2>2, <2>3
  <2>5. a < b
    BY <2>4
  <2> QED BY <2>1, <2>2, <2>3, <2>4, <2>5
<1>4. r \in [1 .. k + 1 -> S] /\ r[1] = a
  BY <1>3
<1>5. ASSUME NEW i \in 1 .. k + 1, NEW j \in 1 .. k + 1, i < j
      PROVE  r[i] < r[j]
  <2>1. j # 1
    BY <1>5
  <2>2. CASE i = 1
    BY <1>3, <1>4, <2>1, <2>2
  <2>3. CASE i # 1
    <3>1. i - 1 \in 1 .. k /\ j - 1 \in 1 .. k /\ i - 1 < j - 1
      BY <1>5, <2>1, <2>3
    <3> QED BY <1>2, <1>3, <2>1, <2>3, <3>1
  <2> QED BY <2>2, <2>3
<1> HIDE DEF r
<1> QED BY <1>1, <1>4, <1>5 DEF InOrderOf

LEMMA OrderExists ==
  ASSUME NEW S, S \subseteq Nat, IsFiniteSet(S)
  PROVE  \E q : InOrderOf(q, S)
<1> DEFINE C == {t \in SUBSET S : ~ \E q : InOrderOf(q, t)}
<1> SUFFICES ASSUME C # {} PROVE FALSE
  OBVIOUS
<1>1. \A t \in SUBSET S : IsFiniteSet(t)
  BY FS_Subset
<1>2. PICK t \in C : \A u \in C : Cardinality(t) <= Cardinality(u)
  <2>1. \A u \in C : IsFiniteSet(u)
    BY <1>1
  <2> HIDE DEF C
  <2> QED BY <2>1, SmallestSet
<1>3. t \in SUBSET S /\ IsFiniteSet(t) /\ t \subseteq Nat /\ ~ \E q : InOrderOf(q, t)
  BY <1>1
<1>4. CASE t = {}
  <2>1. Cardinality(t) = 0
    BY <1>4, FS_EmptySet
  <2>2. InOrderOf([i \in 1 .. 0 |-> 0], t)
    BY <2>1 DEF InOrderOf
  <2> QED BY <1>3, <2>2
<1>5. CASE t # {}
  <2>1. PICK a \in t : \A y \in t : a <= y
    BY <1>3, <1>5, LeastNatural
  <2>2. PICK u : u = t \ {a}
    OBVIOUS
  <2>3. u \in SUBSET S /\ Cardinality(t) \in Nat /\ Cardinality(u) = Cardinality(t) - 1
    BY <1>3, <2>2, FS_RemoveElement, FS_CardinalityType
  <2>4. u \notin C
    BY <1>2, <2>3
  <2>5. PICK q : InOrderOf(q, t \ {a})
    BY <2>2, <2>3, <2>4
  <2> QED BY <1>3, <2>1, <2>5, OrderFirst
<1> QED BY <1>4, <1>5

LEMMA InOrderIs ==
  ASSUME NEW S, S \subseteq Nat, IsFiniteSet(S)
  PROVE  /\ Sampler!InOrder(S) \in Seq(S)
         /\ \A i, j \in 1 .. Len(Sampler!InOrder(S)) :
               i # j => Sampler!InOrder(S)[i] # Sampler!InOrder(S)[j]
         /\ Sampler!ToSet(Sampler!InOrder(S)) = S
<1>1. PICK q : q = Sampler!InOrder(S)
  OBVIOUS
<1>2. q = CHOOSE r : InOrderOf(r, S)
  BY <1>1, SameCardinality DEF Sampler!InOrder, InOrderOf
<1>3. InOrderOf(q, S)
  BY <1>2, OrderExists
<1>4. PICK k \in Nat : k = Cardinality(S)
  BY FS_CardinalityType
<1>5. q \in [1 .. k -> S] /\ \A i, j \in 1 .. k : i < j => q[i] < q[j]
  BY <1>3, <1>4 DEF InOrderOf
<1>6. q \in Seq(S) /\ Len(q) = k /\ DOMAIN q = 1 .. k
  BY <1>5
<1>7. ASSUME NEW i \in 1 .. k, NEW j \in 1 .. k, i # j PROVE q[i] # q[j]
  <2>1. q[i] \in Nat /\ q[j] \in Nat
    BY <1>5
  <2>2. i < j \/ j < i
    BY <1>7
  <2>3. CASE i < j
    <3>1. q[i] < q[j]
      BY <1>5, <2>3
    <3> QED BY <2>1, <3>1
  <2>4. CASE j < i
    <3>1. q[j] < q[i]
      BY <1>5, <2>4
    <3> QED BY <2>1, <3>1
  <2> QED BY <2>2, <2>3, <2>4
<1>8. Sampler!ToSet(q) = S
  <2>1. q \in Injection(1 .. k, S)
    BY <1>5, <1>7 DEF Injection, IsInjective
  <2>2. Cardinality(1 .. k) = k
    <3>1. 1 \in Int /\ k \in Int
      OBVIOUS
    <3>2. Cardinality(1 .. k) = IF 1 > k THEN 0 ELSE k - 1 + 1
      BY <3>1, FS_Interval
    <3> QED BY <3>2
  <2>3. q \in Surjection(1 .. k, S)
    BY <1>4, <2>1, <2>2, FS_Injection
  <2> QED BY <1>6, <2>3 DEF Surjection, Sampler!ToSet
<1> QED BY <1>1, <1>6, <1>7, <1>8

LEMMA TotalNothing ==
  ASSUME NEW S, IsFiniteSet(S), NEW f, \A x \in S : f[x] = 0
  PROVE  Total(f, S) = 0
<1>1. \A x \in S : f[x] \in Int /\ f[x] = f[x] * 0 - 0
  OBVIOUS
<1>2. 0 \in Int
  OBVIOUS
<1>3. Total(f, S) = Total(f, S) * 0 - 0 * Cardinality(S)
  BY <1>1, <1>2, TotalLinear
<1>4. Total(f, S) \in Int /\ Cardinality(S) \in Nat
  BY TotalType, FS_CardinalityType
<1> QED BY <1>3, <1>4

LEMMA ArgumentIs ==
  ASSUME MCInit
  PROVE  argument \in Seq(Nat)
<1>1. Weights \subseteq Nat /\ MaxItems \in Nat
  BY MCSequentialAssumption DEF Sampler!SamplerAssumption
<1>2. argument \in Sampler!Arguments \/ argument = <<1>>
  BY DEF MCInit, Sampler!InitFrom
<1>3. CASE argument \in Sampler!Arguments
  <2>1. PICK m \in 1 .. MaxItems : argument \in [1 .. m -> Weights]
    BY <1>3 DEF Sampler!Arguments
  <2>2. m \in Nat
    BY <1>1
  <2>3. argument \in [1 .. m -> Nat]
    BY <1>1, <2>1
  <2> QED BY <2>2, <2>3
<1>4. CASE argument = <<1>>
  BY <1>4
<1> QED BY <1>2, <1>3, <1>4

LEMMA SamplerStart == MCInit => SamplerInv
<1> SUFFICES ASSUME MCInit PROVE SamplerInv
  OBVIOUS
<1>1. argument \in Seq(Nat)
  BY ArgumentIs
<1>2. /\ pr = [i \in Items |-> argument[i] * Len(argument)]
      /\ alt = [i \in Items |-> 0] /\ built = FALSE
  BY <1>1 DEF MCInit, Sampler!InitFrom, Sampler!NoItem, Items
<1>3. PICK c \in Nat : c = Sampler!sum /\ c = Total(argument, Items)
  BY <1>1, SumIs
<1>4. PICK k \in Nat : k = Len(argument) /\ k = Cardinality(Items)
  BY <1>1, ItemsFinite
<1>5. IsFiniteSet(Items) /\ Items \subseteq Nat /\ 0 \notin Items
  BY <1>1, ItemsFinite
<1>6. \A i \in Items : argument[i] \in Nat /\ pr[i] = argument[i] * k /\ pr[i] \in Nat /\ alt[i] = 0
  <2> TAKE i \in Items
  <2>1. argument[i] \in Nat
    BY <1>1 DEF Items
  <2>2. pr[i] = argument[i] * k /\ alt[i] = 0
    BY <1>2, <1>4
  <2>3. argument[i] * k \in Nat
    BY <2>1
  <2> QED BY <2>1, <2>2, <2>3
<1>7. PICK L : L = {i \in Items : pr[i] < c}
  OBVIOUS
<1>8. PICK H : H = {i \in Items : pr[i] >= c}
  OBVIOUS
<1>9. low = Sampler!InOrder(L) /\ high = Sampler!InOrder(H)
  BY <1>2, <1>3, <1>7, <1>8 DEF MCInit, Sampler!InitFrom
<1>10. IsFiniteSet(L) /\ L \subseteq Items /\ IsFiniteSet(H) /\ H \subseteq Items
  BY <1>5, <1>7, <1>8, FS_Subset
<1>11. Listed(low) /\ Sampler!ToSet(low) = L
  <2>1. L \subseteq Nat
    BY <1>5, <1>10
  <2>2. low \in Seq(L) /\ Sampler!ToSet(low) = L
    BY <1>9, <1>10, <2>1, InOrderIs
  <2>3. \A i, j \in 1 .. Len(low) : i # j => low[i] # low[j]
    BY <1>9, <1>10, <2>1, InOrderIs
  <2>4. low \in Seq(Items)
    BY <1>10, <2>2
  <2> QED BY <2>2, <2>3, <2>4 DEF Listed
<1>12. Listed(high) /\ Sampler!ToSet(high) = H
  <2>1. H \subseteq Nat
    BY <1>5, <1>10
  <2>2. high \in Seq(H) /\ Sampler!ToSet(high) = H
    BY <1>9, <1>10, <2>1, InOrderIs
  <2>3. \A i, j \in 1 .. Len(high) : i # j => high[i] # high[j]
    BY <1>9, <1>10, <2>1, InOrderIs
  <2>4. high \in Seq(Items)
    BY <1>10, <2>2
  <2> QED BY <2>2, <2>3, <2>4 DEF Listed
<1>13. L \cap H = {} /\ L \cup H = Items
  BY <1>6, <1>7, <1>8
<1>14. Unpaired = Items
  BY <1>11, <1>12, <1>13 DEF Unpaired
<1>15. SharesOK
  <2>1. DOMAIN pr = Items /\ pr = [i \in DOMAIN pr |-> pr[i]] /\ \A i \in Items : pr[i] \in Int
    BY <1>2, <1>6
  <2>2. pr \in [Items -> Int]
    BY <2>1
  <2>3. alt \in [Items -> Int]
    BY <1>2
  <2> QED BY <1>1, <1>2, <1>3, <2>2, <2>3 DEF SharesOK
<1>16. ListsOK
  BY <1>11, <1>12, <1>13 DEF ListsOK
<1>17. Balanced
  <2> SUFFICES ASSUME NEW i \in Items
               PROVE  pr[i] + Total(Given(i), Items) = argument[i] * Len(argument)
    BY DEF Balanced
  <2>1. \A j \in Items : Given(i)[j] = 0
    BY <1>5, <1>6 DEF Given
  <2>2. Total(Given(i), Items) = 0
    BY <1>5, <2>1, TotalNothing
  <2> QED BY <1>4, <1>6, <2>2
<1>18. PoolsOK
  <2>1. PICK g : g = Surplus
    OBVIOUS
  <2>2. PICK w : w = argument
    OBVIOUS
  <2>3. PICK S : S = Items /\ IsFiniteSet(S)
    BY <1>5
  <2>4. ASSUME NEW j \in S
        PROVE  w[j] \in Int /\ g[j] = w[j] * k - c
    <3>1. w[j] \in Int /\ pr[j] = w[j] * k
      BY <1>6, <2>2, <2>3
    <3>2. g[j] = pr[j] - c
      BY <1>3, <1>14, <2>1, <2>3 DEF Surplus
    <3> QED BY <3>1, <3>2
  <2>5. k \in Int /\ c \in Int
    OBVIOUS
  <2>6. Total(g, S) = Total(w, S) * k - c * Cardinality(S)
    BY <2>3, <2>4, <2>5, TotalLinear
  <2>7. Total(Surplus, Items) = c * k - c * k
    BY <1>3, <1>4, <2>1, <2>2, <2>3, <2>6
  <2>8. c * k \in Nat
    OBVIOUS
  <2>9. Total(Surplus, Items) = 0
    BY <2>7, <2>8
  <2>10. /\ \A i \in L : 0 <= pr[i] /\ pr[i] < c
         /\ \A i \in H : pr[i] >= c
         /\ \A i \in Items : alt[i] = 0
    BY <1>6, <1>7, <1>8
  <2> QED BY <1>3, <1>11, <1>12, <1>14, <2>9, <2>10 DEF PoolsOK, Sampler!NoItem
<1> QED BY <1>2, <1>15, <1>16, <1>17, <1>18 DEF SamplerInv

LEMMA LastOf ==
  ASSUME NEW q, Listed(q), q # <<>>
  PROVE  /\ Sampler!Last(q) \in Sampler!ToSet(q) /\ Sampler!Last(q) \in Items
         /\ Listed(Sampler!Front(q))
         /\ Sampler!ToSet(Sampler!Front(q)) = Sampler!ToSet(q) \ {Sampler!Last(q)}
<1>1. PICK k \in Nat : k = Len(q) /\ k > 0
  BY DEF Listed
<1>2. q \in Seq(Items) /\ DOMAIN q = 1 .. k
  BY <1>1 DEF Listed
<1>3. PICK f \in Seq(Items) : f = Sampler!Front(q) /\ Len(f) = k - 1 /\ \A i \in 1 .. k - 1 : f[i] = q[i]
  <2>1. Sampler!Front(q) = SubSeq(q, 1, k - 1)
    BY <1>1 DEF Sampler!Front
  <2>2. /\ SubSeq(q, 1, k - 1) \in Seq(Items) /\ Len(SubSeq(q, 1, k - 1)) = k - 1
        /\ \A i \in 1 .. k - 1 : SubSeq(q, 1, k - 1)[i] = q[i]
    BY <1>1, <1>2
  <2> QED BY <2>1, <2>2
<1>4. Sampler!Last(q) = q[k] /\ q[k] \in Items
  BY <1>1, <1>2 DEF Sampler!Last
<1>5. \A i, j \in 1 .. k : i # j => q[i] # q[j]
  BY <1>1 DEF Listed
<1>6. Listed(f)
  BY <1>3, <1>5 DEF Listed
<1>7. Sampler!ToSet(q) = {q[i] : i \in 1 .. k} /\ Sampler!ToSet(f) = {q[i] : i \in 1 .. k - 1}
  BY <1>2, <1>3 DEF Sampler!ToSet
<1>8. {q[i] : i \in 1 .. k - 1} = {q[i] : i \in 1 .. k} \ {q[k]}
  <2>1. \A i \in 1 .. k : i = k \/ i \in 1 .. k - 1
    OBVIOUS
  <2>2. \A i \in 1 .. k - 1 : i \in 1 .. k /\ q[i] # q[k]
    BY <1>1, <1>5
  <2> QED BY <2>1, <2>2
<1>9. Sampler!Last(q) \in Sampler!ToSet(q)
  BY <1>1, <1>4, <1>7
<1>10. Sampler!ToSet(f) = Sampler!ToSet(q) \ {Sampler!Last(q)}
  BY <1>4, <1>7, <1>8
<1> QED BY <1>3, <1>4, <1>6, <1>9, <1>10

LEMMA WithOne ==
  ASSUME NEW q, Listed(q), NEW x \in Items, x \notin Sampler!ToSet(q)
  PROVE  /\ Listed(Append(q, x))
         /\ Sampler!ToSet(Append(q, x)) = Sampler!ToSet(q) \cup {x}
<1>1. PICK k \in Nat : k = Len(q)
  BY DEF Listed
<1>2. q \in Seq(Items) /\ DOMAIN q = 1 .. k /\ \A i, j \in 1 .. k : i # j => q[i] # q[j]
  BY <1>1 DEF Listed
<1>3. PICK r \in Seq(Items) : /\ r = Append(q, x) /\ Len(r) = k + 1 /\ DOMAIN r = 1 .. k + 1
                              /\ r[k + 1] = x /\ \A i \in 1 .. k : r[i] = q[i]
  <2>1. /\ Append(q, x) \in Seq(Items) /\ Len(Append(q, x)) = k + 1
        /\ Append(q, x)[k + 1] = x /\ \A i \in 1 .. k : Append(q, x)[i] = q[i]
    BY <1>1, <1>2, AppendProperties
  <2>2. DOMAIN Append(q, x) = 1 .. k + 1
    BY <2>1
  <2> QED BY <2>1, <2>2
<1>4. \A i \in 1 .. k : q[i] # x
  BY <1>2 DEF Sampler!ToSet
<1>5. \A i \in 1 .. k + 1 : i = k + 1 \/ i \in 1 .. k
  OBVIOUS
<1>6. Listed(r)
  BY <1>2, <1>3, <1>4, <1>5 DEF Listed
<1>7. Sampler!ToSet(r) = Sampler!ToSet(q) \cup {x}
  BY <1>2, <1>3, <1>5 DEF Sampler!ToSet
<1> QED BY <1>3, <1>6, <1>7

Charged(q, p, l, h, c) == q = [p EXCEPT ![h] = p[h] - (c - p[l])]
Pointed(b, a, l, h)    == b = [a EXCEPT ![l] = h]
SurplusIs(f, p, c, U, S)  == f = [j \in S |-> IF j \in U THEN p[j] - c ELSE 0]
GivenIs(f, a, p, c, i, S) == f = [j \in S |-> IF a[j] = i THEN c - p[j] ELSE 0]

(* What the low item l lacks of a share is taken from the high item h.     *)
LEMMA SurplusAfterPair ==
  ASSUME NEW S, IsFiniteSet(S), NEW l \in S, NEW h \in S, l # h, NEW c \in Int,
         NEW p, NEW q, NEW U, \A j \in S : p[j] \in Int,
         Charged(q, p, l, h, c), DOMAIN p = S, l \in U, h \in U,
         NEW f, SurplusIs(f, p, c, U, S),
         NEW g, SurplusIs(g, q, c, U \ {l}, S)
  PROVE  Total(g, S) = Total(f, S)
<1>1. PICK m : m = [f EXCEPT ![l] = 0]
  OBVIOUS
<1>2. PICK x \in Int : x = p[l]
  OBVIOUS
<1>3. PICK y \in Int : y = p[h]
  OBVIOUS
<1>4. /\ \A j \in S : f[j] \in Int /\ m[j] \in Int
      /\ \A j \in S : j # l => f[j] = m[j]
      /\ f[l] = x - c /\ m[l] = 0
  BY <1>1, <1>2 DEF SurplusIs
<1>5. Total(m, S) = Total(f, S) - f[l] + m[l]
  <2>1. Alike(f, m, l, S)
    BY <1>4 DEF Alike
  <2> QED BY <2>1, TotalChange
<1>6. \A j \in S : q[j] \in Int /\ (j # h => q[j] = p[j]) /\ q[h] = y - (c - x)
  BY <1>2, <1>3 DEF Charged
<1>7. m[h] = y - c /\ g[h] = y - (c - x) - c
  BY <1>1, <1>3, <1>6 DEF SurplusIs
<1>8. Total(g, S) = Total(m, S) - m[h] + g[h]
  <2>1. \A j \in S : g[j] \in Int
    BY <1>6 DEF SurplusIs
  <2>2. \A j \in S : j # h => m[j] = g[j]
    BY <1>1, <1>6 DEF SurplusIs
  <2>3. Alike(m, g, h, S)
    BY <1>4, <2>1, <2>2 DEF Alike
  <2> QED BY <2>3, TotalChange
<1>9. PICK t \in Int : t = Total(f, S)
  BY <1>4, TotalType
<1> QED BY <1>4, <1>5, <1>7, <1>8, <1>9

LEMMA GivenAfterPair ==
  ASSUME NEW S, IsFiniteSet(S), NEW l \in S, NEW h \in S, l # h, NEW c \in Int, NEW i \in S,
         NEW p, NEW q, NEW a, NEW b, \A j \in S : p[j] \in Int,
         Charged(q, p, l, h, c), DOMAIN p = S,
         Pointed(b, a, l, h), DOMAIN a = S, a[l] # i, a[h] # i,
         NEW f, GivenIs(f, a, p, c, i, S),
         NEW g, GivenIs(g, b, q, c, i, S)
  PROVE  q[i] + Total(g, S) = p[i] + Total(f, S)
<1>1. PICK x \in Int : x = p[l]
  OBVIOUS
<1>2. PICK y \in Int : y = p[h]
  OBVIOUS
<1>3. /\ \A j \in S : q[j] \in Int /\ (j # h => q[j] = p[j])
      /\ q[h] = y - (c - x) /\ q[l] = x
  BY <1>1, <1>2 DEF Charged
<1>4. /\ \A j \in S : j # l => b[j] = a[j]
      /\ b[l] = h
  BY DEF Pointed
<1>5. \A j \in S : f[j] \in Int /\ g[j] \in Int
  BY <1>3 DEF GivenIs
<1>6. \A j \in S : j # l => f[j] = g[j]
  <2> SUFFICES ASSUME NEW j \in S, j # l PROVE f[j] = g[j]
    OBVIOUS
  <2>1. CASE j = h
    BY <1>4, <2>1 DEF GivenIs
  <2>2. CASE j # h
    BY <1>3, <1>4, <2>2 DEF GivenIs
  <2> QED BY <2>1, <2>2
<1>7. f[l] = 0 /\ g[l] = IF h = i THEN c - x ELSE 0
  BY <1>3, <1>4 DEF GivenIs
<1>8. Total(g, S) = Total(f, S) - f[l] + g[l]
  <2>1. Alike(f, g, l, S)
    BY <1>5, <1>6 DEF Alike
  <2> QED BY <2>1, TotalChange
<1>9. PICK t \in Int : t = Total(f, S)
  BY <1>5, TotalType
<1>10. CASE h = i
  BY <1>2, <1>3, <1>7, <1>8, <1>9, <1>10
<1>11. CASE h # i
  <2>1. PICK z \in Int : z = p[i] /\ q[i] = z
    BY <1>3, <1>11
  <2> QED BY <1>7, <1>8, <1>9, <1>11, <2>1
<1> QED BY <1>10, <1>11

LEMMA SamplerPair == SamplerInv /\ Sampler!Pair => SamplerInv'
<1> SUFFICES ASSUME SamplerInv, Sampler!Pair PROVE SamplerInv'
  OBVIOUS
<1>1. /\ argument' = argument /\ built' = built /\ Items' = Items
      /\ Sampler!sum' = Sampler!sum /\ high # <<>> /\ low # <<>>
  BY DEF Sampler!Pair, Sampler!sum, Items
<1>2. /\ SharesOK /\ ListsOK /\ Balanced /\ PoolsOK /\ built = FALSE
  BY <1>1 DEF SamplerInv, SharesOK
<1>3. PICK c \in Nat : c = Sampler!sum
  BY <1>2 DEF SharesOK
<1>4. PICK l : l = Sampler!Last(low)
  OBVIOUS
<1>5. PICK h : h = Sampler!Last(high)
  OBVIOUS
<1>6. PICK p : p = pr
  OBVIOUS
<1>7. PICK q : q = pr'
  OBVIOUS
<1>8. PICK TL : TL = Sampler!ToSet(low)
  OBVIOUS
<1>9. PICK TH : TH = Sampler!ToSet(high)
  OBVIOUS
<1>10. /\ alt' = [alt EXCEPT ![l] = h] /\ q = [p EXCEPT ![h] = p[h] - (c - p[l])]
       /\ IF q[h] < c THEN low' = Append(Sampler!Front(low), h) /\ high' = Sampler!Front(high)
                      ELSE low' = Sampler!Front(low) /\ high' = high
  BY <1>3, <1>4, <1>5, <1>6, <1>7 DEF Sampler!Pair, Sampler!Remaining
<1>11. /\ l \in TL /\ h \in TH /\ l \in Items /\ h \in Items
       /\ Listed(low') /\ Listed(high')
       /\ \/ /\ q[h] < c
             /\ Sampler!ToSet(low') = (TL \ {l}) \cup {h} /\ Sampler!ToSet(high') = TH \ {h}
          \/ /\ ~ q[h] < c
             /\ Sampler!ToSet(low') = TL \ {l} /\ Sampler!ToSet(high') = TH
  <2>1. PICK lw : lw = low
    OBVIOUS
  <2>2. PICK hg : hg = high
    OBVIOUS
  <2>3. PICK lw2 : lw2 = low'
    OBVIOUS
  <2>4. PICK hg2 : hg2 = high'
    OBVIOUS
  <2>5. /\ Listed(lw) /\ Listed(hg) /\ lw # <<>> /\ hg # <<>>
        /\ Sampler!ToSet(lw) \cap Sampler!ToSet(hg) = {}
        /\ l = Sampler!Last(lw) /\ h = Sampler!Last(hg)
        /\ TL = Sampler!ToSet(lw) /\ TH = Sampler!ToSet(hg)
    BY <1>1, <1>2, <1>4, <1>5, <1>8, <1>9, <2>1, <2>2 DEF ListsOK
  <2>6. CASE q[h] < c
    <3>1. lw2 = Append(Sampler!Front(lw), h) /\ hg2 = Sampler!Front(hg)
      BY <1>10, <2>1, <2>2, <2>3, <2>4, <2>6
    <3>2. /\ l \in Sampler!ToSet(lw) /\ l \in Items /\ Listed(Sampler!Front(lw))
          /\ Sampler!ToSet(Sampler!Front(lw)) = Sampler!ToSet(lw) \ {l}
      BY <2>5, LastOf
    <3>3. /\ h \in Sampler!ToSet(hg) /\ h \in Items /\ Listed(Sampler!Front(hg))
          /\ Sampler!ToSet(Sampler!Front(hg)) = Sampler!ToSet(hg) \ {h}
      BY <2>5, LastOf
    <3>4. h \notin Sampler!ToSet(Sampler!Front(lw))
      BY <2>5, <3>2, <3>3
    <3>5. /\ Listed(lw2) /\ Sampler!ToSet(lw2) = (Sampler!ToSet(lw) \ {l}) \cup {h}
      BY <3>1, <3>2, <3>3, <3>4, WithOne
    <3> QED BY <2>3, <2>4, <2>5, <2>6, <3>1, <3>2, <3>3, <3>5
  <2>7. CASE ~ q[h] < c
    <3>1. lw2 = Sampler!Front(lw) /\ hg2 = hg
      BY <1>10, <2>1, <2>2, <2>3, <2>4, <2>7
    <3>2. /\ l \in Sampler!ToSet(lw) /\ l \in Items /\ Listed(Sampler!Front(lw))
          /\ Sampler!ToSet(Sampler!Front(lw)) = Sampler!ToSet(lw) \ {l}
      BY <2>5, LastOf
    <3>3. h \in Sampler!ToSet(hg) /\ h \in Items
      BY <2>5, LastOf
    <3> QED BY <2>3, <2>4, <2>5, <2>7, <3>1, <3>2, <3>3
  <2> QED BY <2>6, <2>7
<1>12. TL \cap TH = {} /\ l # h /\ l \notin TH /\ h \notin TL
  BY <1>2, <1>8, <1>9, <1>11 DEF ListsOK
<1>13. /\ IsFiniteSet(Items) /\ 0 \notin Items /\ argument \in Seq(Nat)
       /\ \A j \in Items : p[j] \in Int /\ alt[j] \in Int
       /\ DOMAIN p = Items /\ DOMAIN alt = Items
  BY <1>2, <1>6, ItemsFinite DEF SharesOK
<1>14. /\ \A i \in TL : 0 <= p[i] /\ p[i] < c
       /\ \A i \in TH : p[i] >= c
       /\ \A i \in TL \cup TH : alt[i] = 0
       /\ Total(Surplus, Items) = 0
  BY <1>2, <1>3, <1>6, <1>8, <1>9 DEF PoolsOK, Unpaired, Sampler!NoItem
<1>15. /\ q \in [Items -> Int] /\ alt' \in [Items -> Int]
       /\ \A j \in Items : j # h => q[j] = p[j]
       /\ \A j \in Items : j # l => alt'[j] = alt[j]
  <2>1. p[h] - (c - p[l]) \in Int /\ h \in Int
    BY <1>11, <1>13, ItemsFinite
  <2> QED BY <1>2, <1>6, <1>10, <1>11, <1>13, <2>1 DEF SharesOK
<1>16. SharesOK'
  BY <1>1, <1>2, <1>7, <1>15 DEF SharesOK
<1>17. ListsOK'
  <2>1. Sampler!ToSet(low') \cap Sampler!ToSet(high') = {}
    BY <1>11, <1>12
  <2> QED BY <1>1, <1>11, <2>1 DEF ListsOK, Listed, Sampler!ToSet
<1>18. Sampler!ToSet(low)' = Sampler!ToSet(low') /\ Sampler!ToSet(high)' = Sampler!ToSet(high')
  BY DEF Sampler!ToSet
<1>19. Unpaired' = (TL \cup TH) \ {l} /\ Unpaired = TL \cup TH
  BY <1>8, <1>9, <1>11, <1>12, <1>18 DEF Unpaired
<1>20. Balanced'
  <2> SUFFICES ASSUME NEW i \in Items
               PROVE  pr'[i] + Total(Given(i)', Items) = argument[i] * Len(argument)
    BY <1>1 DEF Balanced
  <2>1. PICK f : f = Given(i)
    OBVIOUS
  <2>2. PICK g : g = Given(i)'
    OBVIOUS
  <2>3. PICK a : a = alt
    OBVIOUS
  <2>4. PICK b : b = alt'
    OBVIOUS
  <2>5. PICK S : S = Items
    OBVIOUS
  <2>6. GivenIs(f, a, p, c, i, S)
    BY <1>3, <1>6, <2>1, <2>3, <2>5 DEF Given, GivenIs
  <2>7. GivenIs(g, b, q, c, i, S)
    BY <1>1, <1>3, <1>7, <2>2, <2>4, <2>5 DEF Given, GivenIs
  <2>8. a[l] # i /\ a[h] # i
    BY <1>11, <1>13, <1>14, <2>3
  <2>9. /\ IsFiniteSet(S) /\ l \in S /\ h \in S /\ l # h /\ c \in Int /\ i \in S
        /\ \A j \in S : p[j] \in Int
        /\ Charged(q, p, l, h, c) /\ DOMAIN p = S
        /\ Pointed(b, a, l, h) /\ DOMAIN a = S
    BY <1>10, <1>11, <1>12, <1>13, <2>3, <2>4, <2>5 DEF Charged, Pointed
  <2>10. q[i] + Total(g, S) = p[i] + Total(f, S)
    BY <2>6, <2>7, <2>8, <2>9, GivenAfterPair
  <2>11. p[i] + Total(f, S) = argument[i] * Len(argument)
    BY <1>2, <1>6, <2>1, <2>5 DEF Balanced
  <2> QED BY <1>7, <2>2, <2>5, <2>10, <2>11
<1>21. Total(Surplus', Items) = 0
  <2>1. PICK f : f = Surplus
    OBVIOUS
  <2>2. PICK g : g = Surplus'
    OBVIOUS
  <2>3. PICK S : S = Items
    OBVIOUS
  <2>4. PICK U : U = TL \cup TH
    OBVIOUS
  <2>5. SurplusIs(f, p, c, U, S)
    BY <1>3, <1>6, <1>19, <2>1, <2>3, <2>4 DEF Surplus, SurplusIs
  <2>6. SurplusIs(g, q, c, U \ {l}, S)
    BY <1>1, <1>3, <1>7, <1>19, <2>2, <2>3, <2>4 DEF Surplus, SurplusIs
  <2>7. /\ IsFiniteSet(S) /\ l \in S /\ h \in S /\ l # h /\ c \in Int
        /\ \A j \in S : p[j] \in Int
        /\ Charged(q, p, l, h, c) /\ DOMAIN p = S
        /\ l \in U /\ h \in U
    BY <1>10, <1>11, <1>12, <1>13, <2>3, <2>4 DEF Charged
  <2>8. Total(g, S) = Total(f, S)
    BY <2>5, <2>6, <2>7, SurplusAfterPair
  <2> QED BY <1>14, <2>1, <2>2, <2>3, <2>8
<1>22. PoolsOK'
  <2>1. q[h] \in Int /\ 0 <= q[h]
    <3>1. PICK x \in Int : x = p[l] /\ 0 <= x
      BY <1>11, <1>13, <1>14
    <3>2. PICK y \in Int : y = p[h] /\ y >= c
      BY <1>11, <1>13, <1>14
    <3>3. q[h] = y - (c - x)
      BY <1>10, <1>11, <1>13, <3>1, <3>2
    <3> QED BY <3>1, <3>2, <3>3
  <2>2. \A i \in TL \cup TH : i \in Items
    BY <1>2, <1>8, <1>9 DEF ListsOK, Listed, Sampler!ToSet
  <2>3. \A i \in Sampler!ToSet(low') : 0 <= q[i] /\ q[i] < c
    BY <1>11, <1>12, <1>14, <1>15, <2>1, <2>2
  <2>4. \A i \in Sampler!ToSet(high') : q[i] >= c
    BY <1>11, <1>12, <1>14, <1>15, <2>1, <2>2
  <2>5. \A i \in Unpaired' : alt'[i] = 0
    BY <1>14, <1>15, <1>19, <2>2
  <2> QED BY <1>1, <1>3, <1>7, <1>18, <1>21, <2>3, <2>4, <2>5 DEF PoolsOK, Sampler!NoItem
<1> QED BY <1>1, <1>2, <1>16, <1>17, <1>20, <1>22 DEF SamplerInv

(* The items of the list that is left are even: none lacks anything.       *)
LEMMA LeftAreEven ==
  ASSUME SamplerInv, PoolsOK, low = <<>> \/ high = <<>>
  PROVE  \A i \in Unpaired : pr[i] = Sampler!sum
<1>1. SharesOK /\ ListsOK
  BY DEF SamplerInv
<1>2. PICK c \in Nat : c = Sampler!sum
  BY <1>1 DEF SharesOK
<1>3. PICK f : f = Surplus
  OBVIOUS
<1>4. IsFiniteSet(Items) /\ \A i \in Items : pr[i] \in Int
  BY <1>1, ItemsFinite DEF SharesOK
<1>5. /\ Unpaired \subseteq Items
      /\ \A i \in Items : f[i] = IF i \in Unpaired THEN pr[i] - c ELSE 0
  <2>1. Unpaired \subseteq Items
    BY <1>1 DEF ListsOK, Listed, Unpaired, Sampler!ToSet
  <2> QED BY <1>2, <1>3, <2>1 DEF Surplus
<1>6. Total(f, Items) = 0
  BY <1>3 DEF PoolsOK
<1>7. \/ \A i \in Items : f[i] \in Nat
      \/ \A i \in Items : - f[i] \in Nat /\ f[i] \in Int
  <2>1. CASE low = <<>>
    <3>1. Sampler!ToSet(low) = {}
      BY <2>1 DEF Sampler!ToSet
    <3>2. \A i \in Unpaired : pr[i] >= c
      BY <1>2, <3>1 DEF PoolsOK, Unpaired
    <3>3. ASSUME NEW i \in Items PROVE f[i] \in Nat
      <4>1. CASE i \in Unpaired
        <5>1. PICK x \in Int : x = pr[i] /\ x >= c
          BY <1>4, <3>2, <4>1
        <5>2. f[i] = x - c
          BY <1>5, <4>1, <5>1
        <5> QED BY <5>1, <5>2
      <4>2. CASE i \notin Unpaired
        BY <1>5, <4>2
      <4> QED BY <4>1, <4>2
    <3> QED BY <3>3
  <2>2. CASE high = <<>>
    <3>1. Sampler!ToSet(high) = {}
      BY <2>2 DEF Sampler!ToSet
    <3>2. \A i \in Unpaired : pr[i] < c
      BY <1>2, <3>1 DEF PoolsOK, Unpaired
    <3>3. ASSUME NEW i \in Items PROVE - f[i] \in Nat /\ f[i] \in Int
      <4>1. CASE i \in Unpaired
        <5>1. PICK x \in Int : x = pr[i] /\ x < c
          BY <1>4, <3>2, <4>1
        <5>2. f[i] = x - c
          BY <1>5, <4>1, <5>1
        <5> QED BY <5>1, <5>2
      <4>2. CASE i \notin Unpaired
        BY <1>5, <4>2
      <4> QED BY <4>1, <4>2
    <3> QED BY <3>3
  <2> QED BY <2>1, <2>2
<1>8. \A i \in Items : f[i] = 0
  BY <1>4, <1>6, <1>7, TotalZero
<1>9. ASSUME NEW i \in Unpaired PROVE pr[i] = c
  <2>1. PICK x \in Int : x = pr[i]
    BY <1>4, <1>5
  <2>2. x - c = 0
    BY <1>5, <1>8, <2>1
  <2> QED BY <2>1, <2>2
<1> QED BY <1>2, <1>9

LEMMA SamplerFinish == SamplerInv /\ Sampler!Finish => SamplerInv'
<1> SUFFICES ASSUME SamplerInv, Sampler!Finish PROVE SamplerInv'
  OBVIOUS
<1>1. /\ argument' = argument /\ high' = high /\ low' = low /\ built' = TRUE
      /\ Items' = Items /\ Sampler!sum' = Sampler!sum
      /\ built # TRUE /\ (low = <<>> \/ high = <<>>)
  BY DEF Sampler!Finish, Sampler!sum, Items
<1>2. SharesOK /\ ListsOK /\ Balanced /\ PoolsOK
  BY <1>1 DEF SamplerInv
<1>3. /\ pr \in [Items -> Int] /\ alt \in [Items -> Int]
      /\ IsFiniteSet(Items) /\ Items \subseteq Nat \ {0}
  BY <1>2, ItemsFinite DEF SharesOK
<1>4. \A i \in Unpaired : pr[i] = Sampler!sum /\ alt[i] = 0
  BY <1>1, <1>2, LeftAreEven DEF PoolsOK, Sampler!NoItem
<1>5. /\ pr' = [i \in Items |-> IF i \in Unpaired THEN Sampler!sum ELSE pr[i]]
      /\ alt' = [i \in Items |-> IF i \in Unpaired THEN i ELSE alt[i]]
  BY <1>3 DEF Sampler!Finish, Unpaired
<1>6. pr' = pr
  BY <1>3, <1>4, <1>5
<1>7. alt' \in [Items -> Int]
  BY <1>3, <1>5
<1>8. SharesOK'
  BY <1>1, <1>2, <1>6, <1>7 DEF SharesOK
<1>9. ListsOK'
  BY <1>1, <1>2 DEF ListsOK, Listed, Sampler!ToSet
<1>10. Balanced'
  <2> SUFFICES ASSUME NEW i \in Items
               PROVE  pr[i] + Total(Given(i)', Items) = argument[i] * Len(argument)
    BY <1>1, <1>6 DEF Balanced
  <2>1. PICK f : f = Given(i)
    OBVIOUS
  <2>2. PICK g : g = Given(i)'
    OBVIOUS
  <2>3. PICK c \in Nat : c = Sampler!sum
    BY <1>2 DEF SharesOK
  <2>4. ASSUME NEW j \in Items PROVE g[j] = f[j]
    <3>1. f[j] = IF alt[j] = i THEN c - pr[j] ELSE 0
      BY <2>1, <2>3 DEF Given
    <3>2. g[j] = IF alt'[j] = i THEN c - pr[j] ELSE 0
      BY <1>1, <1>6, <2>2, <2>3 DEF Given
    <3>3. CASE j \in Unpaired
      <4>1. alt[j] # i
        BY <1>3, <1>4, <3>3
      <4>2. c - pr[j] = 0
        BY <1>4, <2>3, <3>3
      <4> QED BY <3>1, <3>2, <4>1, <4>2
    <3>4. CASE j \notin Unpaired
      BY <1>5, <3>1, <3>2, <3>4
    <3> QED BY <3>3, <3>4
  <2>5. Total(g, Items) = Total(f, Items)
    BY <1>3, <2>4, TotalSame
  <2> QED BY <1>2, <2>1, <2>2, <2>5 DEF Balanced
<1> QED BY <1>1, <1>8, <1>9, <1>10 DEF SamplerInv

LEMMA SamplerStays == SamplerInv /\ UNCHANGED sampler => SamplerInv'
<1> SUFFICES ASSUME SamplerInv, UNCHANGED sampler PROVE SamplerInv'
  OBVIOUS
<1>1. /\ argument' = argument /\ pr' = pr /\ alt' = alt /\ high' = high /\ low' = low
      /\ built' = built
  BY DEF sampler
<1>2. Items' = Items /\ Sampler!sum' = Sampler!sum
  BY <1>1 DEF Items, Sampler!sum
<1>3. \A i : Given(i)' = Given(i)
  BY <1>1, <1>2 DEF Given
<1>4. Unpaired' = Unpaired /\ Sampler!ToSet(low)' = Sampler!ToSet(low)
      /\ Sampler!ToSet(high)' = Sampler!ToSet(high)
  BY <1>1 DEF Unpaired, Sampler!ToSet
<1>5. Surplus' = Surplus
  BY <1>1, <1>2, <1>4 DEF Surplus
<1>6. SharesOK' /\ ListsOK' /\ Balanced'
  <2>1. SharesOK' /\ ListsOK'
    BY <1>1, <1>2, <1>4 DEF SamplerInv, SharesOK, ListsOK, Listed
  <2>2. Balanced'
    BY <1>1, <1>2, <1>3 DEF SamplerInv, Balanced
  <2> QED BY <2>1, <2>2
<1>7. PoolsOK => PoolsOK'
  BY <1>1, <1>2, <1>4, <1>5 DEF PoolsOK
<1> QED BY <1>1, <1>6, <1>7 DEF SamplerInv

LEMMA SamplerStep == SamplerInv /\ [Sampler!Next]_sampler => SamplerInv'
BY SamplerPair, SamplerFinish, SamplerStays DEF Sampler!Next

LEMMA SamplerMeans == SamplerInv => Sampler!SamplesByWeight
<1> SUFFICES ASSUME SamplerInv PROVE Sampler!SamplesByWeight
  OBVIOUS
<1>1. ~ built => \A i \in Sampler!ToSet(high) : pr[i] >= Sampler!sum
  BY DEF SamplerInv, PoolsOK
<1>2. DOMAIN argument = Items
  BY DEF SamplerInv, SharesOK, Items
<1>3. ASSUME NEW i \in Items
      PROVE  pr[i] + Sampler!SumFunction([j \in Items |-> IF alt[j] = i THEN Sampler!sum - pr[j] ELSE 0])
               = argument[i] * Len(argument)
  <2>1. PICK f : f = Given(i)
    OBVIOUS
  <2>2. DOMAIN f = Items
    BY <2>1 DEF Given
  <2>3. Sampler!SumFunction(f) = Total(f, Items)
    BY <2>2 DEF Sampler!SumFunction, Total
  <2>4. pr[i] + Total(f, Items) = argument[i] * Len(argument)
    BY <2>1 DEF SamplerInv, Balanced
  <2> QED BY <2>1, <2>3, <2>4 DEF Given
<1> QED BY <1>1, <1>2, <1>3 DEF Sampler!SamplesByWeight

\* Whatever the weights, the tables that were paired draw each item as often as
\* its weight is of the sum, and a high item always has a whole share left
\* (distribution_sampler.cc, the loop over high and low).
THEOREM SamplesTrue ==
  MCSpec => [](Is("DistributionSampler") => Sampler!SamplesByWeight)
<1>1. [MCNext]_MCvars => [Sampler!Next]_sampler
  BY DEF MCNext, Only, Is, MCvars, rest
<1>2. SamplerInv /\ [MCNext]_MCvars => SamplerInv'
  BY <1>1, SamplerStep
<1>3. SamplerInv => Sampler!SamplesByWeight
  BY SamplerMeans
<1> QED BY <1>2, <1>3, SamplerStart, PTL DEF MCSpec
=============================================================================
