----------------------------- MODULE TableProofs ----------------------------
(***************************************************************************)
(* Theorems about Table, for every set of keys, every block size and every *)
(* length of a table.  The shortened keys of the index keep the order.     *)
(* The index leads to blocks that are in the file.  What is in those       *)
(* blocks is what was added: lookups find it, and the two-level iterator   *)
(* is an Iterator over it.                                                 *)
(***************************************************************************)
EXTENDS Table, FiniteSetTheorems, SequenceTheorems, WellFoundedInduction, TLAPS

-----------------------------------------------------------------------------
(* Common prefixes and sizes.                                              *)

Prefixes(a, b) ==
  {n \in 1..Len(a) : n <= Len(b) /\ \A i \in 1..n : a[i] = b[i]}

LEMMA UpTo ==
  ASSUME NEW n \in Nat
  PROVE  IsFiniteSet(1..n) /\ Cardinality(1..n) = n
<1>1. 1 \in Int /\ n \in Int
  OBVIOUS
<1>2. IsFiniteSet(1..n)
  BY <1>1, FS_Interval, Zenon
<1>3. Cardinality(1..n) = IF 1 > n THEN 0 ELSE n - 1 + 1
  BY <1>1, FS_Interval, Zenon
<1> QED BY <1>2, <1>3

LEMMA SharedBounds ==
  ASSUME NEW a \in Seq(Nat), NEW b \in Seq(Nat)
  PROVE  /\ Shared(a, b) \in Nat
         /\ Shared(a, b) <= Len(a)
         /\ Shared(a, b) <= Len(b)
<1>0. Len(a) \in Nat /\ Len(b) \in Nat
  OBVIOUS
<1>1. /\ IsFiniteSet(1..Len(a)) /\ Cardinality(1..Len(a)) = Len(a)
      /\ IsFiniteSet(1..Len(b)) /\ Cardinality(1..Len(b)) = Len(b)
  BY <1>0, UpTo, Zenon
<1>2. Prefixes(a, b) \in SUBSET (1..Len(a)) /\ Prefixes(a, b) \in SUBSET (1..Len(b))
  BY DEF Prefixes
<1>3. /\ IsFiniteSet(Prefixes(a, b))
      /\ Cardinality(Prefixes(a, b)) <= Len(a)
      /\ Cardinality(Prefixes(a, b)) <= Len(b)
  BY <1>1, <1>2, FS_Subset
<1>4. Cardinality(Prefixes(a, b)) \in Nat
  BY <1>3, FS_CardinalityType
<1> QED BY <1>3, <1>4 DEF Shared, Prefixes

(* The common prefix ends where one key does or where they differ. *)
LEMMA SharedIs ==
  ASSUME NEW a \in Seq(Nat), NEW b \in Seq(Nat),
         NEW n \in 0..Len(a), n <= Len(b),
         \A i \in 1..n : a[i] = b[i],
         n < Len(a) /\ n < Len(b) => a[n + 1] # b[n + 1]
  PROVE  Shared(a, b) = n
<1>1. Prefixes(a, b) = 1..n
  <2>1. ASSUME NEW k \in Prefixes(a, b)
        PROVE  k <= n
    <3>1. /\ k \in 1..Len(a) /\ k <= Len(b)
          /\ \A i \in 1..k : a[i] = b[i]
      BY DEF Prefixes
    <3> SUFFICES ASSUME n < k PROVE FALSE
      BY <3>1
    <3>2. n + 1 \in 1..k /\ n < Len(a) /\ n < Len(b)
      BY <3>1
    <3> QED BY <3>1, <3>2
  <2>2. 1..n \subseteq Prefixes(a, b)
    BY DEF Prefixes
  <2>3. Prefixes(a, b) \subseteq 1..n
    BY <2>1 DEF Prefixes
  <2> QED BY <2>2, <2>3
<1>2. Cardinality(1..n) = n
  BY UpTo
<1> QED BY <1>1, <1>2 DEF Shared, Prefixes

LEMMA VarintType ==
  ASSUME NEW n \in Nat
  PROVE  Varint(n) \in Nat
<1>1. IsFiniteSet(1..4)
  <2>1. 4 \in Nat
    OBVIOUS
  <2> QED BY <2>1, UpTo, Zenon
<1>2. IsFiniteSet({k \in 1..4 : n >= 128 ^ k})
  <2>1. {k \in 1..4 : n >= 128 ^ k} \in SUBSET (1..4)
    OBVIOUS
  <2> QED BY <1>1, <2>1, FS_Subset
<1>3. Cardinality({k \in 1..4 : n >= 128 ^ k}) \in Nat
  BY <1>2, FS_CardinalityType
<1> QED BY <1>3 DEF Varint

-----------------------------------------------------------------------------
(* The keys of the index.                                                  *)

(* A key and a later one do not differ before the later one has the greater *)
(* byte.                                                                   *)
LEMMA LessFacts ==
  ASSUME NEW a \in Seq(Nat), NEW b \in Seq(Nat), Less(a, b)
  PROVE  /\ Shared(a, b) < Len(b)
         /\ \A i \in 1..Shared(a, b) : a[i] = b[i]
         /\ Shared(a, b) < Len(a) => a[Shared(a, b) + 1] < b[Shared(a, b) + 1]
<1>1. PICK n \in 0..Len(a) :
        /\ n < Len(b)
        /\ \A i \in 1..n : a[i] = b[i]
        /\ n < Len(a) => a[n + 1] < b[n + 1]
  BY DEF Less
<1>2. n < Len(a) /\ n < Len(b) => a[n + 1] # b[n + 1]
  <2> HAVE n < Len(a) /\ n < Len(b)
  <2>1. a[n + 1] \in Nat /\ b[n + 1] \in Nat
    OBVIOUS
  <2> QED BY <1>1, <2>1
<1>3. Shared(a, b) = n
  BY <1>1, <1>2, SharedIs
<1> QED BY <1>1, <1>3

(* FindShortestSeparator (table_builder.cc:18) cuts the last key of a block *)
(* to one that is at or past it and still before the next block's first.   *)
THEOREM SeparatorSeparates ==
  ASSUME NEW start \in Seq(Nat), NEW limit \in Seq(Nat), Less(start, limit),
         MaxByte \in Nat
  PROVE  /\ FindShortestSeparator(start, limit) \in Seq(Nat)
         /\ ~Less(FindShortestSeparator(start, limit), start)
         /\ Less(FindShortestSeparator(start, limit), limit)
<1> DEFINE d   == Shared(start, limit)
           sep == FindShortestSeparator(start, limit)
<1>1. /\ d \in Nat /\ d <= Len(start) /\ d < Len(limit)
      /\ \A i \in 1..d : start[i] = limit[i]
  BY SharedBounds, LessFacts
<1>2. ~Less(start, start)
  BY DEF Less
<1>3. CASE /\ d < Len(start) /\ d < Len(limit)
           /\ start[d + 1] < MaxByte
           /\ start[d + 1] + 1 < limit[d + 1]
  <2>1. sep = Append(SubSeq(start, 1, d), start[d + 1] + 1)
    BY <1>3 DEF FindShortestSeparator
  <2>2. /\ SubSeq(start, 1, d) \in Seq(Nat)
        /\ Len(SubSeq(start, 1, d)) = d
        /\ \A i \in 1..d : SubSeq(start, 1, d)[i] = start[i]
    <3>1. \A i \in 1..d : start[i] \in Nat
      BY <1>1
    <3>2. /\ SubSeq(start, 1, d) \in Seq(Nat)
          /\ Len(SubSeq(start, 1, d)) = IF 1 <= d THEN d - 1 + 1 ELSE 0
          /\ \A i \in 1 .. d - 1 + 1 : SubSeq(start, 1, d)[i] = start[1 + i - 1]
      BY <1>1, <3>1, SubSeqProperties
    <3> QED BY <1>1, <3>2
  <2>3. start[d + 1] \in Nat /\ start[d + 1] + 1 \in Nat
    BY <1>1, <1>3
  <2>4. /\ sep \in Seq(Nat) /\ Len(sep) = d + 1
        /\ \A i \in 1..d : sep[i] = start[i]
        /\ sep[d + 1] = start[d + 1] + 1
    BY <2>1, <2>2, <2>3, AppendProperties
  <2>5. Less(sep, limit)
    <3>1. \A i \in 1..d : sep[i] = limit[i]
      BY <1>1, <2>4
    <3>2. d \in 0..Len(sep) /\ sep[d + 1] < limit[d + 1]
      BY <1>1, <1>3, <2>4
    <3> QED BY <1>1, <3>1, <3>2 DEF Less
  <2>6. ~Less(sep, start)
    <3> HIDE DEF d, sep
    <3> SUFFICES ASSUME NEW n \in 0..Len(sep), n < Len(start),
                        \A i \in 1..n : sep[i] = start[i],
                        n < Len(sep) => sep[n + 1] < start[n + 1]
                 PROVE  FALSE
      BY DEF Less
    <3>1. CASE n <= d
      <4>1. n < Len(sep) /\ sep[n + 1] >= start[n + 1]
        <5>1. CASE n < d
          <6>1. n + 1 \in 1..d /\ start[n + 1] \in Nat
            BY <1>1, <5>1
          <6>2. sep[n + 1] = start[n + 1]
            BY <2>4, <6>1
          <6> QED BY <1>1, <2>4, <5>1, <6>1, <6>2
        <5>2. CASE n = d
          BY <1>1, <2>3, <2>4, <5>2
        <5> QED BY <3>1, <5>1, <5>2, <1>1
      <4>2. start[n + 1] \in Nat /\ sep[n + 1] \in Nat
        BY <2>4, <4>1
      <4> QED BY <4>1, <4>2
    <3>2. CASE n > d
      <4>1. d + 1 \in 1..n
        BY <1>1, <3>2
      <4>2. sep[d + 1] = start[d + 1]
        BY <4>1
      <4> QED BY <2>3, <2>4, <4>2
    <3> QED BY <1>1, <3>1, <3>2
  <2> QED BY <2>4, <2>5, <2>6
<1>4. CASE ~(/\ d < Len(start) /\ d < Len(limit)
             /\ start[d + 1] < MaxByte
             /\ start[d + 1] + 1 < limit[d + 1])
  <2>1. sep = start
    BY <1>4 DEF FindShortestSeparator
  <2> QED BY <1>2, <2>1
<1> QED BY <1>3, <1>4

(* FindShortSuccessor (table_builder.cc:40) cuts the last key of the table *)
(* to one that is at or past it.                                           *)
THEOREM SuccessorIsPast ==
  ASSUME NEW key \in Seq(Nat)
  PROVE  /\ FindShortSuccessor(key) \in Seq(Nat)
         /\ ~Less(FindShortSuccessor(key), key)
<1>1. ~Less(key, key)
  BY DEF Less
<1>2. CASE \E i \in 1..Len(key) : CanGrow(key, i)
  <2> DEFINE i == CHOOSE i \in 1..Len(key) : CanGrow(key, i)
             s == FindShortSuccessor(key)
  <2>1. i \in 1..Len(key) /\ key[i] \in Nat
    BY <1>2
  <2>2. s = Append(SubSeq(key, 1, i - 1), key[i] + 1)
    BY <1>2 DEF FindShortSuccessor
  <2> HIDE DEF i
  <2>3. /\ SubSeq(key, 1, i - 1) \in Seq(Nat)
        /\ Len(SubSeq(key, 1, i - 1)) = i - 1
        /\ \A j \in 1 .. i - 1 : SubSeq(key, 1, i - 1)[j] = key[j]
    <3>1. \A j \in 1 .. i - 1 : key[j] \in Nat
      BY <2>1
    <3>2. /\ SubSeq(key, 1, i - 1) \in Seq(Nat)
          /\ Len(SubSeq(key, 1, i - 1)) = IF 1 <= i - 1 THEN i - 1 - 1 + 1 ELSE 0
          /\ \A j \in 1 .. i - 1 - 1 + 1 : SubSeq(key, 1, i - 1)[j] = key[1 + j - 1]
      BY <2>1, <3>1, SubSeqProperties
    <3> QED BY <2>1, <3>2
  <2>4. /\ s \in Seq(Nat) /\ Len(s) = i
        /\ \A j \in 1 .. i - 1 : s[j] = key[j]
        /\ s[i] = key[i] + 1
    BY <2>1, <2>2, <2>3, AppendProperties
  <2> HIDE DEF s
  <2>5. ~Less(s, key)
    <3> SUFFICES ASSUME NEW n \in 0..Len(s), n < Len(key),
                        \A j \in 1..n : s[j] = key[j],
                        n < Len(s) => s[n + 1] < key[n + 1]
                 PROVE  FALSE
      BY DEF Less
    <3>1. CASE n < i
      <4>1. n + 1 \in 1..Len(key) /\ n + 1 \in 1..Len(s)
        BY <2>1, <2>4, <3>1
      <4>2. key[n + 1] \in Nat /\ s[n + 1] \in Nat
        BY <2>4, <4>1
      <4>3. s[n + 1] >= key[n + 1]
        <5>1. CASE n + 1 = i
          BY <2>1, <2>4, <5>1
        <5>2. CASE n + 1 \in 1 .. i - 1
          BY <2>4, <4>2, <5>2
        <5> QED BY <2>1, <3>1, <5>1, <5>2
      <4> QED BY <2>1, <2>4, <3>1, <4>2, <4>3
    <3>2. CASE n >= i
      <4>1. s[i] = key[i]
        BY <2>1, <3>2
      <4> QED BY <2>1, <2>4, <4>1
    <3> QED BY <2>1, <2>4, <3>1, <3>2
  <2> QED BY <2>4, <2>5 DEF s
<1>3. CASE ~\E i \in 1..Len(key) : CanGrow(key, i)
  BY <1>1, <1>3 DEF FindShortSuccessor
<1> QED BY <1>2, <1>3

-----------------------------------------------------------------------------
(* The records of the builder.                                             *)

BuilderT == [entries : Seq(EntryT), restarts : Seq(Nat), counter : Nat,
             last_key : Seq(Nat), bytes : Nat]
WrittenT == [handle : HandleT, contents : BlockT]
RepT     == [options : OptionSets, file : Seq(WrittenT),
             footer : FooterT \cup {None},
             room : Nat, offset : Nat, ok : BOOLEAN,
             data_block : BuilderT, index_block : BuilderT,
             last_key : Seq(Nat), num_entries : Nat, closed : BOOLEAN,
             pending : HandleT \cup {None}]

HandlesOf(r) == {r.file[i].handle : i \in 1..Len(r.file)}

EndOf(h) == h.offset + h.size + TrailerSize

(* Each block with its trailer ends before the next begins.                *)
Apart(r) ==
  /\ \A i \in 1..Len(r.file) : EndOf(r.file[i].handle) <= r.offset
  /\ \A i, j \in 1..Len(r.file) :
       i < j => EndOf(r.file[i].handle) <= r.file[j].handle.offset

(* The values of a block are handles of blocks in the file.                *)
LeadsInto(block, r) ==
  \A i \in 1..Len(block.entries) : block.entries[i].value \in HandlesOf(r)

(* The inductive invariant.  What the index leads to depends on what waits *)
(* to be entered there, and the finished index on where it was written.    *)
Sound(r) ==
  /\ r \in RepT
  /\ Apart(r)
  /\ r.pending \in HandlesOf(r) \cup {None}
  /\ LeadsInto(r.index_block, r)
  /\ r.footer # None =>
       \E i \in 1..Len(r.file) : /\ r.file[i].handle = r.footer.index
                                 /\ LeadsInto(r.file[i].contents, r)

LEMMA EmptyBuilderType == EmptyBuilder \in BuilderT /\ EmptyBuilder.entries = <<>>
BY DEF EmptyBuilder, BuilderT

LEMMA BlockSizeType ==
  ASSUME NEW b \in BuilderT
  PROVE  BlockSize(b) \in Nat
<1>1. b.bytes \in Nat /\ Len(b.restarts) \in Nat
  BY DEF BuilderT
<1> QED BY <1>1 DEF BlockSize

(* BlockBuilder::Add puts the value behind those that are there.           *)
LEMMA BlockAddAppends ==
  ASSUME NEW b \in BuilderT, NEW key \in Seq(Nat), NEW value \in Nat \cup HandleT,
         NEW size \in Nat, NEW interval \in Nat,
         NEW a, a = BlockAdd(b, key, value, size, interval)
  PROVE  /\ a \in BuilderT
         /\ Len(a.entries) = Len(b.entries) + 1
         /\ \A i \in 1..Len(b.entries) : a.entries[i] = b.entries[i]
         /\ a.entries[Len(b.entries) + 1].value = value
<1> DEFINE full   == b.counter >= interval
           shared == IF full THEN 0 ELSE Shared(b.last_key, key)
           e      == [shared |-> shared,
                      delta  |-> SubSeq(key, shared + 1, Len(key)),
                      value  |-> value]
<1>1. /\ b.entries \in Seq(EntryT) /\ b.restarts \in Seq(Nat) /\ b.counter \in Nat
      /\ b.last_key \in Seq(Nat) /\ b.bytes \in Nat /\ Len(key) \in Nat
  BY DEF BuilderT
<1>2. shared \in Nat /\ shared <= Len(key)
  BY <1>1, SharedBounds
<1> HIDE DEF shared
<1>3. SubSeq(key, shared + 1, Len(key)) \in Seq(Nat)
  <2>1. \A i \in shared + 1 .. Len(key) : key[i] \in Nat
    BY <1>2
  <2>2. shared + 1 \in Int /\ Len(key) \in Int
    BY <1>1, <1>2
  <2> QED BY <2>1, <2>2, SubSeqProperties, Zenon
<1>4. e \in EntryT /\ e.value = value
  BY <1>2, <1>3 DEF EntryT
<1> HIDE DEF e
<1>5. /\ Append(b.entries, e) \in Seq(EntryT)
      /\ Len(Append(b.entries, e)) = Len(b.entries) + 1
      /\ \A i \in 1..Len(b.entries) : Append(b.entries, e)[i] = b.entries[i]
      /\ Append(b.entries, e)[Len(b.entries) + 1] = e
  BY <1>1, <1>4, AppendProperties
<1>6. Append(b.restarts, Len(b.entries)) \in Seq(Nat)
  <2>1. Len(b.entries) \in Nat
    BY <1>1
  <2> QED BY <1>1, <2>1, AppendProperties, Zenon
<1> DEFINE rs == IF full THEN Append(b.restarts, Len(b.entries)) ELSE b.restarts
           ct == (IF full THEN 0 ELSE b.counter) + 1
           bs == b.bytes + Varint(shared) + Varint(Len(key) - shared)
                   + Varint(size) + Len(key) - shared + size
<1>7. a = [entries |-> Append(b.entries, e), restarts |-> rs, counter |-> ct,
           last_key |-> key, bytes |-> bs]
  BY DEF BlockAdd, e, shared
<1>8. rs \in Seq(Nat) /\ ct \in Nat /\ bs \in Nat
  <2>1. rs \in Seq(Nat) /\ ct \in Nat
    BY <1>1, <1>6
  <2>2. /\ Len(key) - shared \in Nat
        /\ Varint(shared) \in Nat /\ Varint(Len(key) - shared) \in Nat
        /\ Varint(size) \in Nat
    <3>1. Len(key) - shared \in Nat
      BY <1>1, <1>2
    <3> QED BY <1>2, <3>1, VarintType, Zenon
  <2>3. bs \in Nat
    <3>1. \A n, u, v, w, l, h, z \in Nat : h <= l => n + u + v + w + l - h + z \in Nat
      OBVIOUS
    <3> QED BY <1>1, <1>2, <2>2, <3>1, Zenon
  <2> QED BY <2>1, <2>3
<1> HIDE DEF rs, ct, bs
<1>9. a \in BuilderT
  BY <1>5, <1>7, <1>8 DEF BuilderT
<1> QED BY <1>4, <1>5, <1>7, <1>9

-----------------------------------------------------------------------------
(* The operations of the builder keep it sound.                            *)

LEMMA HandleOfType ==
  ASSUME NEW r \in RepT, NEW b \in BuilderT
  PROVE  HandleOf(r, b) \in HandleT
BY BlockSizeType DEF HandleOf, HandleT, RepT

(* WriteBlock (table_builder.cc:150) adds a block behind all others, or    *)
(* nothing; it touches neither the index nor what waits for it.            *)
LEMMA WriteBlockSound ==
  ASSUME NEW r, Sound(r), NEW b \in BuilderT
  PROVE  LET w == WriteBlock(r, b)
         IN  /\ Sound(w)
             /\ w.ok => \E i \in 1..Len(w.file) :
                          /\ w.file[i].handle = HandleOf(r, b)
                          /\ w.file[i].contents = Contents(b)
             /\ HandlesOf(r) \subseteq HandlesOf(w)
             /\ w.index_block = r.index_block /\ w.pending = r.pending
<1> DEFINE w == WriteBlock(r, b)
           e == [handle |-> HandleOf(r, b), contents |-> Contents(b)]
<1>1. r \in RepT
  BY DEF Sound
<1>2. /\ r.file \in Seq(WrittenT) /\ r.offset \in Nat /\ r.room \in Nat
      /\ Len(r.file) \in Nat
  BY <1>1 DEF RepT
<1>3. CASE r.room = 0
  <2>1. w = [r EXCEPT !.ok = FALSE]
    BY <1>3 DEF WriteBlock
  <2>2. /\ w \in RepT /\ ~w.ok /\ w.file = r.file /\ w.offset = r.offset
        /\ w.index_block = r.index_block /\ w.pending = r.pending
        /\ w.footer = r.footer
    BY <1>1, <2>1 DEF RepT
  <2> HIDE DEF w
  <2>3. HandlesOf(w) = HandlesOf(r)
    BY <2>2 DEF HandlesOf
  <2>4. Sound(w)
    BY <2>2, <2>3 DEF Sound, Apart, LeadsInto
  <2> QED BY <2>2, <2>3, <2>4 DEF w
<1>4. CASE r.room # 0
  <2>1. e \in WrittenT
    <3>1. Contents(b) \in BlockT
      BY DEF Contents, BlockT, BuilderT
    <3> QED BY <1>1, <3>1, HandleOfType DEF WrittenT
  <2>2. /\ Append(r.file, e) \in Seq(WrittenT)
        /\ Len(Append(r.file, e)) = Len(r.file) + 1
        /\ \A i \in 1..Len(r.file) : Append(r.file, e)[i] = r.file[i]
        /\ Append(r.file, e)[Len(r.file) + 1] = e
    BY <1>2, <2>1, AppendProperties
  <2>3. w = [r EXCEPT !.room = r.room - 1,
                      !.file = Append(r.file, e),
                      !.offset = r.offset + BlockSize(b) + TrailerSize]
    BY <1>4 DEF WriteBlock
  <2>4. /\ r.room - 1 \in Nat /\ BlockSize(b) \in Nat
        /\ r.offset + BlockSize(b) + TrailerSize \in Nat
    BY <1>2, <1>4, BlockSizeType DEF TrailerSize
  <2>5. /\ w.file = Append(r.file, e)
        /\ w.offset = r.offset + BlockSize(b) + TrailerSize
        /\ w.index_block = r.index_block /\ w.pending = r.pending
        /\ w.footer = r.footer
    BY <1>1, <2>3 DEF RepT
  <2>6. w \in RepT
    BY <1>1, <2>2, <2>3, <2>4 DEF RepT
  <2> HIDE DEF w
  <2>7. /\ Len(w.file) = Len(r.file) + 1
        /\ \A i \in 1..Len(r.file) : w.file[i] = r.file[i]
        /\ w.file[Len(r.file) + 1] = e
        /\ e.handle = HandleOf(r, b) /\ e.contents = Contents(b)
    BY <2>2, <2>5
  <2>8. HandlesOf(r) \subseteq HandlesOf(w)
    BY <1>2, <2>7 DEF HandlesOf
  <2>9. Apart(w)
    <3>1. EndOf(e.handle) = w.offset /\ e.handle.offset = r.offset
      BY <1>2, <2>4, <2>5, <2>7 DEF EndOf, HandleOf
    <3>2. \A i \in 1..Len(r.file) :
            /\ r.file[i].handle \in HandleT
            /\ EndOf(r.file[i].handle) \in Nat
      <4> TAKE i \in 1..Len(r.file)
      <4>1. r.file[i] \in WrittenT
        BY <1>2
      <4>2. r.file[i].handle \in HandleT
        BY <4>1 DEF WrittenT
      <4>3. EndOf(r.file[i].handle) \in Nat
        BY <4>2 DEF HandleT, EndOf, TrailerSize
      <4> QED BY <4>2, <4>3
    <3>3. r.offset <= w.offset
      BY <1>2, <2>4, <2>5 DEF TrailerSize
    <3>4. \A i \in 1..Len(r.file) : EndOf(r.file[i].handle) <= r.offset
      BY DEF Sound, Apart
    <3>5. ASSUME NEW i \in 1..Len(w.file)
          PROVE  EndOf(w.file[i].handle) <= w.offset
      <4>1. CASE i \in 1..Len(r.file)
        BY <1>2, <2>4, <2>5, <2>7, <3>2, <3>3, <3>4, <4>1
      <4>2. CASE i = Len(r.file) + 1
        BY <1>2, <2>4, <2>5, <2>7, <3>1, <4>2
      <4> QED BY <1>2, <2>7, <4>1, <4>2
    <3>6. ASSUME NEW i \in 1..Len(w.file), NEW j \in 1..Len(w.file), i < j
          PROVE  EndOf(w.file[i].handle) <= w.file[j].handle.offset
      <4>1. i \in 1..Len(r.file)
        BY <1>2, <2>7, <3>6
      <4>2. CASE j \in 1..Len(r.file)
        <5>1. EndOf(r.file[i].handle) <= r.file[j].handle.offset
          BY <3>6, <4>1, <4>2 DEF Sound, Apart
        <5> QED BY <2>7, <4>1, <4>2, <5>1
      <4>3. CASE j = Len(r.file) + 1
        BY <2>7, <3>1, <3>4, <4>1, <4>3
      <4> QED BY <1>2, <2>7, <4>2, <4>3
    <3> QED BY <3>5, <3>6 DEF Apart
  <2>10. w.footer # None =>
           \E i \in 1..Len(w.file) : /\ w.file[i].handle = w.footer.index
                                     /\ LeadsInto(w.file[i].contents, w)
    <3> HAVE w.footer # None
    <3>1. PICK i \in 1..Len(r.file) : /\ r.file[i].handle = r.footer.index
                                     /\ LeadsInto(r.file[i].contents, r)
      BY <2>5 DEF Sound
    <3>2. i \in 1..Len(w.file) /\ w.file[i] = r.file[i]
      BY <1>2, <2>7
    <3>3. LeadsInto(w.file[i].contents, w)
      BY <2>8, <3>1, <3>2 DEF LeadsInto
    <3> QED BY <2>5, <3>1, <3>2, <3>3
  <2>11. Sound(w)
    BY <2>5, <2>6, <2>8, <2>9, <2>10 DEF Sound, LeadsInto
  <2>12. Len(r.file) + 1 \in 1..Len(w.file)
    BY <1>2, <2>7
  <2> QED BY <2>5, <2>7, <2>8, <2>11, <2>12 DEF w
<1> QED BY <1>3, <1>4

(* Flush (table_builder.cc:137) waits with the index entry of a block only *)
(* if the block was written.                                               *)
LEMMA FlushSound ==
  ASSUME NEW r, Sound(r)
  PROVE  Sound(Flush(r))
<1> DEFINE w == WriteBlock(r, r.data_block)
           f == Flush(r)
           p == IF w.ok THEN HandleOf(r, r.data_block) ELSE w.pending
<1>1. CASE ~r.ok \/ r.data_block.entries = <<>>
  BY <1>1 DEF Flush
<1>2. CASE ~(~r.ok \/ r.data_block.entries = <<>>)
  <2>1. r \in RepT /\ r.data_block \in BuilderT
    BY DEF Sound, RepT
  <2>2. /\ Sound(w)
        /\ w.ok => \E i \in 1..Len(w.file) :
                     w.file[i].handle = HandleOf(r, r.data_block)
    BY <2>1, WriteBlockSound
  <2>3. f = [w EXCEPT !.data_block = EmptyBuilder, !.pending = p]
    BY <1>2 DEF Flush
  <2> HIDE DEF w
  <2>4. w \in RepT /\ HandleOf(r, r.data_block) \in HandleT
    BY <2>1, <2>2, HandleOfType DEF Sound
  <2>5. p \in HandlesOf(w) \cup {None} /\ p \in HandleT \cup {None}
    BY <2>2, <2>4 DEF Sound, HandlesOf, RepT
  <2> HIDE DEF p
  <2>6. /\ f \in RepT /\ f.file = w.file /\ f.offset = w.offset
        /\ f.index_block = w.index_block /\ f.footer = w.footer /\ f.pending = p
    BY <2>3, <2>4, <2>5, EmptyBuilderType DEF RepT
  <2> HIDE DEF f
  <2>7. HandlesOf(f) = HandlesOf(w)
    BY <2>6 DEF HandlesOf
  <2>8. Sound(f)
    BY <2>2, <2>5, <2>6, <2>7 DEF Sound, Apart, LeadsInto
  <2> QED BY <2>8 DEF f
<1> QED BY <1>1, <1>2

(* The entry that waited goes to the index.                                *)
LEMMA IndexPendingSound ==
  ASSUME NEW r, Sound(r), NEW key \in Seq(Nat)
  PROVE  Sound(IndexPending(r, key))
<1> DEFINE x == IndexPending(r, key)
           b == r.index_block
           v == r.pending
           h == HandleSize(r.pending)
           a == BlockAdd(b, key, v, h, 1)
<1>1. CASE r.pending = None
  BY <1>1 DEF IndexPending
<1>2. CASE r.pending # None
  <2>1. /\ r \in RepT /\ r.index_block \in BuilderT
        /\ r.pending \in HandleT /\ r.pending \in HandlesOf(r)
    BY <1>2 DEF Sound, RepT
  <2>2. HandleSize(r.pending) \in Nat
    <3>1. r.pending.offset \in Nat /\ r.pending.size \in Nat
      BY <2>1 DEF HandleT
    <3>2. Varint(r.pending.offset) \in Nat /\ Varint(r.pending.size) \in Nat
      BY <3>1, VarintType, Zenon
    <3> QED BY <3>2 DEF HandleSize
  <2>3. b \in BuilderT /\ v \in Nat \cup HandleT /\ h \in Nat
    BY <2>1, <2>2
  <2>4. x = [r EXCEPT !.index_block = a, !.last_key = key, !.pending = None]
    BY <1>2 DEF IndexPending
  <2> HIDE DEF b, v, h
  <2>5. a = BlockAdd(b, key, v, h, 1) /\ 1 \in Nat
    OBVIOUS
  <2> HIDE DEF a
  <2>6. /\ a \in BuilderT
        /\ Len(a.entries) = Len(b.entries) + 1
        /\ \A i \in 1..Len(b.entries) : a.entries[i] = b.entries[i]
        /\ a.entries[Len(b.entries) + 1].value = v
    <3>1. Len(a.entries) = Len(b.entries) + 1
      BY <2>3, <2>5, BlockAddAppends
    <3>2. \A i \in 1..Len(b.entries) : a.entries[i] = b.entries[i]
      BY <2>3, <2>5, BlockAddAppends
    <3>3. a \in BuilderT /\ a.entries[Len(b.entries) + 1].value = v
      BY <2>3, <2>5, BlockAddAppends
    <3> QED BY <3>1, <3>2, <3>3
  <2>7. /\ x \in RepT /\ x.file = r.file /\ x.offset = r.offset
        /\ x.index_block = a /\ x.footer = r.footer /\ x.pending = None
    BY <2>1, <2>4, <2>6 DEF RepT
  <2> HIDE DEF x
  <2>8. HandlesOf(x) = HandlesOf(r)
    BY <2>7 DEF HandlesOf
  <2>9. LeadsInto(a, r)
    <3> SUFFICES ASSUME NEW i \in 1..Len(a.entries)
                 PROVE  a.entries[i].value \in HandlesOf(r)
      BY DEF LeadsInto
    <3>1. CASE i \in 1..Len(b.entries)
      BY <2>6, <3>1 DEF Sound, LeadsInto, b
    <3>2. CASE i = Len(b.entries) + 1
      BY <2>1, <2>6, <3>2 DEF v
    <3>3. Len(b.entries) \in Nat
      BY <2>3 DEF BuilderT
    <3> QED BY <2>6, <3>1, <3>2, <3>3
  <2>10. Sound(x)
    BY <2>7, <2>8, <2>9 DEF Sound, Apart, LeadsInto
  <2> QED BY <2>10 DEF x
<1> QED BY <1>1, <1>2

(* What does not touch the file and the index keeps soundness.             *)
LEMMA SoundDepends ==
  ASSUME NEW r, Sound(r), NEW y \in RepT,
         y.file = r.file, y.offset = r.offset, y.footer = r.footer,
         y.pending = r.pending, LeadsInto(y.index_block, r)
  PROVE  Sound(y)
<1>1. HandlesOf(y) = HandlesOf(r)
  BY DEF HandlesOf
<1> QED BY <1>1 DEF Sound, Apart, LeadsInto

LEMMA SeparatorType ==
  ASSUME NEW start \in Seq(Nat), NEW limit \in Seq(Nat)
  PROVE  FindShortestSeparator(start, limit) \in Seq(Nat)
<1> DEFINE d == Shared(start, limit)
<1>1. d \in Nat /\ d <= Len(start)
  BY SharedBounds
<1> HIDE DEF d
<1>2. SubSeq(start, 1, d) \in Seq(Nat)
  <2>1. \A i \in 1..d : start[i] \in Nat
    BY <1>1
  <2>2. 1 \in Int /\ d \in Int
    BY <1>1
  <2> QED BY <2>1, <2>2, SubSeqProperties, Zenon
<1>3. d < Len(start) => Append(SubSeq(start, 1, d), start[d + 1] + 1) \in Seq(Nat)
  <2> HAVE d < Len(start)
  <2>1. start[d + 1] + 1 \in Nat
    BY <1>1
  <2> QED BY <1>2, <2>1, AppendProperties, Zenon
<1> QED BY <1>3 DEF FindShortestSeparator, d

(* Add (table_builder.cc:103): a flush, the index entry that waits, the new *)
(* entry, perhaps another flush.                                           *)
LEMMA AddToSound ==
  ASSUME NEW r, Sound(r), NEW key \in Seq(Nat), NEW n \in Nat, TableAssumption
  PROVE  Sound(AddTo(r, key, n))
<1> DEFINE o  == r.options
           r1 == IF r.num_entries > 0 /\ Len(key) + n >= 2 * o.block_size
                 THEN Flush(r) ELSE r
           r2 == IndexPending(r1, FindShortestSeparator(r1.last_key, key))
           a  == BlockAdd(r2.data_block, key, n, n, o.block_restart_interval)
           r3 == [r2 EXCEPT !.last_key = key, !.num_entries = r2.num_entries + 1,
                            !.data_block = a]
<1>1. Sound(r1)
  BY FlushSound
<1> HIDE DEF r1
<1>2. Sound(r2)
  <2>1. r1.last_key \in Seq(Nat)
    BY <1>1 DEF Sound, RepT
  <2> QED BY <1>1, <2>1, SeparatorType, IndexPendingSound
<1> HIDE DEF r2
<1>3. a \in BuilderT
  <2>1. /\ r2.data_block \in BuilderT /\ n \in Nat \cup HandleT
        /\ o.block_restart_interval \in Nat
    BY <1>2 DEF Sound, RepT, TableAssumption
  <2>2. a = BlockAdd(r2.data_block, key, n, n, o.block_restart_interval)
    OBVIOUS
  <2> HIDE DEF a, o
  <2> QED BY <2>1, <2>2, BlockAddAppends
<1> HIDE DEF a
<1>4. Sound(r3)
  <2>1. r2 \in RepT /\ r2.num_entries + 1 \in Nat
    BY <1>2 DEF Sound, RepT
  <2>2. /\ r3 \in RepT /\ r3.file = r2.file /\ r3.offset = r2.offset
        /\ r3.footer = r2.footer /\ r3.pending = r2.pending
        /\ r3.index_block = r2.index_block
    BY <1>3, <2>1 DEF RepT
  <2>3. LeadsInto(r3.index_block, r2)
    BY <1>2, <2>2 DEF Sound
  <2> HIDE DEF r3
  <2> QED BY <1>2, <2>2, <2>3, SoundDepends
<1>5. AddTo(r, key, n) = IF BlockSize(r3.data_block) >= o.block_size
                         THEN Flush(r3) ELSE r3
  BY DEF AddTo, r1, r2, a
<1> HIDE DEF r3
<1> QED BY <1>4, <1>5, FlushSound

(* Finish (table_builder.cc:207): the footer leads to the index as it was  *)
(* written.                                                                *)
LEMMA FinishSound ==
  ASSUME Sound(rep), Finish
  PROVE  Sound(rep')
<1> DEFINE f  == Flush(rep)
           r1 == [f EXCEPT !.closed = TRUE]
           r2 == IF r1.ok THEN WriteBlock(r1, EmptyBuilder) ELSE r1
           r3 == IF r2.ok THEN IndexPending(r2, FindShortSuccessor(r2.last_key))
                 ELSE r2
           w  == WriteBlock(r3, r3.index_block)
           r4 == IF r3.ok THEN [w EXCEPT !.index_block = EmptyBuilder] ELSE r3
           t  == [metaindex |-> HandleOf(r1, EmptyBuilder),
                  index |-> HandleOf(r3, r3.index_block)]
           r5 == [r4 EXCEPT !.room = r4.room - 1, !.footer = t,
                            !.offset = r4.offset + FooterSize]
<1>1. rep' = IF ~r4.ok THEN r4
             ELSE IF r4.room = 0 THEN [r4 EXCEPT !.ok = FALSE]
             ELSE r5
  BY DEF Finish
<1>2. Sound(f)
  BY FlushSound
<1> HIDE DEF f
<1>3. Sound(r1)
  <2>1. f \in RepT /\ LeadsInto(f.index_block, f)
    BY <1>2 DEF Sound
  <2>2. /\ r1 \in RepT /\ r1.file = f.file /\ r1.offset = f.offset
        /\ r1.footer = f.footer /\ r1.pending = f.pending
        /\ r1.index_block = f.index_block
    BY <2>1 DEF RepT
  <2> HIDE DEF r1
  <2> QED BY <1>2, <2>1, <2>2, SoundDepends
<1> HIDE DEF r1
<1>4. Sound(r2)
  BY <1>3, EmptyBuilderType, WriteBlockSound
<1> HIDE DEF r2
<1>5. Sound(r3)
  <2>1. r2.last_key \in Seq(Nat)
    BY <1>4 DEF Sound, RepT
  <2>2. FindShortSuccessor(r2.last_key) \in Seq(Nat)
    BY <2>1, SuccessorIsPast
  <2> QED BY <1>4, <2>2, IndexPendingSound
<1> HIDE DEF r3
<1>6. /\ r3.index_block \in BuilderT /\ r3 \in RepT
      /\ LeadsInto(r3.index_block, r3)
  BY <1>5 DEF Sound, RepT
<1>7. /\ Sound(w)
      /\ w.ok => \E i \in 1..Len(w.file) :
                   /\ w.file[i].handle = HandleOf(r3, r3.index_block)
                   /\ w.file[i].contents = Contents(r3.index_block)
      /\ HandlesOf(r3) \subseteq HandlesOf(w)
  BY <1>5, <1>6, WriteBlockSound
<1> HIDE DEF w
<1>8. /\ Sound(r4)
      /\ r4.ok => \E i \in 1..Len(r4.file) :
                   /\ r4.file[i].handle = HandleOf(r3, r3.index_block)
                   /\ LeadsInto(r4.file[i].contents, r4)
  <2>1. CASE r3.ok
    <3>1. r4 = [w EXCEPT !.index_block = EmptyBuilder]
      BY <2>1
    <3>2. w \in RepT
      BY <1>7 DEF Sound
    <3> HIDE DEF r4
    <3>3. /\ r4 \in RepT /\ r4.file = w.file /\ r4.offset = w.offset
          /\ r4.footer = w.footer /\ r4.pending = w.pending /\ r4.ok = w.ok
          /\ r4.index_block = EmptyBuilder
      BY <3>1, <3>2, EmptyBuilderType DEF RepT
    <3>4. LeadsInto(r4.index_block, w)
      BY <3>3, EmptyBuilderType DEF LeadsInto
    <3>5. Sound(r4)
      BY <1>7, <3>3, <3>4, SoundDepends
    <3>6. HandlesOf(r3) \subseteq HandlesOf(r4)
      BY <1>7, <3>3 DEF HandlesOf
    <3>7. LeadsInto(Contents(r3.index_block), r4)
      BY <1>6, <3>6 DEF LeadsInto, Contents
    <3> QED BY <1>7, <3>3, <3>5, <3>7
  <2>2. CASE ~r3.ok
    BY <1>5, <2>2
  <2> QED BY <2>1, <2>2
<1>9. r4 \in RepT
  BY <1>8 DEF Sound
<1> HIDE DEF r4
<1>10. Sound([r4 EXCEPT !.ok = FALSE])
  <2> DEFINE y == [r4 EXCEPT !.ok = FALSE]
  <2>1. /\ y \in RepT /\ y.file = r4.file /\ y.offset = r4.offset
        /\ y.footer = r4.footer /\ y.pending = r4.pending
        /\ y.index_block = r4.index_block
    BY <1>9 DEF RepT
  <2>2. LeadsInto(y.index_block, r4)
    BY <1>8, <2>1 DEF Sound
  <2> HIDE DEF y
  <2>3. Sound(y)
    BY <1>8, <2>1, <2>2, SoundDepends
  <2> QED BY <2>3 DEF y
<1>11. ASSUME r4.ok, r4.room # 0
       PROVE  Sound(r5)
  <2>1. t \in FooterT
    <3>1. r1 \in RepT
      BY <1>3 DEF Sound
    <3>2. HandleOf(r1, EmptyBuilder) \in HandleT /\ HandleOf(r3, r3.index_block) \in HandleT
      BY <1>6, <3>1, EmptyBuilderType, HandleOfType
    <3> QED BY <3>2 DEF FooterT
  <2>2. t.index = HandleOf(r3, r3.index_block)
    OBVIOUS
  <2> HIDE DEF t
  <2>3. r4.room - 1 \in Nat /\ r4.offset \in Nat /\ r4.offset + FooterSize \in Nat
    BY <1>9, <1>11 DEF RepT, FooterSize
  <2>4. /\ r5 \in RepT /\ r5.file = r4.file /\ r5.offset = r4.offset + FooterSize
        /\ r5.footer = t /\ r5.pending = r4.pending
        /\ r5.index_block = r4.index_block
    BY <1>9, <2>1, <2>3 DEF RepT
  <2> HIDE DEF r5
  <2>5. HandlesOf(r5) = HandlesOf(r4)
    BY <2>4 DEF HandlesOf
  <2>6. Apart(r5)
    <3>1. \A i \in 1..Len(r4.file) : EndOf(r4.file[i].handle) \in Nat
      <4> TAKE i \in 1..Len(r4.file)
      <4>1. r4.file[i] \in WrittenT
        BY <1>9 DEF RepT
      <4>2. r4.file[i].handle \in HandleT
        BY <4>1 DEF WrittenT
      <4> QED BY <4>2 DEF HandleT, EndOf, TrailerSize
    <3>2. \A i \in 1..Len(r4.file) : EndOf(r4.file[i].handle) <= r4.offset
      BY <1>8 DEF Sound, Apart
    <3>3. \A i \in 1..Len(r4.file) : EndOf(r4.file[i].handle) <= r4.offset + FooterSize
      BY <2>3, <3>1, <3>2 DEF FooterSize
    <3> QED BY <1>8, <2>4, <3>3 DEF Sound, Apart
  <2>7. \E i \in 1..Len(r5.file) : /\ r5.file[i].handle = r5.footer.index
                                   /\ LeadsInto(r5.file[i].contents, r5)
    BY <1>8, <1>11, <2>2, <2>4, <2>5 DEF LeadsInto
  <2> QED BY <1>8, <2>4, <2>5, <2>6, <2>7 DEF Sound, LeadsInto
<1> QED BY <1>1, <1>8, <1>10, <1>11

-----------------------------------------------------------------------------
(* The table.                                                              *)

LEMMA InitSound == Init => Sound(rep)
<1> SUFFICES ASSUME NEW o \in OptionSets, NEW n \in Rooms, rep = NewRep(o, n)
             PROVE  Sound(rep)
  BY DEF Init, BuilderInit
<1>1. /\ rep \in RepT /\ rep.file = <<>> /\ rep.footer = None
      /\ rep.pending = None /\ rep.index_block.entries = <<>>
  BY TableAssumption, EmptyBuilderType DEF NewRep, RepT, TableAssumption
<1> QED BY <1>1 DEF Sound, Apart, LeadsInto

LEMMA NextSound ==
  ASSUME Sound(rep), [Next]_vars
  PROVE  Sound(rep')
<1>1. ASSUME NEW key \in Keys, NEW n \in Lengths, Add(key, n)
      PROVE  Sound(rep')
  <2>1. key \in Seq(Nat) /\ n \in Nat
    <3>1. 0..MaxByte \subseteq Nat
      BY TableAssumption DEF TableAssumption
    <3>2. key \in Seq(0..MaxByte) /\ n \in Nat
      BY TableAssumption DEF TableAssumption
    <3> QED BY <3>1, <3>2, SeqMonotonic
  <2>2. Sound(AddTo(rep, key, n))
    BY <2>1, TableAssumption, AddToSound
  <2> QED BY <1>1, <2>2 DEF Add
<1>2. CASE FlushBlock
  BY <1>2, FlushSound DEF FlushBlock
<1>3. CASE Finish
  BY <1>3, FinishSound
<1>4. CASE Abandon
  <2>1. rep \in RepT /\ LeadsInto(rep.index_block, rep)
    BY DEF Sound
  <2>2. /\ rep' \in RepT /\ rep'.file = rep.file /\ rep'.offset = rep.offset
        /\ rep'.footer = rep.footer /\ rep'.pending = rep.pending
        /\ rep'.index_block = rep.index_block
    BY <1>4, <2>1 DEF Abandon, RepT
  <2> QED BY <2>1, <2>2, SoundDepends
<1>5. CASE UNCHANGED rep
  BY <1>5
<1>6. Read => UNCHANGED rep
  BY DEF Read, Open, Seek, SeekToFirst, Begin, Advance, Skip, SkipReturn, SkipEnd,
         SkipBlock, builder
<1> QED BY <1>1, <1>2, <1>3, <1>4, <1>5, <1>6 DEF Next, Build, vars, builder

(* The handle of a block leads back to it.                                 *)
LEMMA BlockAtFinds ==
  ASSUME Sound(rep), NEW i \in 1..Len(rep.file)
  PROVE  BlockAt(rep.file[i].handle) = rep.file[i].contents
<1>1. ASSUME NEW j \in 1..Len(rep.file), NEW k \in 1..Len(rep.file), j < k
      PROVE  rep.file[j].handle # rep.file[k].handle
  <2>1. rep.file[j] \in WrittenT
    BY DEF Sound, RepT
  <2>2. rep.file[j].handle.offset \in Nat /\ rep.file[j].handle.size \in Nat
    BY <2>1 DEF WrittenT, HandleT
  <2>3. EndOf(rep.file[j].handle) <= rep.file[k].handle.offset
    BY <1>1 DEF Sound, Apart
  <2>4. \A n, m \in Nat : ~(n + m + 5 <= n)
    OBVIOUS
  <2> QED BY <2>2, <2>3, <2>4 DEF EndOf, TrailerSize
<1>2. Len(rep.file) \in Nat
  BY DEF Sound, RepT
<1>3. \A j \in 1..Len(rep.file) :
        rep.file[j].handle = rep.file[i].handle => j = i
  BY <1>1, <1>2
<1> DEFINE B == {rep.file[j] : j \in 1..Len(rep.file)}
<1>4. rep.file[i] \in B /\ \A b \in B : b.handle = rep.file[i].handle => b = rep.file[i]
  BY <1>3
<1> HIDE DEF B
<1>5. (CHOOSE b \in B : b.handle = rep.file[i].handle) = rep.file[i]
  BY <1>4
<1> QED BY <1>5 DEF BlockAt, B

LEMMA SoundIndex ==
  ASSUME Sound(rep)
  PROVE  IndexedBlocksExist
<1>1. Handles = HandlesOf(rep)
  BY DEF Handles, HandlesOf
<1>2. LeadsInto(Index, rep)
  <2>1. CASE rep.footer = None
    BY <2>1 DEF Index, Contents, Sound, LeadsInto
  <2>2. CASE rep.footer # None
    <3>1. PICK i \in 1..Len(rep.file) : /\ rep.file[i].handle = rep.footer.index
                                       /\ LeadsInto(rep.file[i].contents, rep)
      BY <2>2 DEF Sound
    <3>2. Index = rep.file[i].contents
      BY <2>2, <3>1, BlockAtFinds DEF Index
    <3> QED BY <3>1, <3>2
  <2> QED BY <2>1, <2>2
<1>3. ASSUME NEW g \in Handles, NEW h \in Handles, g # h
      PROVE  \/ g.offset + g.size + TrailerSize <= h.offset
             \/ h.offset + h.size + TrailerSize <= g.offset
  <2>1. PICK i \in 1..Len(rep.file) : g = rep.file[i].handle
    BY DEF Handles
  <2>2. PICK j \in 1..Len(rep.file) : h = rep.file[j].handle
    BY DEF Handles
  <2>3. i < j \/ j < i
    BY <1>3, <2>1, <2>2
  <2> QED BY <2>1, <2>2, <2>3 DEF Sound, Apart, EndOf
<1> QED BY <1>1, <1>2, <1>3 DEF IndexedBlocksExist, LeadsInto

(* However many entries there are and wherever the disk becomes full, the  *)
(* index leads to blocks in the file, which do not overlap                 *)
(* (table_builder.cc:186).                                                 *)
THEOREM SpecIndexedBlocksExist == Spec => []IndexedBlocksExist
<1>1. Init => Sound(rep)
  BY InitSound
<1>2. Sound(rep) /\ [Next]_vars => Sound(rep)'
  <2>1. ASSUME Sound(rep), [Next]_vars
        PROVE  Sound(rep')
    BY <2>1, NextSound
  <2> QED BY <2>1 DEF Sound, Apart, LeadsInto, HandlesOf, EndOf
<1>3. Sound(rep) => IndexedBlocksExist
  BY SoundIndex
<1> QED BY <1>1, <1>2, <1>3, PTL DEF Spec

-----------------------------------------------------------------------------
(* The order of keys.                                                      *)

LEMMA LeastNatural ==
  ASSUME NEW T, T \subseteq Nat, T # {}
  PROVE  \E x \in T : \A y \in T : x <= y
<1> DEFINE R == {p \in Nat \X Nat : p[1] < p[2]}
<1>1. IsWellFoundedOn(R, Nat)
  BY NatLessThanWellFounded DEF OpToRel
<1>2. PICK x \in T : \A y \in T : ~ (<<y, x>> \in R)
  BY <1>1, WFMin
<1>3. ASSUME NEW y \in T PROVE x <= y
  <2>1. ~ (<<y, x>> \in R)
    BY <1>2
  <2> QED BY <2>1
<1> QED BY <1>3

(* Two keys agree up to where one ends or they differ.                     *)
LEMMA Diverge ==
  ASSUME NEW a \in Seq(Nat), NEW b \in Seq(Nat)
  PROVE  \E n \in Nat : /\ n <= Len(a) /\ n <= Len(b)
                        /\ \A i \in 1..n : a[i] = b[i]
                        /\ n < Len(a) /\ n < Len(b) => a[n + 1] # b[n + 1]
<1> DEFINE T == {n \in Nat : n = Len(a) \/ n = Len(b) \/ a[n + 1] # b[n + 1]}
<1>1. T \subseteq Nat /\ Len(a) \in T /\ Len(b) \in T
  OBVIOUS
<1>2. PICK n \in T : \A m \in T : n <= m
  BY <1>1, LeastNatural
<1>3. n \in Nat /\ n <= Len(a) /\ n <= Len(b)
  BY <1>1, <1>2
<1>4. ASSUME NEW i \in 1..n PROVE a[i] = b[i]
  <2>1. i - 1 \in Nat /\ ~ n <= i - 1 /\ (i - 1) + 1 = i
    BY <1>3
  <2>2. i - 1 \notin T
    BY <1>2, <2>1
  <2>3. ~ a[(i - 1) + 1] # b[(i - 1) + 1]
    BY <2>1, <2>2
  <2> QED BY <2>1, <2>3
<1>5. n < Len(a) /\ n < Len(b) => a[n + 1] # b[n + 1]
  BY <1>2, <1>3
<1> QED BY <1>3, <1>4, <1>5

LEMMA SharedAgrees ==
  ASSUME NEW a \in Seq(Nat), NEW b \in Seq(Nat)
  PROVE  \A i \in 1..Shared(a, b) : a[i] = b[i]
<1>1. PICK n \in Nat : /\ n <= Len(a) /\ n <= Len(b)
                       /\ \A i \in 1..n : a[i] = b[i]
                       /\ n < Len(a) /\ n < Len(b) => a[n + 1] # b[n + 1]
  BY Diverge
<1>2. n \in 0..Len(a)
  BY <1>1
<1>3. Shared(a, b) = n
  BY <1>1, <1>2, SharedIs
<1> QED BY <1>1, <1>3

LEMMA LessTotal ==
  ASSUME NEW a \in Seq(Nat), NEW b \in Seq(Nat)
  PROVE  Less(a, b) \/ Less(b, a) \/ a = b
<1>1. PICK n \in Nat : /\ n <= Len(a) /\ n <= Len(b)
                       /\ \A i \in 1..n : a[i] = b[i]
                       /\ n < Len(a) /\ n < Len(b) => a[n + 1] # b[n + 1]
  BY Diverge
<1>2. n \in 0..Len(a) /\ n \in 0..Len(b)
  BY <1>1
<1>3. CASE n = Len(a) /\ n < Len(b)
  <2>1. ~ n < Len(a)
    BY <1>3
  <2> QED BY <1>1, <1>2, <1>3, <2>1 DEF Less
<1>4. CASE n = Len(b) /\ n < Len(a)
  <2>1. ~ n < Len(b)
    BY <1>4
  <2> QED BY <1>1, <1>2, <1>4, <2>1 DEF Less
<1>5. CASE n < Len(a) /\ n < Len(b)
  <2>1. a[n + 1] \in Nat /\ b[n + 1] \in Nat
    BY <1>5
  <2>2. a[n + 1] < b[n + 1] \/ b[n + 1] < a[n + 1]
    BY <1>1, <1>5, <2>1
  <2> QED BY <1>1, <1>2, <1>5, <2>2 DEF Less
<1>6. CASE n = Len(a) /\ n = Len(b)
  BY <1>1, <1>6, SeqEqual
<1> QED BY <1>1, <1>3, <1>4, <1>5, <1>6

LEMMA LessTransitive ==
  ASSUME NEW a \in Seq(Nat), NEW b \in Seq(Nat), NEW c \in Seq(Nat),
         Less(a, b), Less(b, c)
  PROVE  Less(a, c)
<1>1. PICK n \in 0..Len(a) : /\ n < Len(b)
                             /\ \A i \in 1..n : a[i] = b[i]
                             /\ n < Len(a) => a[n + 1] < b[n + 1]
  BY DEF Less
<1>2. PICK m \in 0..Len(b) : /\ m < Len(c)
                             /\ \A i \in 1..m : b[i] = c[i]
                             /\ m < Len(b) => b[m + 1] < c[m + 1]
  BY DEF Less
<1>3. CASE n < m
  <2>1. n + 1 \in 1..m /\ n < Len(c) /\ \A i \in 1..n : i \in 1..m
    BY <1>1, <1>2, <1>3
  <2>2. b[n + 1] = c[n + 1] /\ \A i \in 1..n : a[i] = c[i]
    BY <1>1, <1>2, <2>1
  <2> QED BY <1>1, <2>1, <2>2 DEF Less
<1>4. CASE n = m
  <2>1. \A i \in 1..n : a[i] = c[i]
    BY <1>1, <1>2, <1>4
  <2>2. ASSUME n < Len(a) PROVE a[n + 1] < c[n + 1]
    <3>1. a[n + 1] \in Nat /\ b[n + 1] \in Nat /\ c[n + 1] \in Nat
      BY <1>1, <1>2, <1>4, <2>2
    <3>2. a[n + 1] < b[n + 1] /\ b[n + 1] < c[n + 1]
      BY <1>1, <1>2, <1>4, <2>2
    <3> QED BY <3>1, <3>2
  <2> QED BY <1>1, <1>2, <1>4, <2>1, <2>2 DEF Less
<1>5. CASE m < n
  <2>1. m + 1 \in 1..n /\ m \in 0..Len(a) /\ m < Len(b) /\ \A i \in 1..m : i \in 1..n
    BY <1>1, <1>2, <1>5
  <2>2. a[m + 1] < c[m + 1] /\ \A i \in 1..m : a[i] = c[i]
    BY <1>1, <1>2, <2>1
  <2> QED BY <1>2, <2>1, <2>2 DEF Less
<1> QED BY <1>3, <1>4, <1>5

LEMMA LessIrreflexive ==
  ASSUME NEW a \in Seq(Nat)
  PROVE  ~ Less(a, a)
<1> SUFFICES ASSUME NEW n \in 0..Len(a), n < Len(a), a[n + 1] < a[n + 1]
             PROVE  FALSE
  BY DEF Less
<1>1. a[n + 1] \in Nat
  OBVIOUS
<1> QED BY <1>1

(* What is not above b is below everything above b, and what is below b is *)
(* below everything not below b.                                           *)
LEMMA LessThrough ==
  ASSUME NEW a \in Seq(Nat), NEW b \in Seq(Nat), NEW c \in Seq(Nat)
  PROVE  /\ ~ Less(b, a) /\ Less(b, c) => Less(a, c)
         /\ Less(a, b) /\ ~ Less(c, b) => Less(a, c)
         /\ Less(a, b) => ~ Less(b, a)
<1>1. Less(a, b) \/ Less(b, a) \/ a = b
  BY LessTotal
<1>2. Less(c, b) \/ Less(b, c) \/ c = b
  BY LessTotal
<1>3. Less(a, b) /\ Less(b, c) => Less(a, c)
  BY LessTransitive
<1>4. Less(a, b) /\ Less(b, a) => Less(a, a)
  BY LessTransitive
<1> QED BY <1>1, <1>2, <1>3, <1>4, LessIrreflexive, Zenon

-----------------------------------------------------------------------------
(* Sequences.                                                              *)

LEMMA Joined ==
  ASSUME NEW S, NEW p \in Seq(S), NEW q \in Seq(S), NEW c, c = p \o q
  PROVE  /\ c \in Seq(S) /\ Len(c) = Len(p) + Len(q)
         /\ \A i \in 1..Len(p) : c[i] = p[i]
         /\ \A i \in 1..Len(q) : c[Len(p) + i] = q[i]
OBVIOUS

LEMMA Sliced ==
  ASSUME NEW S, NEW p \in Seq(S), NEW a \in Nat, NEW b \in Nat, a <= b, b <= Len(p),
         NEW c, c = SubSeq(p, a + 1, b)
  PROVE  c \in Seq(S) /\ Len(c) = b - a /\ \A i \in 1 .. b - a : c[i] = p[a + i]
<1>1. /\ c \in Seq(S) /\ Len(c) = IF a + 1 <= b THEN b - (a + 1) + 1 ELSE 0
      /\ \A i \in 1 .. b - (a + 1) + 1 : c[i] = p[(a + 1) + i - 1]
  <2>1. a + 1 \in Int /\ b \in Int /\ \A i \in a + 1 .. b : p[i] \in S
    OBVIOUS
  <2> QED BY <2>1, SubSeqProperties
<1>2. Len(c) = b - a
  BY <1>1
<1>3. ASSUME NEW i \in 1 .. b - a PROVE c[i] = p[a + i]
  <2>1. i \in 1 .. b - (a + 1) + 1 /\ (a + 1) + i - 1 = a + i
    OBVIOUS
  <2> QED BY <1>1, <2>1
<1> QED BY <1>1, <1>2, <1>3

(* What is kept of the key before and the rest give the key.               *)
LEMMA Rebuilt ==
  ASSUME NEW k \in Seq(Nat), NEW key \in Seq(Nat), NEW n \in Nat,
         n <= Len(k), n <= Len(key), \A i \in 1..n : k[i] = key[i]
  PROVE  /\ SubSeq(key, n + 1, Len(key)) \in Seq(Nat)
         /\ SubSeq(k, 1, n) \o SubSeq(key, n + 1, Len(key)) = key
<1>1. PICK p : p = SubSeq(k, 0 + 1, n)
  OBVIOUS
<1>2. PICK q : q = SubSeq(key, n + 1, Len(key))
  OBVIOUS
<1>3. p \in Seq(Nat) /\ Len(p) = n /\ \A i \in 1..n : p[i] = k[i]
  <2>1. p \in Seq(Nat) /\ Len(p) = n - 0 /\ \A i \in 1 .. n - 0 : p[i] = k[0 + i]
    BY <1>1, Sliced
  <2> QED BY <2>1
<1>4. /\ q \in Seq(Nat) /\ Len(q) = Len(key) - n
      /\ \A i \in 1 .. Len(key) - n : q[i] = key[n + i]
  <2>1. Len(key) \in Nat
    OBVIOUS
  <2> QED BY <1>2, <2>1, Sliced
<1>5. PICK c : c = p \o q
  OBVIOUS
<1>6. /\ c \in Seq(Nat) /\ Len(c) = Len(p) + Len(q)
      /\ \A i \in 1..Len(p) : c[i] = p[i]
      /\ \A i \in 1..Len(q) : c[Len(p) + i] = q[i]
  <2>1. p \in Seq(Nat) /\ q \in Seq(Nat)
    BY <1>3, <1>4
  <2> QED BY <2>1, <1>5, Joined
<1>7. Len(c) = Len(key)
  BY <1>3, <1>4, <1>6
<1>8. ASSUME NEW i \in 1..Len(c) PROVE c[i] = key[i]
  <2>1. CASE i \in 1..n
    BY <1>3, <1>6, <2>1
  <2>2. CASE i \notin 1..n
    <3>1. i - n \in 1 .. Len(key) - n /\ n + (i - n) = i
      BY <1>7, <2>2
    <3>2. c[n + (i - n)] = q[i - n] /\ q[i - n] = key[n + (i - n)]
      BY <1>3, <1>4, <1>6, <3>1
    <3> QED BY <3>1, <3>2
  <2> QED BY <2>1, <2>2
<1>9. c = key
  BY <1>6, <1>7, <1>8, SeqEqual
<1>10. 0 + 1 = 1
  OBVIOUS
<1> QED BY <1>1, <1>2, <1>4, <1>5, <1>9, <1>10

-----------------------------------------------------------------------------
(* Blocks hold what was added to them.                                     *)

ItemT == [key : Seq(Nat), value : Nat \cup HandleT]

KeyBefore(es, i) == IF i = 1 THEN <<>> ELSE es[i - 1].key
LastKey(es)      == KeyBefore(es, Len(es) + 1)

(* The block holds these items: each key can be had from the one before    *)
(* it, and at a restart point from none.                                   *)
Encodes(block, es) ==
  /\ block \in BlockT /\ es \in Seq(ItemT) /\ Len(block.entries) = Len(es)
  /\ \A i \in 1..Len(es) :
       /\ block.entries[i].value = es[i].value
       /\ Sharable(KeyBefore(es, i), block.entries[i])
       /\ NextKey(KeyBefore(es, i), block.entries[i]) = es[i].key
  /\ Len(block.restarts) > 0 /\ block.restarts[1] = 0
  /\ \A j \in 1..Len(block.restarts) :
       /\ j > 1 => block.restarts[j] < Len(es)
       /\ block.restarts[j] < Len(es) => block.entries[block.restarts[j] + 1].shared = 0

Built(b, es) == b \in BuilderT /\ Encodes(Contents(b), es) /\ b.last_key = LastKey(es)

LEMMA NothingKept ==
  ASSUME NEW k \in Seq(Nat), NEW d \in Seq(Nat)
  PROVE  SubSeq(k, 1, 0) \o d = d
<1>1. PICK p : p = SubSeq(k, 0 + 1, 0)
  OBVIOUS
<1>2. p \in Seq(Nat) /\ Len(p) = 0
  <2>1. p \in Seq(Nat) /\ Len(p) = 0 - 0
    BY <1>1, Sliced
  <2> QED BY <2>1
<1>3. PICK c : c = p \o d
  OBVIOUS
<1>4. c \in Seq(Nat) /\ Len(c) = Len(p) + Len(d) /\ \A i \in 1..Len(d) : c[Len(p) + i] = d[i]
  BY <1>2, <1>3, Joined
<1>5. Len(c) = Len(d) /\ \A i \in 1..Len(c) : c[i] = d[i]
  BY <1>2, <1>4
<1>6. c = d
  BY <1>4, <1>5, SeqEqual
<1>7. 0 + 1 = 1
  OBVIOUS
<1> QED BY <1>1, <1>3, <1>6, <1>7

LEMMA KeyBeforeType ==
  ASSUME NEW es \in Seq(ItemT), NEW i \in 1 .. Len(es) + 1
  PROVE  KeyBefore(es, i) \in Seq(Nat)
<1>1. CASE i = 1
  <2>1. <<>> \in Seq(Nat)
    OBVIOUS
  <2> QED BY <1>1, <2>1 DEF KeyBefore
<1>2. CASE i # 1
  <2>1. i - 1 \in 1..Len(es)
    BY <1>2
  <2>2. es[i - 1] \in ItemT
    BY <2>1
  <2> QED BY <1>2, <2>2 DEF KeyBefore, ItemT
<1> QED BY <1>1, <1>2

(* At a restart point the key stands in full.                              *)
LEMMA InFull ==
  ASSUME NEW block, NEW es, Encodes(block, es), NEW i \in 1..Len(es),
         block.entries[i].shared = 0
  PROVE  /\ block.entries[i].delta = es[i].key
         /\ \A k \in Seq(Nat) : /\ Sharable(k, block.entries[i])
                                /\ NextKey(k, block.entries[i]) = es[i].key
<1>1. PICK e \in EntryT : e = block.entries[i] /\ e.shared = 0
  BY DEF Encodes, BlockT
<1>2. e.delta \in Seq(Nat)
  BY <1>1 DEF EntryT
<1>3. \A k \in Seq(Nat) : Sharable(k, e) /\ NextKey(k, e) = e.delta
  <2> TAKE k \in Seq(Nat)
  <2>1. Sharable(k, e)
    BY <1>1 DEF Sharable
  <2>2. SubSeq(k, 1, 0) \o e.delta = e.delta
    BY <1>2, NothingKept
  <2> QED BY <1>1, <2>1, <2>2 DEF NextKey
<1>4. KeyBefore(es, i) \in Seq(Nat) /\ NextKey(KeyBefore(es, i), e) = es[i].key
  <2>1. es \in Seq(ItemT) /\ i \in 1 .. Len(es) + 1
    BY DEF Encodes
  <2> QED BY <1>1, <2>1, KeyBeforeType DEF Encodes
<1> QED BY <1>1, <1>3, <1>4

LEMMA EmptyBuilt == Built(EmptyBuilder, <<>>)
<1>1. /\ Contents(EmptyBuilder).entries = <<>> /\ Contents(EmptyBuilder).restarts = << 0 >>
      /\ EmptyBuilder.last_key = <<>>
  BY DEF EmptyBuilder, Contents
<1>2. Contents(EmptyBuilder) \in BlockT
  BY EmptyBuilderType DEF Contents, BlockT, BuilderT
<1>3. LastKey(<<>>) = <<>>
  BY DEF LastKey, KeyBefore
<1>4. Encodes(Contents(EmptyBuilder), <<>>)
  BY <1>1, <1>2 DEF Encodes
<1> QED BY <1>1, <1>3, <1>4, EmptyBuilderType DEF Built

LEMMA AddBuilt ==
  ASSUME NEW b, NEW es, Built(b, es), NEW x \in ItemT, NEW size \in Nat, NEW interval \in Nat,
         NEW a, a = BlockAdd(b, x.key, x.value, size, interval)
  PROVE  Built(a, Append(es, x))
<1>1. /\ b \in BuilderT /\ es \in Seq(ItemT) /\ Len(es) \in Nat
      /\ x.key \in Seq(Nat) /\ x.value \in Nat \cup HandleT /\ Len(x.key) \in Nat
  BY DEF Built, Encodes, ItemT
<1>2. b.entries \in Seq(EntryT) /\ b.restarts \in Seq(Nat) /\ b.last_key \in Seq(Nat)
  BY <1>1 DEF BuilderT
<1>3. PICK l \in Nat : l = Len(es)
  BY <1>1
<1>4. PICK bs \in Seq(EntryT) : bs = b.entries
  BY <1>2
<1>5. PICK rs \in Seq(Nat) : rs = b.restarts
  BY <1>2
<1>6. PICK k \in Seq(Nat) : k = b.last_key
  BY <1>2
<1>7. PICK key \in Seq(Nat) : key = x.key
  BY <1>1
<1>8. /\ Len(bs) = l /\ Len(rs) > 0 /\ rs[1] = 0 /\ k = KeyBefore(es, l + 1)
  BY <1>3, <1>4, <1>5, <1>6 DEF Built, Encodes, Contents, LastKey
<1>9. PICK n, ts :
        /\ \/ n = 0 /\ ts = Append(rs, l)
           \/ n = Shared(k, key) /\ ts = rs
        /\ a.entries = Append(bs, [shared |-> n, delta |-> SubSeq(key, n + 1, Len(key)),
                                   value |-> x.value])
        /\ a.restarts = ts /\ a.last_key = key
  <2>1. CASE b.counter >= interval
    BY <1>3, <1>8, <1>4, <1>5, <1>6, <1>7, <2>1 DEF BlockAdd
  <2>2. CASE ~ b.counter >= interval
    BY <1>3, <1>8, <1>4, <1>5, <1>6, <1>7, <2>2 DEF BlockAdd
  <2> QED BY <2>1, <2>2
<1>10. /\ n \in Nat /\ n <= Len(k) /\ n <= Len(key) /\ \A i \in 1..n : k[i] = key[i]
       /\ ts # rs => n = 0
  <2>1. PICK s \in Nat : s = Shared(k, key) /\ s <= Len(k) /\ s <= Len(key)
    BY SharedBounds
  <2>2. \A i \in 1..s : k[i] = key[i]
    BY <2>1, SharedAgrees
  <2>3. Len(k) \in Nat /\ Len(key) \in Nat
    OBVIOUS
  <2>4. (n = 0 /\ ts = Append(rs, l)) \/ (n = s /\ ts = rs)
    BY <1>9, <2>1
  <2>5. CASE n = 0
    BY <2>3, <2>5
  <2>6. CASE n = s /\ ts = rs
    BY <2>1, <2>2, <2>6
  <2> QED BY <2>4, <2>5, <2>6
<1>11. PICK e : e = [shared |-> n, delta |-> SubSeq(key, n + 1, Len(key)), value |-> x.value]
  OBVIOUS
<1>12. /\ SubSeq(key, n + 1, Len(key)) \in Seq(Nat)
       /\ SubSeq(k, 1, n) \o SubSeq(key, n + 1, Len(key)) = key
  <2>1. n \in Nat /\ n <= Len(k) /\ n <= Len(key) /\ \A i \in 1..n : k[i] = key[i]
    BY <1>10
  <2> QED BY <2>1, Rebuilt
<1>13. e \in EntryT /\ e.value = x.value /\ e.shared = n /\ Sharable(k, e) /\ NextKey(k, e) = key
  BY <1>1, <1>10, <1>11, <1>12, <1>7 DEF EntryT, Sharable, NextKey
<1>14. PICK news : news = Append(bs, e)
  OBVIOUS
<1>15. /\ news \in Seq(EntryT) /\ Len(news) = l + 1 /\ news[l + 1] = e
       /\ \A i \in 1..l : news[i] = bs[i]
  BY <1>8, <1>13, <1>14, AppendProperties
<1>16. PICK fs : fs = Append(es, x)
  OBVIOUS
<1>17. /\ fs \in Seq(ItemT) /\ Len(fs) = l + 1 /\ fs[l + 1] = x
       /\ \A i \in 1..l : fs[i] = es[i]
  BY <1>1, <1>3, <1>16, AppendProperties
<1>18. a.entries = news /\ a.restarts = ts /\ a.last_key = key
  BY <1>9, <1>11, <1>14
<1>19. a \in BuilderT
  BY <1>1, BlockAddAppends
<1>20. ASSUME NEW i \in 1 .. l + 1
       PROVE  KeyBefore(fs, i) = KeyBefore(es, i)
  <2>1. i # 1 => i - 1 \in 1..l
    OBVIOUS
  <2> QED BY <1>17, <2>1 DEF KeyBefore
<1>21. ASSUME NEW i \in 1 .. l + 1
       PROVE  /\ news[i].value = fs[i].value /\ Sharable(KeyBefore(fs, i), news[i])
              /\ NextKey(KeyBefore(fs, i), news[i]) = fs[i].key
  <2>1. CASE i = l + 1
    BY <1>3, <1>8, <1>13, <1>15, <1>17, <1>20, <1>7, <2>1
  <2>2. CASE i \in 1..l
    <3>1. /\ bs[i].value = es[i].value /\ Sharable(KeyBefore(es, i), bs[i])
          /\ NextKey(KeyBefore(es, i), bs[i]) = es[i].key
      BY <1>3, <1>4, <2>2 DEF Built, Encodes, Contents
    <3> QED BY <1>15, <1>17, <1>20, <2>2, <3>1
  <2> QED BY <2>1, <2>2
<1>22. ASSUME NEW j \in 1..Len(rs)
       PROVE  rs[j] \in Nat /\ rs[j] < l + 1 /\ news[rs[j] + 1].shared = 0
  <2>1. rs[j] \in Nat /\ (j > 1 => rs[j] < l) /\ (rs[j] < l => bs[rs[j] + 1].shared = 0)
    <3>1. rs[j] \in Nat
      OBVIOUS
    <3>2. PICK c : c = Contents(b)
      OBVIOUS
    <3>3. Encodes(c, es)
      BY <3>2 DEF Built
    <3>4. c.entries = bs /\ c.restarts = rs
      BY <1>4, <1>5, <3>2 DEF Contents
    <3> QED BY <1>3, <3>1, <3>3, <3>4 DEF Encodes
  <2>2. CASE rs[j] < l
    <3>1. rs[j] + 1 \in 1..l /\ rs[j] < l + 1
      BY <2>1, <2>2
    <3> QED BY <1>15, <2>1, <2>2, <3>1
  <2>3. CASE ~ rs[j] < l
    <3>1. j = 1 /\ rs[j] = 0 /\ l = 0
      BY <1>8, <2>1, <2>3
    <3>2. k = <<>>
      BY <1>8, <3>1 DEF KeyBefore
    <3>3. n = 0
      BY <1>10, <3>2
    <3> QED BY <1>13, <1>15, <3>1, <3>3
  <2> QED BY <2>2, <2>3
<1>23. /\ ts \in Seq(Nat) /\ Len(ts) > 0 /\ ts[1] = 0
       /\ \A j \in 1..Len(ts) : ts[j] < l + 1 /\ news[ts[j] + 1].shared = 0
  <2>1. CASE ts # rs
    <3>1. ts = Append(rs, l)
      BY <1>9, <2>1
    <3>2. /\ ts \in Seq(Nat) /\ Len(ts) = Len(rs) + 1 /\ ts[Len(rs) + 1] = l
          /\ \A j \in 1..Len(rs) : ts[j] = rs[j]
      BY <1>8, <3>1, AppendProperties
    <3>3. Len(rs) \in Nat /\ 1 \in 1..Len(rs) /\ Len(ts) > 0 /\ ts[1] = 0
      <4>1. Len(rs) \in Nat /\ 1 \in 1..Len(rs)
        BY <1>8
      <4> QED BY <1>8, <3>2, <4>1
    <3>4. ASSUME NEW j \in 1..Len(ts) PROVE ts[j] < l + 1 /\ news[ts[j] + 1].shared = 0
      <4>1. CASE j = Len(rs) + 1
        <5>1. ts[j] = l /\ l < l + 1
          BY <3>2, <4>1
        <5> QED BY <1>10, <1>13, <1>15, <2>1, <5>1
      <4>2. CASE j \in 1..Len(rs)
        BY <1>22, <3>2, <4>2
      <4> QED BY <3>2, <3>3, <4>1, <4>2
    <3> QED BY <3>2, <3>3, <3>4
  <2>2. CASE ts = rs
    BY <1>8, <1>22, <2>2
  <2> QED BY <2>1, <2>2
<1>24. PICK c : c = Contents(a)
  OBVIOUS
<1>25. c \in BlockT /\ c.entries = news /\ c.restarts = ts
  BY <1>15, <1>18, <1>23, <1>24 DEF Contents, BlockT
<1>26. Encodes(c, fs)
  BY <1>15, <1>17, <1>21, <1>23, <1>25 DEF Encodes
<1>27. a.last_key = LastKey(fs)
  <2>1. Len(fs) + 1 # 1 /\ Len(fs) + 1 - 1 = l + 1
    BY <1>17
  <2> QED BY <1>3, <1>17, <1>18, <1>7, <2>1 DEF LastKey, KeyBefore
<1> QED BY <1>16, <1>19, <1>24, <1>26, <1>27 DEF Built

-----------------------------------------------------------------------------
(* The iterator over a block shows what the block holds.                   *)

Sorted(es) == \A i, j \in 1..Len(es) : i < j => Less(es[i].key, es[j].key)

Shows(t, es) ==
  /\ t \in IterT /\ Encodes(t.block, es)
  /\ t.at \in 1 .. Len(es) + 1
  /\ t.at <= Len(es) => t.key = es[t.at].key

LEMMA ItemType ==
  ASSUME NEW es \in Seq(ItemT), NEW i \in 1..Len(es)
  PROVE  es[i] \in ItemT /\ es[i].key \in Seq(Nat) /\ es[i].value \in Nat \cup HandleT
<1>1. es[i] \in ItemT
  OBVIOUS
<1> QED BY <1>1 DEF ItemT

LEMMA ShowsValue ==
  ASSUME NEW t, NEW es, Shows(t, es)
  PROVE  /\ es \in Seq(ItemT) /\ Len(es) \in Nat /\ End(t) = Len(es) + 1
         /\ IterValid(t) <=> t.at <= Len(es)
         /\ IterValid(t) => IterValue(t) = es[t.at].value /\ t.key = es[t.at].key
<1>1. es \in Seq(ItemT) /\ Len(es) \in Nat /\ Len(t.block.entries) = Len(es) /\ t.at \in Nat
  BY DEF Shows, Encodes
<1>2. End(t) = Len(es) + 1
  BY <1>1 DEF End
<1>3. IterValid(t) <=> t.at <= Len(es)
  BY <1>1, <1>2 DEF IterValid
<1>4. ASSUME IterValid(t) PROVE IterValue(t) = es[t.at].value /\ t.key = es[t.at].key
  <2>1. t.at \in 1..Len(es)
    BY <1>1, <1>3, <1>4 DEF Shows
  <2> QED BY <1>1, <2>1 DEF IterValue, Shows, Encodes
<1> QED BY <1>1, <1>2, <1>3, <1>4

LEMMA NewShows ==
  ASSUME NEW block, NEW es, Encodes(block, es), NEW t, t = NewBlockIter(block)
  PROVE  Shows(t, es) /\ t.at = Len(es) + 1 /\ t.ok = TRUE
<1>1. es \in Seq(ItemT) /\ Len(es) \in Nat /\ Len(block.entries) = Len(es) /\ block \in BlockT
  BY DEF Encodes
<1>2. <<>> \in Seq(Nat)
  OBVIOUS
<1>3. t.at = Len(es) + 1 /\ t.block = block /\ t.ok = TRUE /\ t \in IterT
  BY <1>1, <1>2 DEF NewBlockIter, IterT
<1> QED BY <1>1, <1>3 DEF Shows

LEMMA ErrorShows == Shows(ErrorIter, <<>>) /\ ErrorIter.ok = FALSE
<1>1. Encodes(Contents(EmptyBuilder), <<>>)
  BY EmptyBuilt DEF Built
<1>2. PICK t : t = NewBlockIter(Contents(EmptyBuilder))
  OBVIOUS
<1>3. Shows(t, <<>>)
  BY <1>1, <1>2, NewShows
<1>4. PICK e : e = ErrorIter
  OBVIOUS
<1>5. e = [t EXCEPT !.ok = FALSE]
  BY <1>2, <1>4 DEF ErrorIter
<1>6. e \in IterT /\ e.block = t.block /\ e.at = t.at /\ e.key = t.key /\ e.ok = FALSE
  BY <1>3, <1>5 DEF Shows, IterT
<1> QED BY <1>3, <1>4, <1>6 DEF Shows

(* ParseNextKey of the entry after the one that left its key, or of one    *)
(* that is whole.                                                          *)
LEMMA ParseShows ==
  ASSUME NEW t \in IterT, NEW es, Encodes(t.block, es), NEW i \in 1 .. Len(es) + 1,
         i <= Len(es) => t.key = KeyBefore(es, i),
         NEW n, n = ParseEntry(t, i)
  PROVE  Shows(n, es) /\ n.at = i /\ n.ok = t.ok /\ n.block = t.block
<1>1. es \in Seq(ItemT) /\ Len(es) \in Nat /\ End(t) = Len(es) + 1
  BY DEF Encodes, End
<1>2. CASE i >= End(t)
  <2>1. n = [t EXCEPT !.at = End(t)]
    BY <1>2 DEF ParseEntry
  <2>2. i = End(t) /\ End(t) \in Nat
    BY <1>1, <1>2
  <2>3. n \in IterT /\ n.at = i /\ n.ok = t.ok /\ n.block = t.block
    BY <2>1, <2>2 DEF IterT
  <2> QED BY <1>1, <2>2, <2>3 DEF Shows
<1>3. CASE ~ i >= End(t)
  <2>1. i \in 1..Len(es) /\ i \in Nat
    BY <1>1, <1>3
  <2>2. PICK e : e = t.block.entries[i]
    OBVIOUS
  <2>3. Sharable(t.key, e) /\ NextKey(t.key, e) = es[i].key
    BY <2>1, <2>2 DEF Encodes
  <2>4. n = [t EXCEPT !.at = i, !.key = es[i].key]
    BY <1>3, <2>2, <2>3 DEF ParseEntry
  <2>5. es[i].key \in Seq(Nat)
    BY <1>1, <2>1, ItemType
  <2>6. n \in IterT /\ n.at = i /\ n.ok = t.ok /\ n.block = t.block /\ n.key = es[i].key
    BY <2>1, <2>4, <2>5 DEF IterT
  <2> QED BY <1>1, <2>6 DEF Shows
<1> QED BY <1>2, <1>3

LEMMA NextShows ==
  ASSUME NEW t, NEW es, Shows(t, es), t.at <= Len(es), NEW n, n = BlockNext(t)
  PROVE  Shows(n, es) /\ n.at = t.at + 1 /\ n.ok = t.ok /\ n.block = t.block
<1>1. t \in IterT /\ Encodes(t.block, es) /\ Len(es) \in Nat /\ t.at \in 1..Len(es)
  BY ShowsValue DEF Shows
<1>2. t.at + 1 \in 1 .. Len(es) + 1 /\ t.at + 1 # 1 /\ (t.at + 1) - 1 = t.at
  BY <1>1
<1>3. t.key = KeyBefore(es, t.at + 1)
  BY <1>2 DEF Shows, KeyBefore
<1> QED BY <1>1, <1>2, <1>3, ParseShows DEF BlockNext

LEMMA FirstShows ==
  ASSUME NEW t, NEW es, Shows(t, es), NEW n, n = BlockSeekToFirst(t)
  PROVE  Shows(n, es) /\ n.at = 1 /\ n.ok = t.ok /\ n.block = t.block
<1>1. t \in IterT /\ Encodes(t.block, es) /\ Len(es) \in Nat
  BY ShowsValue DEF Shows
<1>2. PICK u : u = [t EXCEPT !.key = <<>>]
  OBVIOUS
<1>3. <<>> \in Seq(Nat)
  OBVIOUS
<1>4. u \in IterT /\ u.block = t.block /\ u.key = <<>> /\ u.ok = t.ok
  BY <1>1, <1>2, <1>3 DEF IterT
<1>5. t.block.restarts[1] = 0
  BY <1>1 DEF Encodes
<1>6. n = ParseEntry(u, 1)
  BY <1>2, <1>5 DEF BlockSeekToFirst
<1>7. 1 \in 1 .. Len(es) + 1 /\ u.key = KeyBefore(es, 1)
  BY <1>1, <1>4 DEF KeyBefore
<1> QED BY <1>1, <1>4, <1>6, <1>7, ParseShows

-----------------------------------------------------------------------------
(* The binary search over the restart points.                              *)

Searched(f, block, target, k) ==
  /\ f = [i \in 0..k |-> f[i]]
  /\ f[0] = [left |-> 0, right |-> Len(block.restarts) - 1]
  /\ \A i \in 1..k : f[i] = Narrow(block, target, f[i - 1])

LEMMA SearchExists ==
  ASSUME NEW block, NEW target
  PROVE  \A k \in Nat : \E f : Searched(f, block, target, k)
<1> DEFINE T == {k \in Nat : ~ \E f : Searched(f, block, target, k)}
<1> SUFFICES ASSUME T # {} PROVE FALSE
  OBVIOUS
<1>1. PICK k \in T : \A j \in T : k <= j
  BY LeastNatural
<1>2. CASE k = 0
  <2>1. Searched([i \in 0 .. 0 |-> [left |-> 0, right |-> Len(block.restarts) - 1]],
                 block, target, 0)
    BY DEF Searched
  <2> QED BY <1>1, <1>2, <2>1
<1>3. CASE k # 0
  <2>1. k - 1 \in Nat /\ k - 1 \notin T
    BY <1>1, <1>3
  <2>2. PICK g : Searched(g, block, target, k - 1)
    BY <2>1
  <2> DEFINE h == [i \in 0 .. k |-> IF i = k THEN Narrow(block, target, g[k - 1]) ELSE g[i]]
  <2>3. \A i \in 0 .. k - 1 : h[i] = g[i]
    BY <2>1
  <2>4. h[k] = Narrow(block, target, g[k - 1]) /\ k - 1 \in 0 .. k - 1 /\ 0 \in 0 .. k - 1
    BY <2>1, <1>3
  <2>5. h = [i \in 0 .. k |-> h[i]]
    OBVIOUS
  <2> HIDE DEF h
  <2>6. h[0] = [left |-> 0, right |-> Len(block.restarts) - 1]
    BY <2>2, <2>3, <2>4 DEF Searched
  <2>7. ASSUME NEW i \in 1 .. k PROVE h[i] = Narrow(block, target, h[i - 1])
    <3>1. i - 1 \in 0 .. k - 1
      BY <1>3
    <3>2. CASE i = k
      BY <2>3, <2>4, <3>1, <3>2
    <3>3. CASE i # k
      <4>1. i \in 1 .. k - 1 /\ i \in 0 .. k - 1
        BY <3>3, <2>1
      <4>2. g[i] = Narrow(block, target, g[i - 1])
        BY <2>2, <4>1 DEF Searched
      <4> QED BY <2>3, <3>1, <4>1, <4>2
    <3> QED BY <3>2, <3>3
  <2>8. Searched(h, block, target, k)
    BY <2>5, <2>6, <2>7 DEF Searched
  <2> QED BY <1>1, <2>8
<1> QED BY <1>2, <1>3

LEMMA RestartIsSearched ==
  ASSUME NEW block, NEW target, Len(block.restarts) \in Nat
  PROVE  \E f : /\ Searched(f, block, target, Len(block.restarts))
                /\ RestartBefore(block, target) = f[Len(block.restarts)].left
<1>1. PICK n \in Nat : n = Len(block.restarts)
  OBVIOUS
<1> DEFINE G == CHOOSE g : g = [k \in 0 .. n |->
                  IF k = 0 THEN [left |-> 0, right |-> n - 1]
                  ELSE Narrow(block, target, g[k - 1])]
<1>2. RestartBefore(block, target) = G[n].left
  BY <1>1 DEF RestartBefore
<1>3. PICK h : Searched(h, block, target, n)
  BY SearchExists
<1>4. h = [k \in 0 .. n |-> IF k = 0 THEN [left |-> 0, right |-> n - 1]
                            ELSE Narrow(block, target, h[k - 1])]
  <2>1. h = [k \in 0 .. n |-> h[k]]
    BY <1>3 DEF Searched
  <2>2. ASSUME NEW k \in 0 .. n
        PROVE  h[k] = IF k = 0 THEN [left |-> 0, right |-> n - 1]
                      ELSE Narrow(block, target, h[k - 1])
    <3>1. k = 0 \/ k \in 1 .. n
      OBVIOUS
    <3> QED BY <1>1, <1>3, <3>1 DEF Searched
  <2> QED BY <2>1, <2>2
<1>5. G = [k \in 0 .. n |-> IF k = 0 THEN [left |-> 0, right |-> n - 1]
                            ELSE Narrow(block, target, G[k - 1])]
  BY <1>4
<1> HIDE DEF G
<1>6. Searched(G, block, target, n)
  <2>1. G = [k \in 0 .. n |-> G[k]] /\ G[0] = [left |-> 0, right |-> n - 1]
    BY <1>5
  <2>2. ASSUME NEW i \in 1 .. n PROVE G[i] = Narrow(block, target, G[i - 1])
    <3>1. i \in 0 .. n /\ i # 0
      OBVIOUS
    <3> QED BY <1>5, <3>1
  <2> QED BY <1>1, <2>1, <2>2 DEF Searched
<1> QED BY <1>1, <1>2, <1>6

(* A restart point to begin at: the first one or one before the target.    *)
Before(block, es, target, l) ==
  \/ l = 0
  \/ block.restarts[l + 1] < Len(es) /\ Less(es[block.restarts[l + 1] + 1].key, target)

Narrowed(block, es, target, w) ==
  /\ w \in [left : Nat, right : Nat]
  /\ w.left <= w.right /\ w.right < Len(block.restarts)
  /\ Before(block, es, target, w.left)

LEMMA NarrowKeeps ==
  ASSUME NEW block, NEW es, Encodes(block, es), NEW target,
         NEW w, Narrowed(block, es, target, w)
  PROVE  Narrowed(block, es, target, Narrow(block, target, w))
<1>1. /\ w.left \in Nat /\ w.right \in Nat /\ w.left <= w.right
      /\ w.right < Len(block.restarts) /\ Len(block.restarts) \in Nat
      /\ Len(es) \in Nat /\ Len(block.entries) = Len(es)
  BY DEF Narrowed, Encodes, BlockT
<1>2. CASE w.left >= w.right
  BY <1>2 DEF Narrow
<1>3. CASE ~ w.left >= w.right
  <2>1. PICK mid : mid = (w.left + w.right + 1) \div 2
    OBVIOUS
  <2>2. mid \in Nat /\ w.left < mid /\ mid <= w.right
    BY <1>1, <1>3, <2>1
  <2>3. mid + 1 \in 1 .. Len(block.restarts) /\ mid + 1 > 1
    BY <1>1, <2>2
  <2>4. PICK p \in Nat : p = block.restarts[mid + 1]
    BY <2>3 DEF Encodes, BlockT
  <2>5. p < Len(es) /\ block.entries[p + 1].shared = 0
    BY <2>3, <2>4 DEF Encodes
  <2>6. p + 1 \in 1..Len(es) /\ ~ p + 1 > Len(block.entries)
    BY <1>1, <2>5
  <2>7. block.entries[p + 1].delta = es[p + 1].key
    BY <2>5, <2>6, InFull
  <2>8. CASE Less(es[p + 1].key, target)
    <3>1. Narrow(block, target, w) = [w EXCEPT !.left = mid]
      BY <1>3, <2>1, <2>4, <2>5, <2>6, <2>7, <2>8 DEF Narrow
    <3>2. PICK v : v = [w EXCEPT !.left = mid]
      OBVIOUS
    <3>3. v \in [left : Nat, right : Nat] /\ v.left = mid /\ v.right = w.right
      BY <2>2, <3>2 DEF Narrowed
    <3>4. Before(block, es, target, mid)
      BY <2>4, <2>5, <2>8 DEF Before
    <3> QED BY <1>1, <2>2, <3>1, <3>2, <3>3, <3>4 DEF Narrowed
  <2>9. CASE ~ Less(es[p + 1].key, target)
    <3>1. Narrow(block, target, w) = [w EXCEPT !.right = mid - 1]
      BY <1>3, <2>1, <2>4, <2>5, <2>6, <2>7, <2>9 DEF Narrow
    <3>2. PICK v : v = [w EXCEPT !.right = mid - 1]
      OBVIOUS
    <3>3. mid - 1 \in Nat /\ w.left <= mid - 1 /\ mid - 1 < Len(block.restarts)
      BY <1>1, <2>2
    <3>4. v \in [left : Nat, right : Nat] /\ v.left = w.left /\ v.right = mid - 1
      BY <3>2, <3>3 DEF Narrowed
    <3> QED BY <3>1, <3>2, <3>3, <3>4 DEF Narrowed
  <2> QED BY <2>8, <2>9
<1> QED BY <1>2, <1>3

LEMMA RestartIsBefore ==
  ASSUME NEW block, NEW es, Encodes(block, es), NEW target
  PROVE  /\ RestartBefore(block, target) \in Nat
         /\ RestartBefore(block, target) < Len(block.restarts)
         /\ Before(block, es, target, RestartBefore(block, target))
<1>1. PICK n \in Nat : n = Len(block.restarts) /\ n > 0
  BY DEF Encodes, BlockT
<1>2. PICK f : Searched(f, block, target, n) /\ RestartBefore(block, target) = f[n].left
  BY <1>1, RestartIsSearched
<1> DEFINE T == {k \in 0..n : ~ Narrowed(block, es, target, f[k])}
<1>3. T = {}
  <2> SUFFICES ASSUME T # {} PROVE FALSE
    OBVIOUS
  <2>1. T \subseteq Nat
    OBVIOUS
  <2>2. PICK k \in T : \A j \in T : k <= j
    BY <2>1, LeastNatural
  <2>3. CASE k = 0
    <3>1. n - 1 \in Nat /\ 0 <= n - 1 /\ n - 1 < n
      BY <1>1
    <3>2. PICK w : w = f[0]
      OBVIOUS
    <3>3. w = [left |-> 0, right |-> n - 1]
      BY <1>1, <1>2, <3>2 DEF Searched
    <3>4. w \in [left : Nat, right : Nat] /\ w.left = 0 /\ w.right = n - 1
      BY <3>1, <3>3
    <3>5. Narrowed(block, es, target, w)
      BY <1>1, <3>1, <3>4 DEF Narrowed, Before
    <3> QED BY <2>2, <2>3, <3>2, <3>5
  <2>4. CASE k # 0
    <3>1. k - 1 \in 0..n /\ k \in 1..n /\ ~ k <= k - 1
      BY <2>2, <2>4
    <3>2. Narrowed(block, es, target, f[k - 1])
      BY <2>2, <3>1
    <3>3. f[k] = Narrow(block, target, f[k - 1])
      BY <1>2, <3>1 DEF Searched
    <3>4. Narrowed(block, es, target, f[k])
      BY <3>2, <3>3, NarrowKeeps
    <3> QED BY <2>2, <3>4
  <2> QED BY <2>3, <2>4
<1>4. n \in 0..n
  OBVIOUS
<1>5. Narrowed(block, es, target, f[n])
  BY <1>3, <1>4
<1>6. /\ f[n].left \in Nat /\ f[n].left <= f[n].right /\ f[n].right \in Nat
      /\ f[n].right < n /\ Before(block, es, target, f[n].left)
  BY <1>1, <1>5 DEF Narrowed
<1>7. PICK l \in Nat, r \in Nat : l = f[n].left /\ r = f[n].right
  BY <1>6
<1> QED BY <1>1, <1>2, <1>6, <1>7

-----------------------------------------------------------------------------
(* The keys that are reconstructed from a restart point on.                *)

LEMMA KeysAreThose ==
  ASSUME NEW block, NEW es, Encodes(block, es), NEW first \in 1 .. Len(es) + 1,
         first <= Len(es) => block.entries[first].shared = 0
  PROVE  /\ KeysFrom(block, first)[first - 1] = <<>>
         /\ \A i \in first..Len(es) :
              /\ KeysFrom(block, first)[i] = es[i].key
              /\ Sharable(KeysFrom(block, first)[i - 1], block.entries[i])
<1>1. es \in Seq(ItemT) /\ Len(es) \in Nat /\ Len(block.entries) = Len(es)
  BY DEF Encodes
<1>2. PICK n \in Nat : n = Len(es)
  BY <1>1
<1> DEFINE K == CHOOSE g : g = [i \in first - 1 .. n |->
                  IF i < first THEN <<>> ELSE NextKey(g[i - 1], block.entries[i])]
           h == [i \in first - 1 .. n |-> IF i < first THEN <<>> ELSE es[i].key]
<1>3. KeysFrom(block, first) = K
  BY <1>1, <1>2 DEF KeysFrom
<1>4. ASSUME NEW i \in first..n, NEW k, k = IF i = first THEN <<>> ELSE es[i - 1].key
      PROVE  Sharable(k, block.entries[i]) /\ NextKey(k, block.entries[i]) = es[i].key
  <2>1. i \in 1..Len(es)
    BY <1>2
  <2>2. CASE i = first
    <3>1. block.entries[i].shared = 0 /\ <<>> \in Seq(Nat)
      BY <1>2, <2>1, <2>2
    <3>2. \A q \in Seq(Nat) : /\ Sharable(q, block.entries[i])
                              /\ NextKey(q, block.entries[i]) = es[i].key
      BY <2>1, <3>1, InFull
    <3>3. k = <<>>
      BY <1>4, <2>2
    <3> QED BY <3>1, <3>2, <3>3
  <2>3. CASE i # first
    <3>1. i # 1 /\ k = KeyBefore(es, i)
      BY <1>4, <2>3 DEF KeyBefore
    <3> QED BY <2>1, <3>1 DEF Encodes
  <2> QED BY <2>2, <2>3
<1>5. h = [i \in first - 1 .. n |-> IF i < first THEN <<>> ELSE NextKey(h[i - 1], block.entries[i])]
  <2>1. ASSUME NEW i \in first - 1 .. n
        PROVE  h[i] = IF i < first THEN <<>> ELSE NextKey(h[i - 1], block.entries[i])
    <3>1. CASE i < first
      BY <3>1
    <3>2. CASE ~ i < first
      <4>1. i \in first..n /\ i - 1 \in first - 1 .. n /\ (i - 1 < first <=> i = first)
        BY <3>2
      <4>2. h[i - 1] = IF i = first THEN <<>> ELSE es[i - 1].key
        BY <4>1
      <4>3. h[i] = es[i].key
        BY <3>2
      <4> HIDE DEF h
      <4> QED BY <1>4, <3>2, <4>1, <4>2, <4>3
    <3> QED BY <3>1, <3>2
  <2>2. h = [i \in first - 1 .. n |-> h[i]]
    OBVIOUS
  <2> HIDE DEF h
  <2> QED BY <2>1, <2>2
<1> HIDE DEF h
<1>6. K = [i \in first - 1 .. n |-> IF i < first THEN <<>> ELSE NextKey(K[i - 1], block.entries[i])]
  BY <1>5
<1> HIDE DEF K
<1>7. K[first - 1] = <<>>
  <2>1. first - 1 \in first - 1 .. n /\ first - 1 < first
    BY <1>2
  <2> QED BY <1>6, <2>1
<1>8. \A i \in first..n : K[i] = NextKey(K[i - 1], block.entries[i])
  <2> TAKE i \in first..n
  <2>1. i \in first - 1 .. n /\ ~ i < first
    BY <1>2
  <2> QED BY <1>6, <2>1
<1> DEFINE T == {i \in first..n : K[i] # es[i].key}
<1>9. T = {}
  <2> SUFFICES ASSUME T # {} PROVE FALSE
    OBVIOUS
  <2>1. T \subseteq Nat
    BY <1>2
  <2>2. PICK i \in T : \A j \in T : i <= j
    BY <2>1, LeastNatural
  <2>3. i \in first..n /\ i - 1 < i /\ ~ i <= i - 1
    BY <2>2
  <2>4. K[i - 1] = IF i = first THEN <<>> ELSE es[i - 1].key
    <3>1. CASE i = first
      BY <1>7, <3>1
    <3>2. CASE i # first
      <4>1. i - 1 \in first..n
        BY <2>3, <3>2
      <4> QED BY <2>2, <2>3, <3>2, <4>1
    <3> QED BY <3>1, <3>2
  <2>5. K[i] = es[i].key
    BY <1>4, <1>8, <2>3, <2>4
  <2> QED BY <2>2, <2>5
<1>10. ASSUME NEW i \in first..n PROVE Sharable(K[i - 1], block.entries[i])
  <2>1. K[i - 1] = IF i = first THEN <<>> ELSE es[i - 1].key
    <3>1. CASE i = first
      BY <1>7, <3>1
    <3>2. CASE i # first
      <4>1. i - 1 \in first..n
        BY <3>2
      <4> QED BY <1>9, <3>2, <4>1
    <3> QED BY <3>1, <3>2
  <2> QED BY <1>4, <2>1
<1> QED BY <1>2, <1>3, <1>7, <1>9, <1>10

(* Block::Iter::Seek (block.cc:135) stops at the first entry that is not    *)
(* before the target.                                                      *)
LEMMA SeekShows ==
  ASSUME NEW t, NEW es, Shows(t, es), Sorted(es), NEW target \in Seq(Nat),
         NEW s, s = BlockSeek(t, target)
  PROVE  /\ Shows(s, es) /\ s.ok = t.ok /\ s.block = t.block
         /\ \A i \in 1..Len(es) : Less(es[i].key, target) <=> i < s.at
<1>1. /\ t \in IterT /\ Encodes(t.block, es) /\ es \in Seq(ItemT) /\ Len(es) \in Nat
      /\ End(t) = Len(es) + 1
  BY ShowsValue DEF Shows
<1>2. PICK block : block = t.block
  OBVIOUS
<1>3. PICK r \in Nat : /\ r = RestartBefore(block, target) /\ r < Len(block.restarts)
                       /\ Before(block, es, target, r)
  BY <1>1, <1>2, RestartIsBefore
<1>4. r + 1 \in 1 .. Len(block.restarts) /\ Len(block.restarts) \in Nat
  BY <1>1, <1>2, <1>3 DEF Encodes, BlockT
<1>5. PICK p \in Nat : p = block.restarts[r + 1]
  BY <1>1, <1>2, <1>4 DEF Encodes, BlockT
<1>6. /\ p <= Len(es) /\ (p < Len(es) => block.entries[p + 1].shared = 0)
      /\ p = 0 \/ (p < Len(es) /\ Less(es[p + 1].key, target))
  <2>1. p < Len(es) => block.entries[p + 1].shared = 0
    BY <1>1, <1>2, <1>4, <1>5 DEF Encodes
  <2>2. r = 0 => p = 0
    BY <1>1, <1>2, <1>5 DEF Encodes
  <2>3. r # 0 => p < Len(es) /\ Less(es[p + 1].key, target)
    BY <1>3, <1>5 DEF Before
  <2> QED BY <1>1, <2>1, <2>2, <2>3
<1>7. PICK first \in 1 .. Len(es) + 1 : first = p + 1
  BY <1>1, <1>6
<1>8. first <= Len(es) => block.entries[first].shared = 0
  BY <1>1, <1>6, <1>7
<1>9. PICK key : key = KeysFrom(block, first)
  OBVIOUS
<1>10. /\ key[first - 1] = <<>>
       /\ \A i \in first..Len(es) : key[i] = es[i].key /\ Sharable(key[i - 1], block.entries[i])
  BY <1>1, <1>2, <1>8, <1>9, KeysAreThose
<1>11. PICK stops : stops = {i \in first..Len(es) : ~ Less(es[i].key, target)}
  OBVIOUS
<1>12. stops = {i \in first .. End(t) - 1 :
                 Sharable(key[i - 1], block.entries[i]) => ~ Less(key[i], target)}
  <2>1. End(t) - 1 = Len(es)
    BY <1>1
  <2> QED BY <1>10, <1>11, <2>1
<1>13. s = IF stops = {}
           THEN [t EXCEPT !.at = End(t), !.key = key[End(t) - 1]]
           ELSE IF Sharable(key[Least(stops) - 1], block.entries[Least(stops)])
                THEN [t EXCEPT !.at = Least(stops), !.key = key[Least(stops)]]
                ELSE Corrupt(t)
  <2> DEFINE R == RestartBefore(t.block, target)
             F == t.block.restarts[R + 1] + 1
             K == KeysFrom(t.block, F)
             S == {i \in F .. End(t) - 1 :
                     Sharable(K[i - 1], t.block.entries[i]) => ~ Less(K[i], target)}
  <2>1. s = IF R < 0 THEN Corrupt(t)
            ELSE IF S = {} THEN [t EXCEPT !.at = End(t), !.key = K[End(t) - 1]]
            ELSE IF Sharable(K[Least(S) - 1], t.block.entries[Least(S)])
                 THEN [t EXCEPT !.at = Least(S), !.key = K[Least(S)]]
            ELSE Corrupt(t)
    BY DEF BlockSeek
  <2>2. R = r /\ ~ R < 0
    BY <1>2, <1>3
  <2>3. F = first
    BY <1>2, <1>5, <1>7, <2>2
  <2> HIDE DEF R, F
  <2>4. K = key
    BY <1>2, <1>9, <2>3
  <2> HIDE DEF K
  <2>5. S = stops
    BY <1>2, <1>12, <2>3, <2>4
  <2> HIDE DEF S
  <2> QED BY <1>2, <2>1, <2>2, <2>4, <2>5
<1>14. ASSUME NEW i \in 1..Len(es), i < first PROVE Less(es[i].key, target)
  <2>1. p < Len(es) /\ Less(es[p + 1].key, target) /\ p + 1 \in 1..Len(es)
    BY <1>1, <1>6, <1>7, <1>14
  <2>2. i < p + 1
    BY <1>7, <1>14
  <2>3. Less(es[i].key, es[p + 1].key)
    BY <2>1, <2>2 DEF Sorted
  <2>4. es[i].key \in Seq(Nat) /\ es[p + 1].key \in Seq(Nat)
    BY <1>1, <2>1, ItemType
  <2> QED BY <2>1, <2>3, <2>4, LessTransitive
<1>15. CASE stops = {}
  <2>1. s = [t EXCEPT !.at = End(t), !.key = key[End(t) - 1]]
    BY <1>13, <1>15
  <2>2. key[End(t) - 1] \in Seq(Nat)
    <3>1. End(t) - 1 = Len(es) /\ <<>> \in Seq(Nat)
      BY <1>1
    <3>2. CASE first = Len(es) + 1
      BY <1>1, <1>10, <3>1, <3>2
    <3>3. CASE first # Len(es) + 1
      <4>1. Len(es) \in first..Len(es) /\ Len(es) \in 1..Len(es)
        BY <1>1, <3>3
      <4> QED BY <1>1, <1>10, <3>1, <4>1, ItemType
    <3> QED BY <3>2, <3>3
  <2>3. End(t) \in Nat
    BY <1>1
  <2>4. s \in IterT /\ s.at = Len(es) + 1 /\ s.block = t.block /\ s.ok = t.ok
    BY <1>1, <2>1, <2>2, <2>3 DEF IterT
  <2>5. Shows(s, es)
    BY <1>1, <2>4 DEF Shows
  <2>6. ASSUME NEW i \in 1..Len(es) PROVE Less(es[i].key, target) /\ i < s.at
    <3>1. i < first \/ i \in first..Len(es)
      BY <1>1
    <3> QED BY <1>1, <1>11, <1>14, <1>15, <2>4, <3>1
  <2> QED BY <2>4, <2>5, <2>6
<1>16. CASE stops # {}
  <2>1. stops \subseteq Nat
    BY <1>11
  <2>2. PICK i \in stops : \A j \in stops : i <= j
    BY <1>16, <2>1, LeastNatural
  <2>3. Least(stops) = i
    <3>1. \A x \in stops : (\A y \in stops : x <= y) => x = i
      BY <2>1, <2>2
    <3> QED BY <2>2, <3>1 DEF Least
  <2>4. i \in first..Len(es) /\ i \in 1..Len(es) /\ i \in Nat /\ ~ Less(es[i].key, target)
    BY <1>11, <2>2
  <2>5. s = [t EXCEPT !.at = i, !.key = es[i].key]
    BY <1>10, <1>13, <1>16, <2>3, <2>4
  <2>6. es[i].key \in Seq(Nat)
    BY <1>1, <2>4, ItemType
  <2>7. s \in IterT /\ s.at = i /\ s.block = t.block /\ s.ok = t.ok /\ s.key = es[i].key
    BY <1>1, <2>4, <2>5, <2>6 DEF IterT
  <2>8. Shows(s, es)
    BY <1>1, <2>4, <2>7 DEF Shows
  <2>9. ASSUME NEW j \in 1..Len(es), j < i PROVE Less(es[j].key, target)
    <3>1. j < first \/ j \in first..Len(es)
      BY <1>1
    <3>2. j \notin stops
      BY <2>2, <2>4, <2>9
    <3> QED BY <1>11, <1>14, <3>1, <3>2
  <2>10. ASSUME NEW j \in 1..Len(es), ~ j < i PROVE ~ Less(es[j].key, target)
    <3>1. CASE j = i
      BY <2>4, <3>1
    <3>2. CASE i < j
      <4>1. Less(es[i].key, es[j].key)
        BY <2>4, <3>2 DEF Sorted
      <4>2. es[j].key \in Seq(Nat)
        BY <1>1, ItemType
      <4>3. Less(es[j].key, target) => Less(es[i].key, target)
        BY <2>6, <4>1, <4>2, LessTransitive
      <4> QED BY <2>4, <4>3
    <3> QED BY <2>4, <2>10, <3>1, <3>2
  <2> QED BY <2>7, <2>8, <2>9, <2>10
<1> QED BY <1>15, <1>16

-----------------------------------------------------------------------------
(* What was added is divided among the blocks of the file.                 *)

ContentT == [key : Seq(Nat), value : Nat]

Part(c, a, b) == [i \in 1 .. b - a |-> c[a + i]]

Start(cut, k) == IF k = 1 THEN 0 ELSE cut[k - 1]

Cuts(c, cut) ==
  /\ cut \in Seq(Nat)
  /\ \A k \in 1..Len(cut) : Start(cut, k) < cut[k] /\ cut[k] <= Len(c)

Divided(file, c, cut) ==
  /\ Len(cut) <= Len(file)
  /\ \A k \in 1..Len(cut) : Encodes(file[k].contents, Part(c, Start(cut, k), cut[k]))

Separated(c, cut, sep) ==
  /\ sep \in Seq(Seq(Nat)) /\ Len(sep) <= Len(cut)
  /\ \A k \in 1..Len(sep) : /\ ~ Less(sep[k], c[cut[k]].key)
                            /\ cut[k] < Len(c) => Less(sep[k], c[cut[k] + 1].key)

IndexItems(file, sep) ==
  [k \in 1..Len(sep) |-> [key |-> sep[k], value |-> file[k].handle]]

(* Every block but the one whose entry waits is in the index.              *)
Filed(r, c, cut, sep) ==
  /\ Cuts(c, cut) /\ Divided(r.file, c, cut) /\ Separated(c, cut, sep)
  /\ Built(r.index_block, IndexItems(r.file, sep))
  /\ r.pending = None => /\ Len(sep) = Len(cut)
                         /\ Len(cut) > 0 => cut[Len(cut)] < Len(c)
  /\ r.pending # None => /\ Len(cut) = Len(sep) + 1
                         /\ r.pending = r.file[Len(cut)].handle
                         /\ cut[Len(cut)] = Len(c)

Building(r, c, cut, sep) ==
  /\ Filed(r, c, cut, sep) /\ Len(r.file) = Len(cut)
  /\ Built(r.data_block, Part(c, Start(cut, Len(cut) + 1), Len(c)))
  /\ r.last_key = LastKey(c)

Finished(r, c, cut, sep) ==
  /\ Cuts(c, cut) /\ Divided(r.file, c, cut) /\ Separated(c, cut, sep)
  /\ Len(sep) = Len(cut) /\ Start(cut, Len(cut) + 1) = Len(c)
  /\ \E i \in 1..Len(r.file) :
       r.file[i].handle = r.footer.index /\ Encodes(r.file[i].contents, IndexItems(r.file, sep))

LEMMA StartBounds ==
  ASSUME NEW c, Len(c) \in Nat, NEW cut, Cuts(c, cut), NEW k \in 1 .. Len(cut) + 1
  PROVE  /\ Start(cut, k) \in Nat /\ Start(cut, k) <= Len(c)
         /\ k \in 1..Len(cut) => /\ cut[k] \in Nat /\ Start(cut, k) < cut[k] /\ cut[k] <= Len(c)
                                 /\ Start(cut, k + 1) = cut[k]
<1>1. cut \in Seq(Nat) /\ Len(cut) \in Nat
  BY DEF Cuts
<1>2. CASE k = 1
  <2>1. Start(cut, k) = 0
    BY <1>2 DEF Start
  <2>2. k \in 1..Len(cut) => cut[k] \in Nat /\ Start(cut, k + 1) = cut[k]
    BY <1>1, <1>2 DEF Start
  <2> QED BY <2>1, <2>2 DEF Cuts
<1>3. CASE k # 1
  <2>1. k - 1 \in 1..Len(cut)
    BY <1>1, <1>3
  <2>2. Start(cut, k) = cut[k - 1] /\ cut[k - 1] \in Nat /\ cut[k - 1] <= Len(c)
    BY <1>1, <1>3, <2>1 DEF Start, Cuts
  <2>3. k \in 1..Len(cut) => cut[k] \in Nat /\ Start(cut, k + 1) = cut[k]
    <3>1. k + 1 # 1 /\ (k + 1) - 1 = k
      BY <1>1
    <3> QED BY <1>1, <3>1 DEF Start
  <2> QED BY <2>2, <2>3 DEF Cuts
<1> QED BY <1>2, <1>3

(* A later part begins where an earlier one has ended.                     *)
LEMMA CutsGrow ==
  ASSUME NEW c, Len(c) \in Nat, NEW cut, Cuts(c, cut)
  PROVE  \A k \in 1 .. Len(cut) + 1, j \in 1..Len(cut) : j < k => cut[j] <= Start(cut, k)
<1>1. cut \in Seq(Nat) /\ Len(cut) \in Nat
  BY DEF Cuts
<1> DEFINE T == {k \in 1 .. Len(cut) + 1 : ~ \A j \in 1..Len(cut) : j < k => cut[j] <= Start(cut, k)}
<1> SUFFICES ASSUME T # {} PROVE FALSE
  OBVIOUS
<1>2. T \subseteq Nat
  BY <1>1
<1>3. PICK k \in T : \A i \in T : k <= i
  BY <1>2, LeastNatural
<1>4. PICK j \in 1..Len(cut) : j < k /\ ~ cut[j] <= Start(cut, k)
  BY <1>3
<1>5. /\ k \in 1 .. Len(cut) + 1 /\ k # 1 /\ k - 1 \in 1..Len(cut) /\ k - 1 \in 1 .. Len(cut) + 1
      /\ ~ k <= k - 1
  BY <1>1, <1>3, <1>4
<1>6. \A i \in 1..Len(cut) : i < k - 1 => cut[i] <= Start(cut, k - 1)
  BY <1>3, <1>5
<1>7. /\ Start(cut, k - 1) \in Nat /\ cut[k - 1] \in Nat /\ Start(cut, k - 1) < cut[k - 1]
      /\ Start(cut, k) = cut[k - 1] /\ cut[j] \in Nat
  <2>1. PICK i \in 1 .. Len(cut) + 1 : i = k - 1 /\ i \in 1..Len(cut)
    BY <1>5
  <2>2. Start(cut, i) \in Nat /\ cut[i] \in Nat /\ Start(cut, i) < cut[i]
    BY <2>1, StartBounds
  <2>3. Start(cut, k) = cut[i]
    BY <1>5, <2>1 DEF Start
  <2>4. cut[j] \in Nat
    BY <1>1
  <2> QED BY <2>1, <2>2, <2>3, <2>4
<1>8. j < k - 1 \/ j = k - 1
  BY <1>4, <1>5
<1> QED BY <1>4, <1>6, <1>7, <1>8

LEMMA PartIs ==
  ASSUME NEW c \in Seq(ContentT), NEW a \in Nat, NEW b \in Nat, a <= b, b <= Len(c),
         NEW p, p = Part(c, a, b)
  PROVE  /\ p \in Seq(ItemT) /\ Len(p) = b - a
         /\ \A i \in 1 .. b - a : p[i] = c[a + i] /\ a + i \in 1..Len(c)
<1>1. b - a \in Nat /\ \A i \in 1 .. b - a : a + i \in 1..Len(c)
  OBVIOUS
<1>2. \A i \in 1..Len(c) : c[i] \in ItemT
  <2> TAKE i \in 1..Len(c)
  <2>1. c[i] \in ContentT
    OBVIOUS
  <2> QED BY <2>1 DEF ContentT, ItemT
<1>3. p \in [1 .. b - a -> ItemT]
  BY <1>1, <1>2 DEF Part
<1>4. PICK n \in Nat : n = b - a
  BY <1>1
<1>5. p \in Seq(ItemT) /\ Len(p) = n
  BY <1>3, <1>4
<1>6. \A i \in 1 .. b - a : p[i] = c[a + i]
  BY DEF Part
<1> QED BY <1>1, <1>4, <1>5, <1>6

LEMMA PartSorted ==
  ASSUME NEW c \in Seq(ContentT), Sorted(c), NEW a \in Nat, NEW b \in Nat, a <= b, b <= Len(c),
         NEW p, p = Part(c, a, b)
  PROVE  Sorted(p)
<1>1. Len(p) = b - a /\ \A i \in 1 .. b - a : p[i] = c[a + i] /\ a + i \in 1..Len(c)
  BY PartIs
<1>2. ASSUME NEW i \in 1..Len(p), NEW j \in 1..Len(p), i < j PROVE Less(p[i].key, p[j].key)
  <2>1. a + i < a + j
    BY <1>1, <1>2
  <2> QED BY <1>1, <1>2, <2>1 DEF Sorted
<1> QED BY <1>2 DEF Sorted

(* One more entry.                                                         *)
Extended(d, c, x) ==
  /\ d \in Seq(ContentT) /\ Len(d) = Len(c) + 1 /\ d[Len(c) + 1] = x
  /\ \A i \in 1..Len(c) : d[i] = c[i]

LEMMA AppendExtends ==
  ASSUME NEW c \in Seq(ContentT), NEW x \in ContentT
  PROVE  Extended(Append(c, x), c, x)
BY AppendProperties DEF Extended

LEMMA PartGrows ==
  ASSUME NEW c \in Seq(ContentT), NEW x \in ContentT, NEW d, Extended(d, c, x),
         NEW a \in Nat, a <= Len(c)
  PROVE  Part(d, a, Len(d)) = Append(Part(c, a, Len(c)), x)
<1>1. /\ d \in Seq(ContentT) /\ Len(d) = Len(c) + 1 /\ Len(c) \in Nat
      /\ d[Len(c) + 1] = x
      /\ \A i \in 1..Len(c) : d[i] = c[i]
  BY DEF Extended
<1>2. Part(d, a, Len(d)) = Append(Part(c, a, Len(c)), x)
  <2>1. PICK p : p = Part(c, a, Len(c))
    OBVIOUS
  <2>2. PICK q : q = Part(d, a, Len(d))
    OBVIOUS
  <2>3. PICK s : s = Append(p, x)
    OBVIOUS
  <2>4. p \in Seq(ItemT) /\ Len(p) = Len(c) - a /\ \A i \in 1 .. Len(c) - a : p[i] = c[a + i]
    <3>1. Len(c) \in Nat /\ Len(c) <= Len(c)
      BY <1>1
    <3> QED BY <2>1, <3>1, PartIs
  <2>5. q \in Seq(ItemT) /\ Len(q) = Len(d) - a /\ \A i \in 1 .. Len(d) - a : q[i] = d[a + i]
    <3>1. a <= Len(d) /\ Len(d) \in Nat /\ Len(d) <= Len(d)
      BY <1>1
    <3>2. PICK e \in Seq(ContentT) : e = d
      BY <1>1
    <3>3. /\ a <= Len(e) /\ Len(e) \in Nat /\ Len(e) <= Len(e) /\ q = Part(e, a, Len(e))
      BY <2>2, <3>1, <3>2
    <3>4. q \in Seq(ItemT) /\ Len(q) = Len(e) - a /\ \A i \in 1 .. Len(e) - a : q[i] = e[a + i]
      BY <3>3, PartIs
    <3> QED BY <3>2, <3>4
  <2>6. x \in ItemT
    BY DEF ContentT, ItemT
  <2>7. /\ s \in Seq(ItemT) /\ Len(s) = Len(p) + 1 /\ s[Len(p) + 1] = x
        /\ \A i \in 1..Len(p) : s[i] = p[i]
    BY <2>3, <2>4, <2>6, AppendProperties
  <2>8. Len(q) = Len(s)
    BY <1>1, <2>4, <2>5, <2>7
  <2>9. ASSUME NEW i \in 1..Len(q) PROVE q[i] = s[i]
    <3>1. q[i] = d[a + i]
      BY <2>5
    <3>2. CASE i = Len(p) + 1
      <4>1. a + i = Len(c) + 1
        BY <1>1, <2>4, <3>2
      <4> QED BY <1>1, <2>7, <3>1, <3>2, <4>1
    <3>3. CASE i # Len(p) + 1
      <4>1. i \in 1..Len(p) /\ i \in 1 .. Len(c) - a /\ a + i \in 1..Len(c)
        <5>1. Len(q) = Len(p) + 1 /\ Len(p) = Len(c) - a /\ Len(c) \in Nat
          BY <1>1, <2>4, <2>7, <2>8
        <5> QED BY <3>3, <5>1
      <4> QED BY <1>1, <2>4, <2>7, <3>1, <4>1
    <3> QED BY <3>2, <3>3
  <2>10. q = s
    BY <2>5, <2>7, <2>8, <2>9, SeqEqual
  <2> QED BY <2>1, <2>2, <2>3, <2>10
<1> QED BY <1>2

LEMMA IndexItemsAre ==
  ASSUME NEW file \in Seq(WrittenT), NEW sep \in Seq(Seq(Nat)), Len(sep) <= Len(file),
         NEW x, x = IndexItems(file, sep)
  PROVE  /\ x \in Seq(ItemT) /\ Len(x) = Len(sep)
         /\ \A k \in 1..Len(sep) : /\ x[k] = [key |-> sep[k], value |-> file[k].handle]
                                   /\ x[k].key = sep[k] /\ x[k].value = file[k].handle
<1>1. Len(sep) \in Nat /\ Len(file) \in Nat
  OBVIOUS
<1>2. ASSUME NEW k \in 1..Len(sep)
      PROVE  [key |-> sep[k], value |-> file[k].handle] \in ItemT
  <2>1. sep[k] \in Seq(Nat) /\ k \in 1..Len(file)
    BY <1>1
  <2>2. file[k] \in WrittenT
    BY <2>1
  <2> QED BY <2>1, <2>2 DEF WrittenT, ItemT
<1>3. x \in [1..Len(sep) -> ItemT]
  BY <1>2 DEF IndexItems
<1>4. \A k \in 1..Len(sep) : x[k] = [key |-> sep[k], value |-> file[k].handle]
  BY DEF IndexItems
<1>5. PICK n \in Nat : n = Len(sep)
  BY <1>1
<1>6. x \in Seq(ItemT) /\ Len(x) = n
  <2>1. x \in [1..n -> ItemT]
    BY <1>3, <1>5
  <2> QED BY <2>1
<1>7. ASSUME NEW k \in 1..Len(sep) PROVE x[k].key = sep[k] /\ x[k].value = file[k].handle
  <2>1. x[k] = [key |-> sep[k], value |-> file[k].handle]
    BY <1>4
  <2> QED BY <2>1
<1> QED BY <1>4, <1>5, <1>6, <1>7

(* Blocks that are written after them leave the index entries what they are. *)
LEMMA IndexItemsStay ==
  ASSUME NEW f, NEW g, NEW sep, Len(sep) \in Nat, Len(f) \in Nat, Len(sep) <= Len(f),
         \A i \in 1..Len(f) : g[i] = f[i]
  PROVE  IndexItems(g, sep) = IndexItems(f, sep)
<1>1. \A k \in 1..Len(sep) : g[k] = f[k]
  OBVIOUS
<1> QED BY <1>1 DEF IndexItems

LEMMA FiledGrows ==
  ASSUME NEW r \in RepT, NEW y, NEW c, NEW cut, NEW sep, Filed(r, c, cut, sep),
         Len(y.file) \in Nat, Len(r.file) <= Len(y.file),
         \A i \in 1..Len(r.file) : y.file[i] = r.file[i],
         y.index_block = r.index_block, y.pending = r.pending
  PROVE  Filed(y, c, cut, sep)
<1>1. Len(r.file) \in Nat /\ Len(cut) \in Nat /\ Len(sep) \in Nat /\ Len(cut) <= Len(r.file)
      /\ Len(sep) <= Len(cut)
  BY DEF RepT, Filed, Cuts, Separated, Divided
<1>2. IndexItems(y.file, sep) = IndexItems(r.file, sep)
  BY <1>1, IndexItemsStay
<1>3. Divided(y.file, c, cut)
  <2>1. Len(cut) <= Len(y.file) /\ \A k \in 1..Len(cut) : y.file[k] = r.file[k]
    BY <1>1
  <2> QED BY <2>1 DEF Filed, Divided
<1>4. r.pending # None => y.pending = y.file[Len(cut)].handle
  <2> HAVE r.pending # None
  <2>1. Len(cut) = Len(sep) + 1 /\ r.pending = r.file[Len(cut)].handle
    BY DEF Filed
  <2>2. Len(cut) \in 1..Len(r.file)
    BY <1>1, <2>1
  <2> QED BY <2>1, <2>2
<1> QED BY <1>2, <1>3, <1>4 DEF Filed

LEMMA WriteAppends ==
  ASSUME NEW r \in RepT, NEW b \in BuilderT, NEW w, w = WriteBlock(r, b), w.ok
  PROVE  /\ r.ok /\ w \in RepT /\ Len(w.file) = Len(r.file) + 1
         /\ \A i \in 1..Len(r.file) : w.file[i] = r.file[i]
         /\ w.file[Len(r.file) + 1].handle = HandleOf(r, b)
         /\ w.file[Len(r.file) + 1].contents = Contents(b)
         /\ w.index_block = r.index_block /\ w.pending = r.pending
         /\ w.data_block = r.data_block /\ w.last_key = r.last_key /\ w.footer = r.footer
         /\ w.closed = r.closed
<1>1. /\ r.file \in Seq(WrittenT) /\ r.offset \in Nat /\ r.room \in Nat
      /\ Len(r.file) \in Nat
  BY DEF RepT
<1>2. r.room # 0
  <2> SUFFICES ASSUME r.room = 0 PROVE FALSE
    OBVIOUS
  <2>1. w = [r EXCEPT !.ok = FALSE]
    BY DEF WriteBlock
  <2> QED BY <2>1 DEF RepT
<1>3. PICK e : e = [handle |-> HandleOf(r, b), contents |-> Contents(b)]
  OBVIOUS
<1>4. e \in WrittenT
  <2>1. Contents(b) \in BlockT
    BY DEF Contents, BlockT, BuilderT
  <2> QED BY <1>3, <2>1, HandleOfType DEF WrittenT
<1>5. PICK f : f = Append(r.file, e)
  OBVIOUS
<1>6. /\ f \in Seq(WrittenT) /\ Len(f) = Len(r.file) + 1 /\ f[Len(r.file) + 1] = e
      /\ \A i \in 1..Len(r.file) : f[i] = r.file[i]
  BY <1>1, <1>4, <1>5, AppendProperties
<1>7. PICK o \in Nat : o = r.offset + BlockSize(b) + TrailerSize
  BY <1>1, BlockSizeType DEF TrailerSize
<1>8. w = [r EXCEPT !.room = r.room - 1, !.file = f, !.offset = o]
  BY <1>2, <1>3, <1>5, <1>7 DEF WriteBlock
<1>9. r.room - 1 \in Nat
  BY <1>1, <1>2
<1>10. /\ w \in RepT /\ w.file = f /\ w.index_block = r.index_block /\ w.pending = r.pending
       /\ w.data_block = r.data_block /\ w.last_key = r.last_key /\ w.footer = r.footer
       /\ w.closed = r.closed /\ w.ok = r.ok
  BY <1>6, <1>8, <1>9 DEF RepT
<1> QED BY <1>3, <1>6, <1>10

-----------------------------------------------------------------------------
(* Each operation of the builder keeps the division.                       *)

LEMMA BuildingFacts ==
  ASSUME NEW r \in RepT, NEW c \in Seq(ContentT), NEW cut, NEW sep, Filed(r, c, cut, sep)
  PROVE  /\ r.file \in Seq(WrittenT) /\ Len(r.file) \in Nat
         /\ cut \in Seq(Nat) /\ Len(cut) \in Nat /\ sep \in Seq(Seq(Nat)) /\ Len(sep) \in Nat
         /\ Len(sep) <= Len(cut) /\ Len(cut) <= Len(r.file) /\ Len(c) \in Nat
         /\ Cuts(c, cut) /\ Divided(r.file, c, cut) /\ Separated(c, cut, sep)
         /\ Start(cut, Len(cut) + 1) \in Nat /\ Start(cut, Len(cut) + 1) <= Len(c)
         /\ Len(cut) > 0 => Len(cut) \in 1..Len(cut) /\ Start(cut, Len(cut) + 1) = cut[Len(cut)]
<1>1. /\ r.file \in Seq(WrittenT) /\ Len(r.file) \in Nat
      /\ cut \in Seq(Nat) /\ Len(cut) \in Nat /\ sep \in Seq(Seq(Nat)) /\ Len(sep) \in Nat
      /\ Len(sep) <= Len(cut) /\ Len(cut) <= Len(r.file) /\ Len(c) \in Nat
      /\ Cuts(c, cut) /\ Divided(r.file, c, cut) /\ Separated(c, cut, sep)
  BY DEF RepT, Filed, Cuts, Divided, Separated
<1>2. PICK n \in 1 .. Len(cut) + 1 : n = Len(cut) + 1
  <2>1. Len(cut) \in Nat
    BY <1>1
  <2>2. Len(cut) + 1 \in 1 .. Len(cut) + 1
    BY <2>1
  <2> QED BY <2>2
<1>3. Start(cut, n) \in Nat /\ Start(cut, n) <= Len(c)
  BY <1>1, StartBounds
<1>4. ASSUME Len(cut) > 0
      PROVE  Len(cut) \in 1..Len(cut) /\ Start(cut, Len(cut) + 1) = cut[Len(cut)]
  <2>1. Len(cut) + 1 # 1 /\ (Len(cut) + 1) - 1 = Len(cut) /\ Len(cut) \in 1..Len(cut)
    BY <1>1, <1>4
  <2> QED BY <2>1 DEF Start
<1> QED BY <1>1, <1>2, <1>3, <1>4

LEMMA FlushBuilds ==
  ASSUME NEW r, Sound(r), NEW c \in Seq(ContentT), NEW cut, NEW sep, Building(r, c, cut, sep),
         NEW f, f = Flush(r), f.ok
  PROVE  /\ r.ok /\ f.closed = r.closed /\ f.footer = r.footer
         /\ \E d : Building(f, c, d, sep) /\ Start(d, Len(d) + 1) = Len(c)
<1>1. r \in RepT /\ r.data_block \in BuilderT /\ Filed(r, c, cut, sep)
  BY DEF Sound, RepT, Building
<1>2. /\ r.file \in Seq(WrittenT) /\ Len(r.file) \in Nat
      /\ cut \in Seq(Nat) /\ Len(cut) \in Nat /\ sep \in Seq(Seq(Nat)) /\ Len(sep) \in Nat
      /\ Len(sep) <= Len(cut) /\ Len(cut) <= Len(r.file) /\ Len(c) \in Nat
      /\ Cuts(c, cut) /\ Divided(r.file, c, cut) /\ Separated(c, cut, sep)
      /\ Len(cut) > 0 => Len(cut) \in 1..Len(cut) /\ Start(cut, Len(cut) + 1) = cut[Len(cut)]
  BY <1>1, BuildingFacts
<1>3. PICK a \in Nat : a = Start(cut, Len(cut) + 1) /\ a <= Len(c)
  BY <1>1, BuildingFacts
<1>4. PICK p : p = Part(c, a, Len(c))
  OBVIOUS
<1>5. p \in Seq(ItemT) /\ Len(p) = Len(c) - a
  <2>1. PICK e \in Nat : e = Len(c)
    BY <1>2
  <2>2. a <= e /\ e <= Len(c) /\ p = Part(c, a, e)
    BY <1>3, <1>4, <2>1
  <2>3. p \in Seq(ItemT) /\ Len(p) = e - a
    BY <2>2, PartIs
  <2> QED BY <2>1, <2>3
<1>6. Built(r.data_block, p)
  BY <1>3, <1>4 DEF Building
<1>7. Len(r.data_block.entries) = Len(c) - a
  BY <1>5, <1>6 DEF Built, Encodes, Contents
<1>8. CASE r.data_block.entries = <<>> /\ r.ok
  <2>1. f = r
    BY <1>8 DEF Flush
  <2>2. a = Len(c)
    BY <1>2, <1>7, <1>8
  <2> QED BY <1>3, <1>8, <2>1, <2>2
<1>9. CASE ~ r.ok
  <2>1. f = r
    BY <1>9 DEF Flush
  <2> QED BY <1>9, <2>1
<1>10. CASE r.data_block.entries # <<>> /\ r.ok
  <2>1. PICK w : w = WriteBlock(r, r.data_block)
    OBVIOUS
  <2>2. f = [w EXCEPT !.data_block = EmptyBuilder,
                      !.pending = IF w.ok THEN HandleOf(r, r.data_block) ELSE w.pending]
    BY <1>10, <2>1 DEF Flush
  <2>3. w \in RepT
    BY <1>1, <2>1, WriteBlockSound DEF Sound
  <2>4. f.ok = w.ok /\ w.ok
    BY <2>2, <2>3 DEF RepT
  <2>5. /\ Len(w.file) = Len(r.file) + 1
        /\ \A i \in 1..Len(r.file) : w.file[i] = r.file[i]
        /\ w.file[Len(r.file) + 1].handle = HandleOf(r, r.data_block)
        /\ w.file[Len(r.file) + 1].contents = Contents(r.data_block)
        /\ w.index_block = r.index_block
        /\ w.last_key = r.last_key /\ w.footer = r.footer
        /\ w.closed = r.closed
    BY <1>1, <2>1, <2>4, WriteAppends
  <2>6. PICK h : h = HandleOf(r, r.data_block) /\ h \in HandleT
    BY <1>1, HandleOfType
  <2>7. h # None
    BY <2>6, TableAssumption DEF TableAssumption
  <2>8. f = [w EXCEPT !.data_block = EmptyBuilder, !.pending = h]
    BY <2>2, <2>4, <2>6
  <2>9. /\ f.file = w.file /\ f.index_block = w.index_block /\ f.pending = h
        /\ f.data_block = EmptyBuilder /\ f.last_key = w.last_key /\ f.footer = w.footer
        /\ f.closed = w.closed
    BY <2>3, <2>8 DEF RepT
  <2>10. a < Len(c)
    <3>1. r.data_block.entries \in Seq(EntryT)
      BY <1>1 DEF BuilderT
    <3>2. Len(r.data_block.entries) # 0
      BY <1>10, <3>1
    <3> QED BY <1>2, <1>3, <1>7, <3>2
  <2>11. r.pending = None
    <3> SUFFICES ASSUME r.pending # None PROVE FALSE
      OBVIOUS
    <3>1. Len(cut) = Len(sep) + 1 /\ cut[Len(cut)] = Len(c)
      BY <1>1 DEF Filed
    <3>2. Len(cut) > 0
      BY <1>2, <3>1
    <3> QED BY <1>2, <1>3, <2>10, <3>1, <3>2
  <2>12. Len(sep) = Len(cut) /\ Len(cut) = Len(r.file)
    BY <1>1, <2>11 DEF Filed, Building
  <2>13. PICK m \in Nat : m = Len(cut)
    BY <1>2
  <2>14. PICK d : d = Append(cut, Len(c))
    OBVIOUS
  <2>15. d \in Seq(Nat) /\ Len(d) = m + 1 /\ d[m + 1] = Len(c) /\ \A i \in 1..m : d[i] = cut[i]
    BY <1>2, <2>13, <2>14, AppendProperties
  <2>16. \A k \in 1 .. m + 1 : Start(d, k) = Start(cut, k)
    <3> TAKE k \in 1 .. m + 1
    <3>1. k # 1 => k - 1 \in 1..m
      BY <2>13
    <3> QED BY <2>15, <3>1 DEF Start
  <2>17. Start(d, m + 1) = a /\ Start(d, m + 2) = Len(c)
    <3>1. m + 1 \in 1 .. m + 1
      OBVIOUS
    <3>2. m + 2 # 1 /\ (m + 2) - 1 = m + 1
      OBVIOUS
    <3> QED BY <1>3, <2>13, <2>15, <2>16, <3>1, <3>2 DEF Start
  <2>18. Cuts(c, d)
    <3>1. ASSUME NEW k \in 1..Len(d) PROVE Start(d, k) < d[k] /\ d[k] <= Len(c)
      <4>1. CASE k = m + 1
        BY <1>2, <2>10, <2>15, <2>17, <4>1
      <4>2. CASE k \in 1..m
        BY <1>2, <2>13, <2>15, <2>16, <4>2 DEF Cuts
      <4> QED BY <2>15, <4>1, <4>2
    <3> QED BY <2>15, <3>1 DEF Cuts
  <2>19. Divided(f.file, c, d)
    <3>1. Len(d) <= Len(f.file)
      BY <1>2, <2>5, <2>9, <2>12, <2>13, <2>15
    <3>2. ASSUME NEW k \in 1..Len(d)
          PROVE  Encodes(f.file[k].contents, Part(c, Start(d, k), d[k]))
      <4>1. CASE k = m + 1
        <5>1. f.file[k].contents = Contents(r.data_block)
          BY <2>5, <2>9, <2>12, <2>13, <4>1
        <5>2. Part(c, Start(d, k), d[k]) = p
          BY <1>4, <2>15, <2>17, <4>1
        <5> QED BY <1>6, <5>1, <5>2 DEF Built
      <4>2. CASE k \in 1..m
        <5>1. f.file[k] = r.file[k]
          BY <2>5, <2>9, <2>12, <2>13, <4>2
        <5> QED BY <1>2, <2>13, <2>15, <2>16, <4>2, <5>1 DEF Divided
      <4> QED BY <2>15, <4>1, <4>2
    <3> QED BY <3>1, <3>2 DEF Divided
  <2>20. Separated(c, d, sep)
    <3>1. Len(sep) <= Len(d)
      BY <2>12, <2>13, <2>15
    <3>2. \A k \in 1..Len(sep) : d[k] = cut[k]
      BY <2>12, <2>13, <2>15
    <3> QED BY <1>2, <3>1, <3>2 DEF Separated
  <2>21. Built(f.index_block, IndexItems(f.file, sep))
    <3>1. IndexItems(f.file, sep) = IndexItems(r.file, sep)
      <4>1. Len(sep) <= Len(r.file) /\ \A i \in 1..Len(r.file) : f.file[i] = r.file[i]
        BY <1>2, <2>5, <2>9
      <4>2. Len(sep) \in Nat /\ Len(r.file) \in Nat
        BY <1>2
      <4> QED BY <4>1, <4>2, IndexItemsStay
    <3> QED BY <1>1, <2>5, <2>9, <3>1 DEF Filed
  <2>22. Filed(f, c, d, sep)
    <3>1. Len(d) = Len(sep) + 1 /\ f.pending = f.file[Len(d)].handle /\ d[Len(d)] = Len(c)
      BY <2>5, <2>6, <2>9, <2>12, <2>13, <2>15
    <3>2. f.pending # None
      BY <2>7, <2>9
    <3> QED BY <2>18, <2>19, <2>20, <2>21, <3>1, <3>2 DEF Filed
  <2>23. Part(c, Start(d, Len(d) + 1), Len(c)) = <<>>
    <3>1. Len(d) + 1 = m + 2
      BY <2>15
    <3>2. 1 .. Len(c) - Len(c) = {}
      BY <1>2
    <3>3. Part(c, Len(c), Len(c)) = <<>>
      BY <3>2 DEF Part
    <3> QED BY <2>17, <3>1, <3>3
  <2>24. Building(f, c, d, sep)
    <3>1. Len(f.file) = Len(d)
      BY <2>5, <2>9, <2>12, <2>13, <2>15
    <3>2. f.last_key = LastKey(c)
      BY <2>5, <2>9 DEF Building
    <3> QED BY <2>9, <2>22, <2>23, <3>1, <3>2, EmptyBuilt DEF Building
  <2>25. Start(d, Len(d) + 1) = Len(c)
    <3>1. Len(d) + 1 = m + 2
      BY <2>15
    <3> QED BY <2>17, <3>1
  <2> QED BY <1>10, <2>5, <2>9, <2>24, <2>25
<1> QED BY <1>8, <1>9, <1>10

(* Entering the block that waits.                                          *)
LEMMA IndexBuilds ==
  ASSUME NEW r, Sound(r), NEW c \in Seq(ContentT), NEW cut, NEW sep, Filed(r, c, cut, sep),
         NEW key \in Seq(Nat), Len(c) > 0 => ~ Less(key, c[Len(c)].key),
         NEW x, x = IndexPending(r, key)
  PROVE  /\ x.ok = r.ok /\ x.file = r.file /\ x.data_block = r.data_block /\ x.pending = None
         /\ x.footer = r.footer /\ x.closed = r.closed
         /\ \E s : /\ Cuts(c, cut) /\ Divided(x.file, c, cut) /\ Separated(c, cut, s)
                   /\ Built(x.index_block, IndexItems(x.file, s)) /\ Len(s) = Len(cut)
                   /\ \A k \in 1..Len(s) : cut[k] = Len(c) => s[k] = key
<1>1. r \in RepT /\ r.index_block \in BuilderT
  BY DEF Sound, RepT
<1>2. /\ r.file \in Seq(WrittenT) /\ Len(r.file) \in Nat
      /\ cut \in Seq(Nat) /\ Len(cut) \in Nat /\ sep \in Seq(Seq(Nat)) /\ Len(sep) \in Nat
      /\ Len(sep) <= Len(cut) /\ Len(cut) <= Len(r.file) /\ Len(c) \in Nat
      /\ Cuts(c, cut) /\ Divided(r.file, c, cut) /\ Separated(c, cut, sep)
      /\ Len(cut) > 0 => Len(cut) \in 1..Len(cut) /\ Start(cut, Len(cut) + 1) = cut[Len(cut)]
  BY <1>1, BuildingFacts
<1>3. CASE r.pending = None
  <2>1. x = r
    BY <1>3 DEF IndexPending
  <2>2. Len(sep) = Len(cut) /\ (Len(cut) > 0 => cut[Len(cut)] < Len(c))
    BY <1>3 DEF Filed
  <2>3. ASSUME NEW k \in 1..Len(sep) PROVE cut[k] # Len(c)
    <3>1. k = Len(cut) \/ k < Len(cut)
      BY <1>2, <2>2
    <3>2. PICK m \in 1 .. Len(cut) + 1 : m = Len(cut)
      BY <1>2, <2>2
    <3>3. k < m => cut[k] <= Start(cut, m)
      BY <1>2, <2>2, <3>2, CutsGrow
    <3>4. Start(cut, m) < cut[m] /\ Start(cut, m) \in Nat /\ cut[m] < Len(c)
      BY <1>2, <2>2, <3>2, StartBounds
    <3>5. cut[k] \in Nat /\ cut[m] \in Nat
      BY <1>2, <2>2, <3>2
    <3> QED BY <1>2, <3>1, <3>2, <3>3, <3>4, <3>5
  <2>4. Built(x.index_block, IndexItems(x.file, sep))
    BY <2>1 DEF Filed
  <2> QED BY <1>2, <1>3, <2>1, <2>2, <2>3, <2>4
<1>4. CASE r.pending # None
  <2>1. PICK m \in Nat : m = Len(sep)
    BY <1>2
  <2>2. Len(cut) = m + 1 /\ r.pending = r.file[m + 1].handle /\ cut[m + 1] = Len(c) /\ Len(c) > 0
    <3>1. Len(cut) = m + 1 /\ r.pending = r.file[Len(cut)].handle /\ cut[Len(cut)] = Len(c)
      BY <1>4, <2>1 DEF Filed
    <3>2. m + 1 \in 1..Len(cut) /\ m + 1 \in 1 .. Len(cut) + 1
      BY <3>1
    <3>3. Start(cut, m + 1) \in Nat /\ Start(cut, m + 1) < cut[m + 1]
      BY <1>2, <3>2, StartBounds
    <3> QED BY <1>2, <3>1, <3>3
  <2>3. r.pending \in HandleT
    BY <1>1, <1>4 DEF RepT
  <2>4. PICK h \in Nat : h = HandleSize(r.pending)
    <3>1. r.pending.offset \in Nat /\ r.pending.size \in Nat
      BY <2>3 DEF HandleT
    <3>2. Varint(r.pending.offset) \in Nat /\ Varint(r.pending.size) \in Nat
      BY <3>1, VarintType, Zenon
    <3> QED BY <3>2 DEF HandleSize
  <2>5. PICK i \in ItemT : i = [key |-> key, value |-> r.pending]
    BY <2>3 DEF ItemT
  <2>6. PICK a : a = BlockAdd(r.index_block, key, r.pending, h, 1)
    OBVIOUS
  <2>7. x = [r EXCEPT !.index_block = a, !.last_key = key, !.pending = None]
    BY <1>4, <2>4, <2>6 DEF IndexPending
  <2>8. /\ x.ok = r.ok /\ x.file = r.file /\ x.data_block = r.data_block /\ x.pending = None
        /\ x.footer = r.footer /\ x.closed = r.closed /\ x.index_block = a
    BY <1>1, <2>7 DEF RepT
  <2>9. PICK es : es = IndexItems(r.file, sep)
    OBVIOUS
  <2>10. a = BlockAdd(r.index_block, i.key, i.value, h, 1)
    BY <2>5, <2>6
  <2>11. Built(r.index_block, es) /\ 1 \in Nat
    BY <2>9 DEF Filed
  <2>12. Built(a, Append(es, i))
    BY <2>10, <2>11, AddBuilt
  <2>13. PICK s : s = Append(sep, key)
    OBVIOUS
  <2>14. s \in Seq(Seq(Nat)) /\ Len(s) = m + 1 /\ s[m + 1] = key /\ \A k \in 1..m : s[k] = sep[k]
    BY <1>2, <2>1, <2>13, AppendProperties
  <2>15. PICK fs : fs = IndexItems(r.file, s)
    OBVIOUS
  <2>16. /\ fs \in Seq(ItemT) /\ Len(fs) = Len(s)
         /\ \A k \in 1..Len(s) : fs[k] = [key |-> s[k], value |-> r.file[k].handle]
    <3>1. Len(s) <= Len(r.file)
      BY <1>2, <2>2, <2>14
    <3>2. PICK file \in Seq(WrittenT) : file = r.file
      BY <1>2
    <3>3. Len(s) <= Len(file) /\ fs = IndexItems(file, s) /\ s \in Seq(Seq(Nat))
      BY <2>14, <2>15, <3>1, <3>2
    <3>4. /\ fs \in Seq(ItemT) /\ Len(fs) = Len(s)
          /\ \A k \in 1..Len(s) : fs[k] = [key |-> s[k], value |-> file[k].handle]
      BY <3>3, IndexItemsAre
    <3> QED BY <3>2, <3>4
  <2>17. /\ es \in Seq(ItemT) /\ Len(es) = m
         /\ \A k \in 1..m : es[k] = [key |-> sep[k], value |-> r.file[k].handle]
    <3>1. Len(sep) <= Len(r.file)
      BY <1>2
    <3>2. PICK file \in Seq(WrittenT) : file = r.file
      BY <1>2
    <3>3. Len(sep) <= Len(file) /\ es = IndexItems(file, sep) /\ sep \in Seq(Seq(Nat))
      BY <1>2, <2>9, <3>1, <3>2
    <3>4. /\ es \in Seq(ItemT) /\ Len(es) = Len(sep)
          /\ \A k \in 1..Len(sep) : es[k] = [key |-> sep[k], value |-> file[k].handle]
      BY <3>3, IndexItemsAre
    <3> QED BY <2>1, <3>2, <3>4
  <2>18. PICK gs : gs = Append(es, i)
    OBVIOUS
  <2>19. /\ gs \in Seq(ItemT) /\ Len(gs) = m + 1 /\ gs[m + 1] = i
         /\ \A k \in 1..m : gs[k] = es[k]
    <3>1. es \in Seq(ItemT) /\ Len(es) = m
      BY <2>17
    <3> QED BY <2>18, <3>1, AppendProperties
  <2>20. fs = gs
    <3>1. Len(fs) = Len(gs)
      BY <2>14, <2>16, <2>19
    <3>2. ASSUME NEW k \in 1..Len(fs) PROVE fs[k] = gs[k]
      <4>1. CASE k = m + 1
        <5>1. fs[k] = [key |-> key, value |-> r.pending]
          BY <2>2, <2>14, <2>16, <4>1
        <5> QED BY <2>5, <2>19, <4>1, <5>1
      <4>2. CASE k \in 1..m
        <5>1. fs[k] = [key |-> sep[k], value |-> r.file[k].handle]
          BY <2>14, <2>16, <4>2
        <5> QED BY <2>17, <2>19, <4>2, <5>1
      <4> QED BY <2>14, <2>16, <4>1, <4>2
    <3> QED BY <2>16, <2>19, <3>1, <3>2, SeqEqual
  <2>21. Built(x.index_block, IndexItems(x.file, s))
    BY <2>8, <2>12, <2>15, <2>18, <2>20
  <2>22. Separated(c, cut, s)
    <3>1. Len(s) <= Len(cut)
      BY <2>2, <2>14
    <3>2. ASSUME NEW k \in 1..Len(s)
          PROVE  /\ ~ Less(s[k], c[cut[k]].key)
                 /\ cut[k] < Len(c) => Less(s[k], c[cut[k] + 1].key)
      <4>1. CASE k = m + 1
        <5>1. cut[k] = Len(c) /\ s[k] = key /\ ~ cut[k] < Len(c)
          BY <1>2, <2>2, <2>14, <4>1
        <5> QED BY <2>2, <5>1
      <4>2. CASE k \in 1..m
        BY <1>2, <2>1, <2>14, <4>2 DEF Separated
      <4> QED BY <2>14, <4>1, <4>2
    <3> QED BY <2>14, <3>1, <3>2 DEF Separated
  <2>23. ASSUME NEW k \in 1..Len(s), cut[k] = Len(c) PROVE s[k] = key
    <3>1. CASE k = m + 1
      BY <2>14, <3>1
    <3>2. CASE k \in 1..m
      <4>1. PICK n \in 1 .. Len(cut) + 1 : n = m + 1 /\ n \in 1..Len(cut)
        BY <2>2
      <4>2. cut[k] <= Start(cut, n)
        <5>1. k \in 1..Len(cut) /\ k < n
          BY <2>2, <3>2, <4>1
        <5> QED BY <1>2, <5>1, CutsGrow
      <4>3. Start(cut, n) < cut[n] /\ Start(cut, n) \in Nat
        BY <1>2, <4>1, StartBounds
      <4> QED BY <1>2, <2>2, <2>23, <4>1, <4>2, <4>3
    <3> QED BY <2>14, <3>1, <3>2
  <2> QED BY <1>2, <2>2, <2>8, <2>14, <2>21, <2>22, <2>23
<1> QED BY <1>3, <1>4

(* An operation never makes good what failed.                              *)
LEMMA WriteOk ==
  ASSUME NEW r \in RepT, NEW b \in BuilderT, NEW w, w = WriteBlock(r, b), w \in RepT
  PROVE  /\ w.ok => r.ok
         /\ w.closed = r.closed /\ w.footer = r.footer
<1>1. CASE r.room = 0
  <2>1. w = [r EXCEPT !.ok = FALSE]
    BY <1>1 DEF WriteBlock
  <2> QED BY <2>1 DEF RepT
<1>2. CASE r.room # 0
  <2>1. PICK room, file, offset :
          w = [r EXCEPT !.room = room, !.file = file, !.offset = offset]
    BY <1>2 DEF WriteBlock
  <2> QED BY <2>1 DEF RepT
<1> QED BY <1>1, <1>2

LEMMA FlushOk ==
  ASSUME NEW r, Sound(r), NEW f, f = Flush(r)
  PROVE  /\ f.ok => r.ok
         /\ f.closed = r.closed /\ f.footer = r.footer
<1>1. r \in RepT /\ r.data_block \in BuilderT
  BY DEF Sound, RepT
<1>2. CASE ~ r.ok \/ r.data_block.entries = <<>>
  BY <1>2 DEF Flush
<1>3. CASE ~ (~ r.ok \/ r.data_block.entries = <<>>)
  <2>1. PICK w : w = WriteBlock(r, r.data_block)
    OBVIOUS
  <2>2. PICK p : f = [w EXCEPT !.data_block = EmptyBuilder, !.pending = p]
    BY <1>3, <2>1 DEF Flush
  <2>3. w \in RepT
    BY <1>1, <2>1, WriteBlockSound DEF Sound
  <2>4. f.closed = w.closed /\ f.footer = w.footer
    BY <2>2, <2>3 DEF RepT
  <2>5. w.closed = r.closed /\ w.footer = r.footer
    BY <1>1, <2>1, <2>3, WriteOk
  <2> QED BY <1>3, <2>4, <2>5
<1> QED BY <1>2, <1>3

LEMMA IndexOk ==
  ASSUME NEW r, Sound(r), NEW key, NEW x, x = IndexPending(r, key)
  PROVE  x.ok = r.ok /\ x.closed = r.closed /\ x.footer = r.footer
<1>1. CASE r.pending = None
  BY <1>1 DEF IndexPending
<1>2. CASE r.pending # None
  <2>1. PICK a : x = [r EXCEPT !.index_block = a, !.last_key = key, !.pending = None]
    BY <1>2 DEF IndexPending
  <2> QED BY <2>1 DEF Sound, RepT
<1> QED BY <1>1, <1>2

LEMMA PartStays ==
  ASSUME NEW c, NEW d, NEW a \in Nat, NEW b \in Nat, Len(c) \in Nat, b <= Len(c),
         \A i \in 1..Len(c) : d[i] = c[i]
  PROVE  Part(d, a, b) = Part(c, a, b)
<1>1. \A i \in 1 .. b - a : d[a + i] = c[a + i]
  <2> TAKE i \in 1 .. b - a
  <2>1. a + i \in 1..Len(c)
    OBVIOUS
  <2> QED BY <2>1
<1> QED BY <1>1 DEF Part

(* A new entry leaves the parts before the last what they are.             *)
LEMMA PartsStay ==
  ASSUME NEW c \in Seq(ContentT), NEW x \in ContentT, NEW d, Extended(d, c, x),
         NEW cut, Cuts(c, cut)
  PROVE  /\ Cuts(d, cut)
         /\ \A k \in 1..Len(cut) : /\ cut[k] \in Nat /\ cut[k] \in 1..Len(c)
                                   /\ Part(d, Start(cut, k), cut[k]) = Part(c, Start(cut, k), cut[k])
<1>1. Len(c) \in Nat /\ Len(d) = Len(c) + 1 /\ \A i \in 1..Len(c) : d[i] = c[i]
  BY DEF Extended
<1>2. cut \in Seq(Nat) /\ Len(cut) \in Nat
  BY DEF Cuts
<1>3. ASSUME NEW k \in 1..Len(cut)
      PROVE  /\ cut[k] \in Nat /\ cut[k] \in 1..Len(c)
             /\ Part(d, Start(cut, k), cut[k]) = Part(c, Start(cut, k), cut[k])
  <2>1. PICK j \in 1 .. Len(cut) + 1 : j = k /\ j \in 1..Len(cut)
    BY <1>2
  <2>2. Start(cut, j) \in Nat /\ cut[j] \in Nat /\ Start(cut, j) < cut[j] /\ cut[j] <= Len(c)
    BY <1>1, <2>1, StartBounds
  <2>3. PICK a \in Nat, b \in Nat : a = Start(cut, k) /\ b = cut[k] /\ b <= Len(c)
    BY <2>1, <2>2
  <2>4. Part(d, a, b) = Part(c, a, b)
    BY <1>1, <2>3, PartStays
  <2> QED BY <1>1, <2>1, <2>2, <2>3, <2>4
<1>4. Cuts(d, cut)
  <2>1. \A k \in 1..Len(cut) : cut[k] <= Len(d)
    BY <1>1, <1>3
  <2> QED BY <2>1 DEF Cuts
<1> QED BY <1>3, <1>4

LEMMA SeparatedStays ==
  ASSUME NEW c \in Seq(ContentT), NEW x \in ContentT, NEW d, Extended(d, c, x),
         NEW cut, NEW sep, Cuts(c, cut), Separated(c, cut, sep),
         \A k \in 1..Len(sep) : cut[k] = Len(c) => Less(sep[k], x.key)
  PROVE  Separated(d, cut, sep)
<1>1. /\ Len(c) \in Nat /\ Len(d) = Len(c) + 1 /\ d[Len(c) + 1] = x
      /\ \A i \in 1..Len(c) : d[i] = c[i]
  BY DEF Extended
<1>2. Len(sep) \in Nat /\ Len(cut) \in Nat /\ Len(sep) <= Len(cut)
  BY DEF Cuts, Separated
<1>3. ASSUME NEW k \in 1..Len(sep)
      PROVE  /\ ~ Less(sep[k], d[cut[k]].key)
             /\ cut[k] < Len(d) => Less(sep[k], d[cut[k] + 1].key)
  <2>1. cut[k] \in 1..Len(c)
    <3>1. k \in 1..Len(cut)
      BY <1>2
    <3> QED BY <3>1, PartsStay
  <2>2. ~ Less(sep[k], d[cut[k]].key)
    BY <1>1, <2>1 DEF Separated
  <2>3. CASE cut[k] = Len(c)
    BY <1>1, <2>2, <2>3
  <2>4. CASE cut[k] < Len(c)
    <3>1. cut[k] + 1 \in 1..Len(c)
      BY <1>1, <2>1, <2>4
    <3>2. Less(sep[k], c[cut[k] + 1].key)
      BY <2>4 DEF Separated
    <3> QED BY <1>1, <2>2, <3>1, <3>2
  <2> QED BY <1>1, <2>1, <2>3, <2>4
<1> QED BY <1>3 DEF Separated

(* The new entry makes the last part longer.                               *)
LEMMA DataExtends ==
  ASSUME NEW b, NEW c \in Seq(ContentT), NEW x \in ContentT, NEW d, Extended(d, c, x),
         NEW s \in Nat, s <= Len(c), Built(b, Part(c, s, Len(c))), NEW interval \in Nat,
         NEW a, a = BlockAdd(b, x.key, x.value, x.value, interval)
  PROVE  Built(a, Part(d, s, Len(d)))
<1>1. PICK p : p = Part(c, s, Len(c))
  OBVIOUS
<1>2. x \in ItemT /\ x.value \in Nat
  BY DEF ContentT, ItemT
<1>3. PICK n \in Nat : n = x.value
  BY <1>2
<1>4. a = BlockAdd(b, x.key, x.value, n, interval) /\ Built(b, p)
  BY <1>1, <1>3
<1>5. Built(a, Append(p, x))
  BY <1>2, <1>4, AddBuilt
<1>6. Part(d, s, Len(d)) = Append(Part(c, s, Len(c)), x)
  BY PartGrows
<1> QED BY <1>1, <1>5, <1>6

LEMMA EntryBuilds ==
  ASSUME NEW r \in RepT, NEW c \in Seq(ContentT), NEW x \in ContentT, NEW d, Extended(d, c, x),
         NEW cut, NEW sep, Cuts(c, cut), Divided(r.file, c, cut), Separated(c, cut, sep),
         Built(r.index_block, IndexItems(r.file, sep)), Len(sep) = Len(cut),
         \A k \in 1..Len(sep) : cut[k] = Len(c) => Less(sep[k], x.key),
         Len(r.file) = Len(cut), r.pending = None,
         Built(r.data_block, Part(d, Start(cut, Len(cut) + 1), Len(d))),
         r.last_key = x.key
  PROVE  Building(r, d, cut, sep)
<1>1. /\ d \in Seq(ContentT) /\ Len(d) = Len(c) + 1 /\ Len(c) \in Nat
      /\ d[Len(c) + 1] = x
  BY DEF Extended
<1>2. Len(cut) \in Nat
  BY DEF Cuts
<1>3. Cuts(d, cut)
  BY PartsStay
<1>4. Divided(r.file, d, cut)
  <2>1. \A k \in 1..Len(cut) :
          Part(d, Start(cut, k), cut[k]) = Part(c, Start(cut, k), cut[k])
    BY PartsStay
  <2> QED BY <2>1 DEF Divided
<1>5. Separated(d, cut, sep)
  BY SeparatedStays
<1>6. Len(cut) > 0 => cut[Len(cut)] < Len(d)
  <2> HAVE Len(cut) > 0
  <2>1. PICK m \in 1..Len(cut) : m = Len(cut)
    BY <1>2
  <2>2. cut[m] \in 1..Len(c)
    BY PartsStay
  <2> QED BY <1>1, <2>1, <2>2
<1>7. Filed(r, d, cut, sep)
  BY <1>3, <1>4, <1>5, <1>6 DEF Filed
<1>8. r.last_key = LastKey(d)
  <2>1. Len(d) + 1 # 1 /\ (Len(d) + 1) - 1 = Len(d)
    BY <1>1
  <2> QED BY <1>1, <2>1 DEF LastKey, KeyBefore
<1> QED BY <1>7, <1>8 DEF Building

LEMMA LastKeyIs ==
  ASSUME NEW c \in Seq(ContentT), Len(c) > 0
  PROVE  LastKey(c) = c[Len(c)].key /\ c[Len(c)].key \in Seq(Nat)
<1>1. Len(c) \in Nat /\ Len(c) \in 1..Len(c) /\ Len(c) + 1 # 1 /\ (Len(c) + 1) - 1 = Len(c)
  OBVIOUS
<1>2. c[Len(c)] \in ContentT
  BY <1>1
<1> QED BY <1>1, <1>2 DEF LastKey, KeyBefore, ContentT

(* The index entry that waits, under a separator, and the new entry.       *)
LEMMA EnterBuilds ==
  ASSUME NEW r, Sound(r), NEW c \in Seq(ContentT), NEW cut, NEW sep, Building(r, c, cut, sep),
         NEW x \in ContentT, NEW d, Extended(d, c, x),
         NEW sk \in Seq(Nat),
         Len(c) > 0 => ~ Less(sk, c[Len(c)].key) /\ Less(sk, x.key),
         NEW q, q = IndexPending(r, sk), NEW interval \in Nat,
         NEW y \in RepT, y.file = q.file, y.pending = q.pending, y.last_key = x.key,
         y.index_block = q.index_block,
         y.data_block = BlockAdd(q.data_block, x.key, x.value, x.value, interval)
  PROVE  \E s : Building(y, d, cut, s)
<1>1. Filed(r, c, cut, sep) /\ Len(r.file) = Len(cut) /\ r \in RepT
  BY DEF Building, Sound
<1>2. /\ q.file = r.file /\ q.data_block = r.data_block /\ q.pending = None
      /\ \E s : /\ Cuts(c, cut) /\ Divided(q.file, c, cut) /\ Separated(c, cut, s)
                /\ Built(q.index_block, IndexItems(q.file, s)) /\ Len(s) = Len(cut)
                /\ \A k \in 1..Len(s) : cut[k] = Len(c) => s[k] = sk
  <2>1. Len(c) > 0 => ~ Less(sk, c[Len(c)].key)
    OBVIOUS
  <2> QED BY <1>1, <2>1, IndexBuilds
<1>3. PICK s : /\ Cuts(c, cut) /\ Divided(q.file, c, cut) /\ Separated(c, cut, s)
               /\ Built(q.index_block, IndexItems(q.file, s)) /\ Len(s) = Len(cut)
               /\ \A k \in 1..Len(s) : cut[k] = Len(c) => s[k] = sk
  BY <1>2
<1>4. \A k \in 1..Len(s) : cut[k] = Len(c) => Less(s[k], x.key)
  <2> SUFFICES ASSUME NEW k \in 1..Len(s), cut[k] = Len(c) PROVE Less(s[k], x.key)
    OBVIOUS
  <2>1. cut[k] \in 1..Len(c)
    <3>1. k \in 1..Len(cut)
      BY <1>3
    <3> QED BY <1>3, <3>1, PartsStay
  <2>2. Len(c) > 0
    BY <2>1
  <2> QED BY <1>3, <2>2
<1>5. PICK b \in Nat : b = Start(cut, Len(cut) + 1) /\ b <= Len(c)
  BY <1>1, BuildingFacts
<1>6. Built(y.data_block, Part(d, b, Len(d)))
  <2>1. Built(q.data_block, Part(c, b, Len(c)))
    BY <1>2, <1>5 DEF Building
  <2>2. b <= Len(c)
    BY <1>5
  <2> QED BY <2>1, <2>2, DataExtends
<1>7. Building(y, d, cut, s)
  <2>1. Divided(y.file, c, cut) /\ Built(y.index_block, IndexItems(y.file, s))
    BY <1>3
  <2>2. Len(y.file) = Len(cut) /\ y.pending = None
    BY <1>1, <1>2
  <2>3. Built(y.data_block, Part(d, Start(cut, Len(cut) + 1), Len(d)))
    BY <1>5, <1>6
  <2> QED BY <1>3, <1>4, <2>1, <2>2, <2>3, EntryBuilds
<1> QED BY <1>7

(* Add (table_builder.cc:103).                                             *)
LEMMA AddBuilds ==
  ASSUME NEW r, Sound(r), NEW c \in Seq(ContentT), NEW x \in ContentT, NEW d, Extended(d, c, x),
         Len(c) > 0 => Less(c[Len(c)].key, x.key), TableAssumption,
         r.ok => \E cut, sep : Building(r, c, cut, sep),
         NEW f, f = AddTo(r, x.key, x.value)
  PROVE  /\ f.closed = r.closed /\ f.footer = r.footer
         /\ f.ok => \E cut, sep : Building(f, d, cut, sep)
<1>1. PICK key \in Seq(Nat), n \in Nat : key = x.key /\ n = x.value
  BY DEF ContentT
<1>2. PICK o \in OptionSets : o = r.options
  BY DEF Sound, RepT
<1>3. PICK r1 : /\ r1 = IF r.num_entries > 0 /\ Len(key) + n >= 2 * o.block_size
                        THEN Flush(r) ELSE r
                /\ r1 = r \/ r1 = Flush(r)
  OBVIOUS
<1>4. /\ Sound(r1) /\ (r1.ok => r.ok) /\ r1.closed = r.closed /\ r1.footer = r.footer
      /\ r1.last_key \in Seq(Nat)
  <2>1. Sound(r1) /\ (r1.ok => r.ok) /\ r1.closed = r.closed /\ r1.footer = r.footer
    BY <1>3, FlushSound, FlushOk
  <2> QED BY <2>1 DEF Sound, RepT
<1>5. r1.ok => \E cut, sep : Building(r1, c, cut, sep)
  <2> HAVE r1.ok
  <2>1. PICK cut, sep : Building(r, c, cut, sep)
    BY <1>4
  <2> QED BY <1>3, <2>1, FlushBuilds
<1>6. PICK sk \in Seq(Nat) : sk = FindShortestSeparator(r1.last_key, key)
  BY <1>4, SeparatorType
<1>7. PICK r2 : r2 = IndexPending(r1, sk)
  OBVIOUS
<1>8. /\ Sound(r2) /\ r2.ok = r1.ok /\ r2.closed = r1.closed /\ r2.footer = r1.footer
      /\ r2 \in RepT /\ r2.data_block \in BuilderT /\ r2.num_entries \in Nat
  <2>1. Sound(r2) /\ r2.ok = r1.ok /\ r2.closed = r1.closed /\ r2.footer = r1.footer
    BY <1>4, <1>7, IndexPendingSound, IndexOk
  <2> QED BY <2>1 DEF Sound, RepT
<1>9. PICK interval \in Nat : interval = o.block_restart_interval
  BY DEF TableAssumption
<1>10. PICK a : a = BlockAdd(r2.data_block, key, n, n, interval)
  OBVIOUS
<1>11. a \in BuilderT
  <2>1. n \in Nat \cup HandleT
    OBVIOUS
  <2> QED BY <1>8, <1>10, <2>1, BlockAddAppends
<1>12. PICK r3 : r3 = [r2 EXCEPT !.last_key = key, !.num_entries = r2.num_entries + 1,
                                 !.data_block = a]
  OBVIOUS
<1>13. PICK m \in Nat : m = r2.num_entries + 1
  BY <1>8
<1>14. r3 = [r2 EXCEPT !.last_key = key, !.num_entries = m, !.data_block = a]
  BY <1>12, <1>13
<1>15. /\ r3 \in RepT /\ r3.file = r2.file /\ r3.offset = r2.offset
       /\ r3.footer = r2.footer /\ r3.pending = r2.pending /\ r3.closed = r2.closed
       /\ r3.index_block = r2.index_block /\ r3.last_key = key /\ r3.data_block = a
       /\ r3.ok = r2.ok
  BY <1>8, <1>11, <1>14 DEF RepT
<1>16. Sound(r3)
  <2>1. LeadsInto(r3.index_block, r2)
    BY <1>8, <1>15 DEF Sound
  <2> QED BY <1>8, <1>15, <2>1, SoundDepends
<1>17. f = IF BlockSize(r3.data_block) >= o.block_size THEN Flush(r3) ELSE r3
  BY <1>1, <1>2, <1>3, <1>6, <1>7, <1>9, <1>10, <1>12 DEF AddTo
<1>18. f = r3 \/ f = Flush(r3)
  BY <1>17
<1>19. (f.ok => r3.ok) /\ f.closed = r3.closed /\ f.footer = r3.footer
  BY <1>16, <1>18, FlushOk
<1>20. r3.ok => \E cut, sep : Building(r3, d, cut, sep)
  <2> HAVE r3.ok
  <2>1. PICK cut, sep : Building(r1, c, cut, sep)
    BY <1>5, <1>8, <1>15
  <2>2. Len(c) > 0 => ~ Less(sk, c[Len(c)].key) /\ Less(sk, key)
    <3> HAVE Len(c) > 0
    <3>1. r1.last_key = c[Len(c)].key
      BY <2>1, LastKeyIs DEF Building
    <3>2. MaxByte \in Nat
      BY DEF TableAssumption
    <3> QED BY <1>1, <1>4, <1>6, <3>1, <3>2, SeparatorSeparates
  <2>3. r3.data_block = BlockAdd(r2.data_block, x.key, x.value, x.value, interval)
    BY <1>1, <1>10, <1>15
  <2>4. r3.last_key = x.key
    BY <1>1, <1>15
  <2>5. Len(c) > 0 => ~ Less(sk, c[Len(c)].key) /\ Less(sk, x.key)
    BY <1>1, <2>2
  <2>6. /\ Sound(r1) /\ r3 \in RepT /\ r3.file = r2.file /\ r3.pending = r2.pending
        /\ r3.index_block = r2.index_block
    BY <1>4, <1>15
  <2>7. \E s : Building(r3, d, cut, s)
    BY <1>7, <2>1, <2>3, <2>4, <2>5, <2>6, EnterBuilds
  <2> QED BY <2>7
<1>21. d \in Seq(ContentT)
  BY DEF Extended
<1>22. f.ok => \E cut, sep : Building(f, d, cut, sep)
  <2> HAVE f.ok
  <2>1. PICK cut, sep : Building(r3, d, cut, sep)
    BY <1>19, <1>20
  <2>2. CASE f = r3
    BY <2>1, <2>2
  <2>3. CASE f = Flush(r3)
    BY <1>16, <1>21, <2>1, <2>3, FlushBuilds
  <2> QED BY <1>18, <2>2, <2>3
<1> QED BY <1>4, <1>8, <1>15, <1>19, <1>22

(* Finish (table_builder.cc:207): the index that the footer leads to has an *)
(* entry for every block.                                                  *)
LEMMA FinishedWhenWritten ==
  ASSUME NEW r \in RepT, NEW c \in Seq(ContentT), NEW cut, NEW sep,
         Cuts(c, cut), Divided(r.file, c, cut), Separated(c, cut, sep),
         Built(r.index_block, IndexItems(r.file, sep)), Len(sep) = Len(cut),
         Start(cut, Len(cut) + 1) = Len(c),
         r.index_block \in BuilderT, NEW w, w = WriteBlock(r, r.index_block), w.ok,
         NEW y, y.file = w.file, y.footer.index = HandleOf(r, r.index_block)
  PROVE  Finished(y, c, cut, sep)
<1>1. /\ Len(w.file) = Len(r.file) + 1
      /\ \A i \in 1..Len(r.file) : w.file[i] = r.file[i]
      /\ w.file[Len(r.file) + 1].handle = HandleOf(r, r.index_block)
      /\ w.file[Len(r.file) + 1].contents = Contents(r.index_block)
  BY WriteAppends
<1>2. /\ Len(r.file) \in Nat /\ Len(sep) \in Nat /\ Len(cut) \in Nat
      /\ Len(cut) <= Len(r.file) /\ Len(sep) <= Len(r.file)
  BY DEF RepT, Cuts, Separated, Divided
<1>3. Divided(y.file, c, cut)
  <2>1. Len(cut) <= Len(y.file) /\ \A k \in 1..Len(cut) : y.file[k] = r.file[k]
    BY <1>1, <1>2
  <2> QED BY <2>1 DEF Divided
<1>4. IndexItems(y.file, sep) = IndexItems(r.file, sep)
  BY <1>1, <1>2, IndexItemsStay
<1>5. Len(r.file) + 1 \in 1..Len(y.file)
  BY <1>1, <1>2
<1>6. Encodes(y.file[Len(r.file) + 1].contents, IndexItems(y.file, sep))
  BY <1>1, <1>4 DEF Built
<1> QED BY <1>1, <1>3, <1>5, <1>6 DEF Finished

LEMMA FinishBuilds ==
  ASSUME Sound(rep), NEW c \in Seq(ContentT), rep.footer = None,
         rep.ok => \E cut, sep : Building(rep, c, cut, sep), Finish
  PROVE  /\ rep'.closed = TRUE
         /\ rep'.footer # None => \E cut, sep : Finished(rep', c, cut, sep)
<1>1. PICK f : f = Flush(rep)
  OBVIOUS
<1>2. PICK r1 : r1 = [f EXCEPT !.closed = TRUE]
  OBVIOUS
<1>3. PICK r2 : r2 = IF r1.ok THEN WriteBlock(r1, EmptyBuilder) ELSE r1
  OBVIOUS
<1>4. PICK key : key = FindShortSuccessor(r2.last_key)
  OBVIOUS
<1>5. PICK r3 : r3 = IF r2.ok THEN IndexPending(r2, key) ELSE r2
  OBVIOUS
<1>6. PICK w : w = WriteBlock(r3, r3.index_block)
  OBVIOUS
<1>7. PICK r4 : r4 = IF r3.ok THEN [w EXCEPT !.index_block = EmptyBuilder] ELSE r3
  OBVIOUS
<1>8. PICK t : t = [metaindex |-> HandleOf(r1, EmptyBuilder), index |-> HandleOf(r3, r3.index_block)]
  OBVIOUS
<1>9. rep' = IF ~r4.ok THEN r4
             ELSE IF r4.room = 0 THEN [r4 EXCEPT !.ok = FALSE]
             ELSE [r4 EXCEPT !.room = r4.room - 1, !.footer = t,
                             !.offset = r4.offset + FooterSize]
  BY <1>1, <1>2, <1>3, <1>4, <1>5, <1>6, <1>7, <1>8 DEF Finish
<1>10. /\ Sound(f) /\ (f.ok => rep.ok) /\ f.footer = None /\ f \in RepT
       /\ LeadsInto(f.index_block, f)
  <2>1. Sound(f) /\ (f.ok => rep.ok) /\ f.footer = None
    BY <1>1, FlushSound, FlushOk
  <2> QED BY <2>1 DEF Sound
<1>11. /\ r1 \in RepT /\ r1.file = f.file /\ r1.offset = f.offset /\ r1.ok = f.ok
       /\ r1.footer = f.footer /\ r1.pending = f.pending /\ r1.closed = TRUE
       /\ r1.index_block = f.index_block /\ r1.last_key = f.last_key
  BY <1>2, <1>10 DEF RepT
<1>12. Sound(r1)
  BY <1>10, <1>11, SoundDepends
<1>13. /\ Sound(r2) /\ r2 \in RepT /\ r2.last_key \in Seq(Nat)
       /\ r2.closed = TRUE /\ r2.footer = None /\ (r2.ok => r1.ok)
  <2>1. CASE r1.ok
    <3>1. r2 = WriteBlock(r1, EmptyBuilder)
      BY <1>3, <2>1
    <3>2. Sound(r2)
      BY <1>12, <3>1, EmptyBuilderType, WriteBlockSound
    <3>3. r2 \in RepT /\ r2.last_key \in Seq(Nat)
      BY <3>2 DEF Sound, RepT
    <3>4. r2.closed = r1.closed /\ r2.footer = r1.footer
      BY <1>11, <3>1, <3>3, EmptyBuilderType, WriteOk
    <3> QED BY <1>10, <1>11, <2>1, <3>2, <3>3, <3>4
  <2>2. CASE ~ r1.ok
    <3>1. r2 = r1
      BY <1>3, <2>2
    <3>2. r2.last_key \in Seq(Nat)
      BY <1>11, <3>1 DEF RepT
    <3> QED BY <1>10, <1>11, <1>12, <3>1, <3>2
  <2> QED BY <2>1, <2>2
<1>14. key \in Seq(Nat) /\ ~ Less(key, r2.last_key)
  BY <1>4, <1>13, SuccessorIsPast
<1>15. /\ Sound(r3) /\ r3 \in RepT /\ r3.index_block \in BuilderT
       /\ r3.closed = TRUE /\ r3.footer = None /\ (r3.ok => r2.ok)
  <2>1. CASE r2.ok
    <3>1. r3 = IndexPending(r2, key)
      BY <1>5, <2>1
    <3>2. Sound(r3) /\ r3.closed = r2.closed /\ r3.footer = r2.footer
      BY <1>13, <1>14, <3>1, IndexPendingSound, IndexOk
    <3> QED BY <1>13, <2>1, <3>2 DEF Sound, RepT
  <2>2. CASE ~ r2.ok
    <3>1. r3 = r2
      BY <1>5, <2>2
    <3> QED BY <1>13, <3>1 DEF Sound, RepT
  <2> QED BY <2>1, <2>2
<1>16. w \in RepT /\ (w.ok => r3.ok) /\ w.closed = TRUE /\ w.footer = None
  <2>1. w \in RepT
    BY <1>6, <1>15, WriteBlockSound DEF Sound
  <2> QED BY <1>6, <1>15, <2>1, WriteOk
<1>17. /\ r4 \in RepT /\ r4.closed = TRUE /\ r4.footer = None
       /\ r4.ok => r3.ok /\ w.ok /\ r4.file = w.file
  <2>1. CASE r3.ok
    <3>1. r4 = [w EXCEPT !.index_block = EmptyBuilder]
      BY <1>7, <2>1
    <3>2. /\ r4 \in RepT /\ r4.closed = w.closed /\ r4.footer = w.footer /\ r4.ok = w.ok
          /\ r4.file = w.file
      BY <1>16, <3>1, EmptyBuilderType DEF RepT
    <3> QED BY <1>16, <2>1, <3>2
  <2>2. CASE ~ r3.ok
    BY <1>7, <1>15, <2>2
  <2> QED BY <2>1, <2>2
<1>18. rep'.closed = TRUE
  BY <1>9, <1>17 DEF RepT
<1>19. rep'.footer # None => r4.ok /\ rep'.footer = t /\ rep'.file = r4.file
  <2> HAVE rep'.footer # None
  <2>1. CASE ~ r4.ok
    BY <1>9, <1>17, <2>1
  <2>2. CASE r4.ok /\ r4.room = 0
    <3>1. rep' = [r4 EXCEPT !.ok = FALSE]
      BY <1>9, <2>2
    <3>2. rep'.footer = r4.footer
      BY <1>17, <3>1 DEF RepT
    <3> QED BY <1>17, <3>2
  <2>3. CASE r4.ok /\ r4.room # 0
    <3>1. rep' = [r4 EXCEPT !.room = r4.room - 1, !.footer = t, !.offset = r4.offset + FooterSize]
      BY <1>9, <2>3
    <3> QED BY <1>17, <2>3, <3>1 DEF RepT
  <2> QED BY <2>1, <2>2, <2>3
<1>20. ASSUME r4.ok, rep'.footer = t, rep'.file = r4.file
       PROVE  \E cut, sep : Finished(rep', c, cut, sep)
  <2>1. r3.ok /\ r2.ok /\ r1.ok /\ f.ok /\ w.ok /\ rep.ok
    BY <1>10, <1>11, <1>13, <1>15, <1>17, <1>20
  <2>2. PICK cut0, sep : Building(rep, c, cut0, sep)
    BY <2>1
  <2>3. \E d : Building(f, c, d, sep) /\ Start(d, Len(d) + 1) = Len(c)
    BY <1>1, <2>1, <2>2, FlushBuilds
  <2>4. PICK cut : Building(f, c, cut, sep) /\ Start(cut, Len(cut) + 1) = Len(c)
    BY <2>3
  <2>5. Filed(f, c, cut, sep) /\ f.last_key = LastKey(c)
    BY <2>4 DEF Building
  <2>6. /\ r2.ok /\ r2 = WriteBlock(r1, EmptyBuilder) /\ EmptyBuilder \in BuilderT
    BY <1>3, <2>1, EmptyBuilderType
  <2>7. /\ Len(r2.file) = Len(r1.file) + 1
        /\ \A i \in 1..Len(r1.file) : r2.file[i] = r1.file[i]
        /\ r2.index_block = r1.index_block /\ r2.pending = r1.pending
        /\ r2.last_key = r1.last_key
    BY <1>11, <2>6, WriteAppends
  <2>8. Filed(r2, c, cut, sep)
    <3>1. Len(f.file) \in Nat
      BY <1>10 DEF RepT
    <3>2. Len(r2.file) \in Nat /\ Len(f.file) <= Len(r2.file)
      BY <1>11, <2>7, <3>1
    <3> QED BY <1>10, <1>11, <2>5, <2>7, <3>2, FiledGrows
  <2>9. Len(c) > 0 => ~ Less(key, c[Len(c)].key)
    <3> HAVE Len(c) > 0
    <3>1. LastKey(c) = c[Len(c)].key
      BY LastKeyIs
    <3> QED BY <1>11, <1>14, <2>5, <2>7, <3>1
  <2>10. r3 = IndexPending(r2, key)
    BY <1>5, <2>1
  <2>11. \E s : /\ Cuts(c, cut) /\ Divided(r3.file, c, cut) /\ Separated(c, cut, s)
                /\ Built(r3.index_block, IndexItems(r3.file, s)) /\ Len(s) = Len(cut)
                /\ \A k \in 1..Len(s) : cut[k] = Len(c) => s[k] = key
    BY <1>13, <1>14, <2>8, <2>9, <2>10, IndexBuilds
  <2>12. PICK s : /\ Cuts(c, cut) /\ Divided(r3.file, c, cut) /\ Separated(c, cut, s)
                  /\ Built(r3.index_block, IndexItems(r3.file, s)) /\ Len(s) = Len(cut)
    BY <2>11
  <2>13. PICK y : y = rep'
    OBVIOUS
  <2>14. y.file = w.file /\ y.footer.index = HandleOf(r3, r3.index_block)
    BY <1>8, <1>17, <1>20, <2>13
  <2>15. Finished(y, c, cut, s)
    BY <1>6, <1>15, <2>1, <2>4, <2>12, <2>14, FinishedWhenWritten
  <2> QED BY <2>13, <2>15
<1> QED BY <1>18, <1>19, <1>20

-----------------------------------------------------------------------------
(* Finding entries in a finished table.                                    *)

PartOf(c, cut, k) == Part(c, Start(cut, k), cut[k])

(* All there is to know of a finished file: its m parts and its index.     *)
Tabled(r, c, cut, sep, m) ==
  /\ c \in Seq(ContentT) /\ Sorted(c)
  /\ Finished(r, c, cut, sep) /\ m = Len(cut)

LEMMA TableFacts ==
  ASSUME NEW r \in RepT, NEW c, NEW cut, NEW sep, NEW m, Tabled(r, c, cut, sep, m)
  PROVE  /\ c \in Seq(ContentT) /\ Sorted(c) /\ Len(c) \in Nat
         /\ cut \in Seq(Nat) /\ Len(cut) = m /\ m \in Nat
         /\ sep \in Seq(Seq(Nat)) /\ Len(sep) = m
         /\ r.file \in Seq(WrittenT) /\ Len(r.file) \in Nat /\ m <= Len(r.file)
         /\ Cuts(c, cut) /\ Start(cut, m + 1) = Len(c)
         /\ \A k \in 1..m : k \in 1..Len(r.file) /\ sep[k] \in Seq(Nat)
                            /\ Encodes(r.file[k].contents, PartOf(c, cut, k))
<1>1. c \in Seq(ContentT) /\ Sorted(c) /\ Finished(r, c, cut, sep) /\ m = Len(cut)
  BY DEF Tabled
<1>2. /\ Cuts(c, cut) /\ Divided(r.file, c, cut) /\ Separated(c, cut, sep)
      /\ Len(sep) = Len(cut) /\ Start(cut, Len(cut) + 1) = Len(c)
  BY <1>1 DEF Finished
<1>3. cut \in Seq(Nat) /\ Len(cut) \in Nat /\ sep \in Seq(Seq(Nat)) /\ Len(c) \in Nat
  BY <1>1, <1>2 DEF Cuts, Separated
<1>4. r.file \in Seq(WrittenT) /\ Len(r.file) \in Nat
  BY DEF RepT
<1>5. /\ m <= Len(r.file)
      /\ \A k \in 1..m : Encodes(r.file[k].contents, PartOf(c, cut, k))
  BY <1>1, <1>2 DEF Divided, PartOf
<1>6. \A k \in 1..m : k \in 1..Len(r.file) /\ sep[k] \in Seq(Nat)
  BY <1>1, <1>2, <1>3, <1>4, <1>5
<1> QED BY <1>1, <1>2, <1>3, <1>4, <1>5, <1>6

LEMMA PartOfIs ==
  ASSUME NEW c \in Seq(ContentT), Sorted(c), NEW cut, Cuts(c, cut), NEW k \in 1..Len(cut),
         NEW p, p = PartOf(c, cut, k)
  PROVE  /\ Start(cut, k) \in Nat /\ cut[k] \in Nat /\ Start(cut, k) < cut[k]
         /\ cut[k] <= Len(c) /\ Start(cut, k + 1) = cut[k]
         /\ p \in Seq(ItemT) /\ Sorted(p) /\ Len(p) = cut[k] - Start(cut, k) /\ Len(p) \in Nat
         /\ \A i \in 1..Len(p) : p[i] = c[Start(cut, k) + i]
                                 /\ Start(cut, k) + i \in 1..Len(c)
<1>1. Len(c) \in Nat /\ Len(cut) \in Nat
  BY DEF Cuts
<1>2. PICK j \in 1 .. Len(cut) + 1 : j = k /\ j \in 1..Len(cut)
  BY <1>1
<1>3. /\ Start(cut, j) \in Nat /\ cut[j] \in Nat /\ Start(cut, j) < cut[j] /\ cut[j] <= Len(c)
      /\ Start(cut, j + 1) = cut[j]
  BY <1>1, <1>2, StartBounds
<1>4. PICK a \in Nat, b \in Nat : a = Start(cut, k) /\ b = cut[k] /\ a < b /\ b <= Len(c)
  BY <1>2, <1>3
<1>5. a <= b /\ b <= Len(c) /\ p = Part(c, a, b)
  BY <1>4 DEF PartOf
<1>6. p \in Seq(ItemT) /\ Len(p) = b - a /\ \A i \in 1 .. b - a : p[i] = c[a + i] /\ a + i \in 1..Len(c)
  BY <1>5, PartIs
<1>7. Sorted(p)
  BY <1>5, PartSorted
<1>8. Len(p) \in Nat
  BY <1>6
<1> QED BY <1>2, <1>3, <1>4, <1>6, <1>7, <1>8

LEMMA ContentType ==
  ASSUME NEW c \in Seq(ContentT), NEW i \in 1..Len(c)
  PROVE  c[i] \in ContentT /\ c[i].key \in Seq(Nat) /\ c[i].value \in Nat
<1>1. c[i] \in ContentT
  OBVIOUS
<1> QED BY <1>1 DEF ContentT

(* The separators keep the order of the parts.                             *)
LEMMA SeparatorsSorted ==
  ASSUME NEW c \in Seq(ContentT), Sorted(c), NEW cut, Cuts(c, cut), NEW sep, Separated(c, cut, sep),
         NEW i \in 1..Len(sep), NEW j \in 1..Len(sep), i < j
  PROVE  Less(sep[i], sep[j])
<1>1. /\ Len(c) \in Nat /\ Len(cut) \in Nat /\ Len(sep) <= Len(cut)
      /\ sep[i] \in Seq(Nat) /\ sep[j] \in Seq(Nat)
  BY DEF Cuts, Separated
<1>2. Len(sep) \in Nat
  BY DEF Separated
<1>3. PICK k \in 1 .. Len(cut) + 1 : k = j /\ k \in 1..Len(cut)
  BY <1>1, <1>2
<1>4. i \in 1..Len(cut)
  BY <1>1, <1>2
<1>5. Start(cut, k) \in Nat /\ cut[k] \in Nat /\ Start(cut, k) < cut[k] /\ cut[k] <= Len(c)
  BY <1>1, <1>3, StartBounds
<1>6. cut[i] <= Start(cut, k) /\ cut[i] \in Nat
  <2>1. cut[i] <= Start(cut, k)
    BY <1>1, <1>3, <1>4, CutsGrow
  <2>2. cut[i] \in Nat
    BY <1>4 DEF Cuts
  <2> QED BY <2>1, <2>2
<1>7. cut[i] < Len(c) /\ cut[i] + 1 \in 1..Len(c) /\ cut[k] \in 1..Len(c) /\ cut[i] + 1 <= cut[k]
  BY <1>1, <1>5, <1>6
<1>8. Less(sep[i], c[cut[i] + 1].key) /\ ~ Less(sep[j], c[cut[k]].key)
  BY <1>3, <1>7 DEF Separated
<1>9. PICK a \in Seq(Nat) : a = c[cut[i] + 1].key
  BY <1>7, ContentType
<1>10. PICK b \in Seq(Nat) : b = c[cut[k]].key
  BY <1>7, ContentType
<1>11. a = b \/ Less(a, b)
  <2>1. cut[i] + 1 = cut[k] \/ cut[i] + 1 < cut[k]
    BY <1>5, <1>6, <1>7
  <2>2. CASE cut[i] + 1 = cut[k]
    BY <1>9, <1>10, <2>2
  <2>3. CASE cut[i] + 1 < cut[k]
    BY <1>7, <1>9, <1>10, <2>3 DEF Sorted
  <2> QED BY <2>1, <2>2, <2>3
<1>12. Less(sep[i], b)
  <2>1. CASE a = b
    BY <1>8, <1>9, <2>1
  <2>2. CASE Less(a, b)
    BY <1>1, <1>8, <1>9, <2>2, LessTransitive
  <2> QED BY <1>11, <2>1, <2>2
<1> QED BY <1>1, <1>8, <1>10, <1>12, LessThrough

LEMMA IndexIs ==
  ASSUME NEW r \in RepT, NEW c, NEW cut, NEW sep, NEW m, Tabled(r, c, cut, sep, m),
         NEW x, x = IndexItems(r.file, sep)
  PROVE  /\ x \in Seq(ItemT) /\ Len(x) = m /\ Sorted(x)
         /\ \A k \in 1..m : x[k].key = sep[k] /\ x[k].value = r.file[k].handle
<1>1. /\ r.file \in Seq(WrittenT) /\ sep \in Seq(Seq(Nat)) /\ Len(sep) = m /\ m <= Len(r.file)
      /\ c \in Seq(ContentT) /\ Sorted(c) /\ Cuts(c, cut)
  BY TableFacts
<1>2. PICK file \in Seq(WrittenT) : file = r.file
  BY <1>1
<1>3. PICK s \in Seq(Seq(Nat)) : s = sep /\ Len(s) <= Len(file)
  BY <1>1, <1>2
<1>4. /\ x \in Seq(ItemT) /\ Len(x) = Len(sep)
      /\ \A k \in 1..Len(sep) : x[k].key = sep[k] /\ x[k].value = file[k].handle
  <2>1. PICK y : y = IndexItems(file, s)
    OBVIOUS
  <2>2. /\ y \in Seq(ItemT) /\ Len(y) = Len(s)
        /\ \A k \in 1..Len(s) : y[k] = [key |-> s[k], value |-> file[k].handle]
    BY <1>3, <2>1, IndexItemsAre
  <2>3. x = y
    BY <1>2, <1>3, <2>1
  <2>4. ASSUME NEW k \in 1..Len(s) PROVE y[k].key = s[k] /\ y[k].value = file[k].handle
    <3>1. PICK e : e = y[k] /\ e = [key |-> s[k], value |-> file[k].handle]
      BY <2>2
    <3>2. e.key = s[k] /\ e.value = file[k].handle
      BY <3>1
    <3> QED BY <3>1, <3>2
  <2> QED BY <1>3, <2>2, <2>3, <2>4
<1>5. Separated(c, cut, sep)
  BY DEF Tabled, Finished
<1>6. \A i, j \in 1..Len(sep) : i < j => Less(sep[i], sep[j])
  BY <1>1, <1>5, SeparatorsSorted
<1>7. Sorted(x)
  BY <1>4, <1>6 DEF Sorted
<1> QED BY <1>1, <1>2, <1>4, <1>7

(* The part that the index leads to is the one to look in.                 *)
LEMMA IndexFinds ==
  ASSUME NEW c \in Seq(ContentT), Sorted(c), NEW cut, Cuts(c, cut), NEW sep, Separated(c, cut, sep),
         NEW m, m = Len(cut), m = Len(sep), NEW key \in Seq(Nat), NEW p \in 1 .. m + 1,
         \A k \in 1..m : Less(sep[k], key) <=> k < p
  PROVE  /\ \A i \in 1..Start(cut, p) : Less(c[i].key, key)
         /\ p <= m => \A i \in cut[p] + 1 .. Len(c) : Less(sep[p], c[i].key) /\ ~ Less(c[i].key, key)
<1>1. /\ Len(c) \in Nat /\ m \in Nat /\ cut \in Seq(Nat) /\ sep \in Seq(Seq(Nat))
      /\ Start(cut, p) \in Nat /\ Start(cut, p) <= Len(c)
  <2>1. Len(c) \in Nat /\ m \in Nat /\ cut \in Seq(Nat) /\ sep \in Seq(Seq(Nat))
    BY DEF Cuts, Separated
  <2> QED BY <2>1, StartBounds
<1>2. ASSUME NEW i \in 1..Start(cut, p) PROVE Less(c[i].key, key)
  <2>1. p # 1
    BY <1>2 DEF Start
  <2>2. PICK k \in 1..m : k = p - 1
    BY <1>1, <2>1
  <2>3. Start(cut, p) = cut[k] /\ k < p /\ cut[k] \in 1..Len(c) /\ i \in 1..Len(c)
    <3>1. Start(cut, p) = cut[k] /\ k < p
      BY <1>1, <2>1, <2>2 DEF Start
    <3>2. PICK n \in Nat : n = Start(cut, p) /\ n <= Len(c)
      BY <1>1
    <3>3. i \in 1..n
      BY <1>2, <3>2
    <3>4. n \in 1..Len(c) /\ i \in 1..Len(c)
      BY <1>1, <3>2, <3>3
    <3> QED BY <3>1, <3>2, <3>4
  <2>4. PICK s \in Seq(Nat) : s = sep[k]
    BY <1>1
  <2>5. Less(s, key) /\ ~ Less(s, c[cut[k]].key)
    BY <2>2, <2>3, <2>4 DEF Separated
  <2>6. PICK b \in Seq(Nat) : b = c[cut[k]].key
    BY <2>3, ContentType
  <2>7. PICK a \in Seq(Nat) : a = c[i].key
    BY <2>3, ContentType
  <2>8. Less(b, key)
    <3>1. Less(s, b) \/ Less(b, s) \/ s = b
      BY LessTotal
    <3>2. CASE Less(b, s)
      BY <2>5, <3>2, LessTransitive
    <3> QED BY <2>5, <2>6, <3>1, <3>2
  <2>9. a = b \/ Less(a, b)
    <3>1. i = cut[k] \/ i < cut[k]
      BY <1>1, <2>3
    <3>2. CASE i < cut[k]
      BY <2>3, <2>6, <2>7, <3>2 DEF Sorted
    <3> QED BY <2>6, <2>7, <3>1, <3>2
  <2> QED BY <2>7, <2>8, <2>9, LessTransitive
<1>3. ASSUME p <= m, NEW i \in cut[p] + 1 .. Len(c)
      PROVE  Less(sep[p], c[i].key) /\ ~ Less(c[i].key, key)
  <2>1. PICK k \in 1..m : k = p
    BY <1>1, <1>3
  <2>2. cut[k] \in Nat
    <3>1. k \in 1..Len(cut) /\ cut \in Seq(Nat)
      BY <1>1
    <3> QED BY <3>1, ElementOfSeq
  <2>3. PICK n \in Nat : n = cut[k]
    BY <2>2
  <2>4. i \in n + 1 .. Len(c)
    BY <1>3, <2>1, <2>3
  <2>5. PICK l \in Nat : l = Len(c)
    BY <1>1
  <2>6. i \in n + 1 .. l
    BY <2>4, <2>5
  <2>7. n < l /\ n + 1 \in 1..l /\ i \in 1..l
    BY <2>6
  <2>8. n < Len(c) /\ n + 1 \in 1..Len(c) /\ i \in 1..Len(c)
    BY <2>5, <2>7
  <2>9. cut[k] < Len(c) /\ cut[k] + 1 \in 1..Len(c) /\ i \in 1..Len(c)
    BY <2>3, <2>8
  <2>10. PICK s \in Seq(Nat) : s = sep[k]
    BY <1>1
  <2>11. ~ Less(s, key) /\ Less(s, c[cut[k] + 1].key)
    BY <2>1, <2>9, <2>10 DEF Separated
  <2>12. PICK b \in Seq(Nat) : b = c[cut[k] + 1].key
    BY <2>9, ContentType
  <2>13. PICK a \in Seq(Nat) : a = c[i].key
    BY <2>9, ContentType
  <2>14. b = a \/ Less(b, a)
    <3>1. i = cut[k] + 1 \/ cut[k] + 1 < i
      BY <2>1, <2>3, <2>9
    <3>2. CASE cut[k] + 1 < i
      BY <2>9, <2>12, <2>13, <3>2 DEF Sorted
    <3> QED BY <2>12, <2>13, <3>1, <3>2
  <2>15. Less(s, a)
    BY <2>11, <2>12, <2>14, LessTransitive
  <2>16. ~ Less(a, key)
    BY <2>11, <2>15, LessTransitive
  <2> QED BY <2>1, <2>10, <2>13, <2>15, <2>16
<1> QED BY <1>2, <1>3

LEMMA LeastIs ==
  ASSUME NEW T, T \subseteq Nat, NEW x \in T, \A y \in T : x <= y
  PROVE  Least(T) = x
<1>1. \A z \in T : (\A y \in T : z <= y) => z = x
  OBVIOUS
<1> QED BY <1>1 DEF Least

(* The first entry that is not before the key.                             *)
FirstPast(c, key, q) ==
  q \in 1 .. Len(c) + 1 /\ \A i \in 1..Len(c) : Less(c[i].key, key) <=> i < q

LEMMA PastIs ==
  ASSUME NEW c \in Seq(ContentT), NEW key, NEW q, FirstPast(c, key, q)
  PROVE  Least({i \in 1..Len(c) : ~ Less(c[i].key, key)} \cup {Len(c) + 1}) = q
<1>1. PICK T : T = {i \in 1..Len(c) : ~ Less(c[i].key, key)} \cup {Len(c) + 1}
  OBVIOUS
<1>2. Len(c) \in Nat /\ q \in 1 .. Len(c) + 1
  BY DEF FirstPast
<1>3. T \subseteq Nat
  BY <1>1, <1>2
<1>4. q \in T
  BY <1>1, <1>2 DEF FirstPast
<1>5. \A y \in T : q <= y
  BY <1>1, <1>2 DEF FirstPast
<1> QED BY <1>1, <1>3, <1>4, <1>5, LeastIs

Below(c, key, a) == \A i \in 1..a : Less(c[i].key, key)
Above(c, key, b) == \A i \in b + 1 .. Len(c) : ~ Less(c[i].key, key)

(* The first one past the key, when it is not outside of a part.           *)
LEMMA InPart ==
  ASSUME NEW c \in Seq(ContentT), NEW a \in Nat, NEW b \in Nat, a <= b, b <= Len(c),
         NEW p, p = Part(c, a, b), NEW key,
         Below(c, key, a), Above(c, key, b), NEW d, FirstPast(p, key, d)
  PROVE  FirstPast(c, key, a + d)
<1>1. Len(p) = b - a /\ \A i \in 1 .. b - a : p[i] = c[a + i] /\ a + i \in 1..Len(c)
  BY PartIs
<1>2. PICK n \in Nat : n = Len(p) /\ n = b - a
  BY <1>1
<1>3. PICK l \in Nat : l = Len(c) /\ b <= l
  OBVIOUS
<1>4. d \in 1 .. n + 1 /\ \A j \in 1..n : Less(p[j].key, key) <=> j < d
  BY <1>2 DEF FirstPast
<1>5. d \in Nat /\ d >= 1 /\ a + d \in 1 .. Len(c) + 1
  BY <1>2, <1>3, <1>4
<1>6. ASSUME NEW i \in 1..Len(c) PROVE Less(c[i].key, key) <=> i < a + d
  <2>1. CASE i <= a
    <3>1. i \in 1..a /\ i < a + d
      BY <1>5, <2>1
    <3> QED BY <3>1 DEF Below
  <2>2. CASE b < i
    <3>1. i \in b + 1 .. Len(c) /\ ~ i < a + d
      BY <1>2, <1>3, <1>4, <2>2
    <3> QED BY <3>1 DEF Above
  <2>3. CASE a < i /\ i <= b
    <3>1. i - a \in 1..n
      BY <1>2, <2>3
    <3>2. PICK j \in 1..n : j = i - a
      BY <3>1
    <3>3. p[j] = c[a + j]
      BY <1>1, <1>2
    <3>4. j \in Nat /\ a + j = i
      BY <1>2, <3>2
    <3>5. i < a + d <=> j < d
      BY <1>5, <3>4
    <3> QED BY <1>4, <3>3, <3>4, <3>5
  <2> QED BY <2>1, <2>2, <2>3
<1> QED BY <1>5, <1>6 DEF FirstPast

LEMMA PartFinds ==
  ASSUME NEW c \in Seq(ContentT), Sorted(c), NEW cut, Cuts(c, cut), NEW sep, Separated(c, cut, sep),
         NEW m, m = Len(cut), m = Len(sep), Start(cut, m + 1) = Len(c),
         NEW key \in Seq(Nat), NEW p \in 1 .. m + 1,
         \A k \in 1..m : Less(sep[k], key) <=> k < p
  PROVE  /\ p = m + 1 => FirstPast(c, key, Len(c) + 1)
         /\ p <= m => \A d : FirstPast(PartOf(c, cut, p), key, d)
                              => FirstPast(c, key, Start(cut, p) + d)
<1>1. Len(c) \in Nat /\ m \in Nat
  BY DEF Cuts
<1>2. /\ \A i \in 1..Start(cut, p) : Less(c[i].key, key)
      /\ p <= m => \A i \in cut[p] + 1 .. Len(c) : ~ Less(c[i].key, key)
  <2>1. /\ \A i \in 1..Start(cut, p) : Less(c[i].key, key)
        /\ p <= m => \A i \in cut[p] + 1 .. Len(c) : Less(sep[p], c[i].key) /\ ~ Less(c[i].key, key)
    BY IndexFinds
  <2> QED BY <2>1
<1>3. CASE p = m + 1
  <2>1. \A i \in 1..Len(c) : Less(c[i].key, key) /\ i < Len(c) + 1
    BY <1>1, <1>2, <1>3
  <2>2. Len(c) + 1 \in 1 .. Len(c) + 1 /\ ~ p <= m
    BY <1>1, <1>3
  <2> QED BY <2>1, <2>2 DEF FirstPast
<1>4. CASE p <= m
  <2>1. PICK k \in 1..Len(cut) : k = p
    BY <1>1, <1>4
  <2>2. PICK part : part = PartOf(c, cut, k)
    OBVIOUS
  <2>3. /\ Start(cut, k) \in Nat /\ cut[k] \in Nat /\ Start(cut, k) < cut[k]
        /\ cut[k] <= Len(c)
    <3>1. Sorted(c) /\ Cuts(c, cut)
      OBVIOUS
    <3> QED BY <2>2, <3>1, PartOfIs
  <2>4. PICK a \in Nat, b \in Nat : a = Start(cut, k) /\ b = cut[k] /\ a < b /\ b <= Len(c)
    BY <2>3
  <2>5. a <= b /\ b <= Len(c) /\ part = Part(c, a, b)
    BY <2>2, <2>3, <2>4 DEF PartOf
  <2>6. Below(c, key, a)
    BY <1>2, <2>1, <2>4 DEF Below
  <2>7. Above(c, key, b)
    BY <1>2, <1>4, <2>1, <2>4 DEF Above
  <2>8. ASSUME NEW d, FirstPast(part, key, d) PROVE FirstPast(c, key, a + d)
    BY <2>8, <2>5, <2>6, <2>7, InPart
  <2>9. p # m + 1
    BY <1>1, <1>4
  <2> QED BY <2>1, <2>2, <2>4, <2>8, <2>9
<1>5. p = m + 1 \/ p <= m
  BY <1>1
<1> QED BY <1>3, <1>4, <1>5

-----------------------------------------------------------------------------
(* What the builder has written is what the caller has added.              *)

Recorded ==
  /\ contents \in Seq(ContentT) /\ Sorted(contents)
  /\ ~ rep.closed => rep.footer = None
  /\ ~ rep.closed /\ rep.ok => \E cut, sep : Building(rep, contents, cut, sep)
  /\ rep.footer # None => \E cut, sep : Finished(rep, contents, cut, sep)

LEMMA KeyType ==
  ASSUME NEW key \in Keys
  PROVE  key \in Seq(Nat)
<1>1. 0..MaxByte \subseteq Nat
  BY TableAssumption DEF TableAssumption
<1>2. key \in Seq(0..MaxByte)
  BY TableAssumption DEF TableAssumption
<1> QED BY <1>1, <1>2, SeqMonotonic

LEMMA InitRecorded == Init => Recorded
<1> SUFFICES ASSUME NEW o \in OptionSets, NEW n \in Rooms, rep = NewRep(o, n), contents = <<>>
             PROVE  Recorded
  BY DEF Init, BuilderInit
<1>1. PICK c : c = <<>>
  OBVIOUS
<1>2. c \in Seq(ContentT) /\ Len(c) = 0 /\ c \in Seq(Nat) /\ c \in Seq(Seq(Nat))
  BY <1>1
<1>3. /\ rep.file = c /\ rep.footer = None /\ rep.closed = FALSE /\ rep.pending = None
      /\ rep.index_block = EmptyBuilder /\ rep.data_block = EmptyBuilder /\ rep.last_key = c
  BY <1>1 DEF NewRep
<1>4. IndexItems(c, c) = <<>>
  <2>1. IndexItems(c, c) = [k \in 1..0 |-> [key |-> c[k], value |-> c[k].handle]]
    BY <1>2 DEF IndexItems
  <2> QED BY <2>1
<1>5. Start(c, 1) = 0 /\ Part(c, 0, 0) = <<>>
  <2>1. Part(c, 0, 0) = [i \in 1 .. 0 - 0 |-> c[0 + i]]
    BY DEF Part
  <2> QED BY <2>1 DEF Start
<1>6. Built(EmptyBuilder, <<>>)
  BY EmptyBuilt
<1>7. Cuts(c, c) /\ Divided(c, c, c) /\ Separated(c, c, c)
  BY <1>2 DEF Cuts, Divided, Separated
<1>8. Filed(rep, c, c, c)
  BY <1>2, <1>3, <1>4, <1>6, <1>7 DEF Filed
<1>9. LastKey(c) = <<>>
  BY <1>2 DEF LastKey, KeyBefore
<1>10. Building(rep, c, c, c)
  <2>1. Part(c, Start(c, Len(c) + 1), Len(c)) = <<>>
    BY <1>2, <1>5
  <2> QED BY <1>1, <1>3, <1>6, <1>8, <1>9, <2>1 DEF Building
<1>11. Sorted(c)
  BY <1>2 DEF Sorted
<1> QED BY <1>1, <1>2, <1>3, <1>10, <1>11 DEF Recorded

LEMMA AddRecorded ==
  ASSUME Sound(rep), Recorded, NEW key \in Keys, NEW n \in Lengths, Add(key, n)
  PROVE  Recorded'
<1>1. key \in Seq(Nat) /\ n \in Nat
  BY KeyType, TableAssumption DEF TableAssumption
<1>2. PICK c \in Seq(ContentT) : c = contents /\ Sorted(c)
  BY DEF Recorded
<1>3. PICK x : x = [key |-> key, value |-> n]
  OBVIOUS
<1>4. x \in ContentT /\ x.key = key /\ x.value = n
  BY <1>1, <1>3 DEF ContentT
<1>5. Extended(Append(c, x), c, x)
  BY <1>4, AppendExtends
<1>6. PICK d : d = contents' /\ Extended(d, c, x)
  BY <1>2, <1>3, <1>5 DEF Add
<1>7. Len(c) > 0 => Less(c[Len(c)].key, x.key)
  <2>1. c # <<>> => Less(c[Len(c)].key, key)
    BY <1>2 DEF Add, InOrder
  <2>2. Len(c) > 0 => c # <<>>
    OBVIOUS
  <2> QED BY <1>4, <2>1, <2>2
<1>8. ~ rep.closed /\ rep.footer = None
  BY DEF Add, Recorded
<1>9. d \in Seq(ContentT) /\ Sorted(d)
  <2>1. /\ d \in Seq(ContentT) /\ Len(d) = Len(c) + 1 /\ d[Len(c) + 1] = x /\ Len(c) \in Nat
        /\ \A i \in 1..Len(c) : d[i] = c[i]
    BY <1>6 DEF Extended
  <2>2. ASSUME NEW i \in 1..Len(d), NEW j \in 1..Len(d), i < j PROVE Less(d[i].key, d[j].key)
    <3>1. i \in 1..Len(c) /\ d[i] = c[i] /\ Len(c) \in 1..Len(c) /\ Len(c) > 0
      BY <2>1, <2>2
    <3>2. CASE j \in 1..Len(c)
      BY <1>2, <2>1, <2>2, <3>1, <3>2 DEF Sorted
    <3>3. CASE j = Len(c) + 1
      <4>1. PICK a \in Seq(Nat), b \in Seq(Nat) : a = c[i].key /\ b = c[Len(c)].key
        BY <3>1, ContentType
      <4>2. Less(b, key)
        BY <1>4, <1>7, <3>1, <4>1
      <4>3. a = b \/ Less(a, b)
        <5>1. i = Len(c) \/ i < Len(c)
          BY <2>1, <3>1
        <5> QED BY <1>2, <3>1, <4>1, <5>1 DEF Sorted
      <4>4. Less(a, key)
        BY <1>1, <4>2, <4>3, LessTransitive
      <4> QED BY <1>4, <2>1, <3>1, <3>3, <4>1, <4>4
    <3> QED BY <2>1, <3>2, <3>3
  <2> QED BY <2>1, <2>2 DEF Sorted
<1>10. PICK f : f = AddTo(rep, x.key, x.value)
  OBVIOUS
<1>11. rep' = IF rep.ok THEN f ELSE rep
  BY <1>4, <1>10 DEF Add
<1>12. rep.ok => \E cut, sep : Building(rep, c, cut, sep)
  BY <1>2, <1>8 DEF Recorded
<1>13. /\ f.closed = rep.closed /\ f.footer = rep.footer
       /\ f.ok => \E cut, sep : Building(f, d, cut, sep)
  BY <1>4, <1>6, <1>7, <1>10, <1>12, TableAssumption, AddBuilds
<1>14. PICK r : r = rep'
  OBVIOUS
<1>15. r.footer = None /\ (r.ok => \E cut, sep : Building(r, d, cut, sep))
  <2>1. CASE rep.ok
    BY <1>8, <1>11, <1>13, <1>14, <2>1
  <2>2. CASE ~ rep.ok
    BY <1>8, <1>11, <1>14, <2>2
  <2> QED BY <2>1, <2>2
<1>16. /\ contents' \in Seq(ContentT) /\ Sorted(contents') /\ rep'.footer = None
       /\ (rep'.ok => \E cut, sep : Building(rep', contents', cut, sep))
  BY <1>6, <1>9, <1>14, <1>15
<1> QED BY <1>16 DEF Recorded, Sorted, Building, Filed, Finished

LEMMA FlushRecorded ==
  ASSUME Sound(rep), Recorded, FlushBlock
  PROVE  Recorded'
<1>1. PICK c \in Seq(ContentT) : c = contents /\ Sorted(c)
  BY DEF Recorded
<1>2. PICK f : f = rep' /\ f = Flush(rep)
  BY DEF FlushBlock
<1>3. contents' = c /\ ~ rep.closed /\ rep.footer = None
  BY <1>1 DEF FlushBlock, Recorded
<1>4. (f.ok => rep.ok) /\ f.closed = rep.closed /\ f.footer = rep.footer
  BY <1>2, FlushOk
<1>5. ASSUME f.ok PROVE \E cut, sep : Building(f, c, cut, sep)
  <2>1. PICK cut, sep : Building(rep, c, cut, sep)
    BY <1>1, <1>3, <1>4, <1>5 DEF Recorded
  <2>2. \E d : Building(f, c, d, sep) /\ Start(d, Len(d) + 1) = Len(c)
    BY <1>2, <1>4, <1>5, <2>1, FlushBuilds
  <2> QED BY <2>2
<1>6. /\ contents' \in Seq(ContentT) /\ Sorted(contents') /\ rep'.footer = None
      /\ (rep'.ok => \E cut, sep : Building(rep', contents', cut, sep))
  BY <1>1, <1>2, <1>3, <1>4, <1>5
<1> QED BY <1>6 DEF Recorded

LEMMA FinishRecorded ==
  ASSUME Sound(rep), Recorded, Finish
  PROVE  Recorded'
<1>1. PICK c \in Seq(ContentT) : c = contents /\ Sorted(c)
  BY DEF Recorded
<1>2. contents' = c /\ ~ rep.closed /\ rep.footer = None
  BY <1>1 DEF Finish, Recorded
<1>3. rep.ok => \E cut, sep : Building(rep, c, cut, sep)
  BY <1>1, <1>2 DEF Recorded
<1>4. rep'.closed = TRUE /\ (rep'.footer # None => \E cut, sep : Finished(rep', c, cut, sep))
  BY <1>2, <1>3, FinishBuilds
<1>5. /\ contents' \in Seq(ContentT) /\ Sorted(contents') /\ rep'.closed = TRUE
      /\ (rep'.footer # None => \E cut, sep : Finished(rep', contents', cut, sep))
  BY <1>1, <1>2, <1>4
<1> QED BY <1>5 DEF Recorded

LEMMA AbandonRecorded ==
  ASSUME Sound(rep), Recorded, Abandon
  PROVE  Recorded'
<1>1. rep \in RepT /\ rep.footer = None
  BY DEF Sound, Recorded, Abandon
<1>2. rep'.closed = TRUE /\ rep'.footer = None /\ contents' = contents
  BY <1>1 DEF Abandon, RepT
<1>3. contents' \in Seq(ContentT) /\ Sorted(contents')
  BY <1>2 DEF Recorded
<1> QED BY <1>2, <1>3 DEF Recorded

LEMMA NextRecorded ==
  ASSUME Sound(rep), Recorded, [Next]_vars
  PROVE  Recorded'
<1>1. ASSUME NEW key \in Keys, NEW n \in Lengths, Add(key, n) PROVE Recorded'
  BY <1>1, AddRecorded
<1>2. ASSUME rep' = rep, contents' = contents PROVE Recorded'
  <2>1. PICK c : c = contents /\ c = contents'
    BY <1>2
  <2>2. PICK r : r = rep /\ r = rep'
    BY <1>2
  <2>3. /\ c \in Seq(ContentT) /\ Sorted(c)
        /\ ~ r.closed => r.footer = None
        /\ ~ r.closed /\ r.ok => \E cut, sep : Building(r, c, cut, sep)
        /\ r.footer # None => \E cut, sep : Finished(r, c, cut, sep)
    BY <2>1, <2>2 DEF Recorded
  <2>4. /\ contents' \in Seq(ContentT) /\ Sorted(contents')
        /\ ~ rep'.closed => rep'.footer = None
        /\ ~ rep'.closed /\ rep'.ok => \E cut, sep : Building(rep', contents', cut, sep)
        /\ rep'.footer # None => \E cut, sep : Finished(rep', contents', cut, sep)
    BY <2>1, <2>2, <2>3
  <2> QED BY <2>4 DEF Recorded
<1>3. Read => rep' = rep /\ contents' = contents
  BY DEF Read, Open, Seek, SeekToFirst, Begin, Advance, Skip, SkipReturn, SkipEnd,
         SkipBlock, builder
<1> QED BY <1>1, <1>2, <1>3, FlushRecorded, FinishRecorded, AbandonRecorded
        DEF Next, Build, vars, builder

-----------------------------------------------------------------------------
(* A finished table as its readers see it: the index shows the items x,    *)
(* which lead to the m parts of what was added.                            *)

Laid(c, cut, sep, x, m) ==
  /\ c \in Seq(ContentT) /\ Sorted(c) /\ Cuts(c, cut) /\ Separated(c, cut, sep)
  /\ m \in Nat /\ Len(cut) = m /\ Len(sep) = m /\ Start(cut, m + 1) = Len(c)
  /\ x \in Seq(ItemT) /\ Len(x) = m /\ Sorted(x)
  /\ \A k \in 1..m : x[k].key = sep[k] /\ x[k].value \in HandleT

Served(c, cut, x, m) ==
  /\ rep.footer # None
  /\ Encodes(BlockAt(rep.footer.index), x)
  /\ \A k \in 1..m : Encodes(BlockAt(x[k].value), PartOf(c, cut, k))
  /\ \A j, k \in 1..m : x[j].value = x[k].value => j = k

LEMMA HandlesDiffer ==
  ASSUME Sound(rep), NEW j \in 1..Len(rep.file), NEW k \in 1..Len(rep.file),
         rep.file[j].handle = rep.file[k].handle
  PROVE  j = k
<1>1. ASSUME NEW a \in 1..Len(rep.file), NEW b \in 1..Len(rep.file), a < b
      PROVE  rep.file[a].handle # rep.file[b].handle
  <2>1. rep.file[a] \in WrittenT
    BY DEF Sound, RepT
  <2>2. rep.file[a].handle.offset \in Nat /\ rep.file[a].handle.size \in Nat
    BY <2>1 DEF WrittenT, HandleT
  <2>3. EndOf(rep.file[a].handle) <= rep.file[b].handle.offset
    BY <1>1 DEF Sound, Apart
  <2>4. \A n, m \in Nat : ~(n + m + 5 <= n)
    OBVIOUS
  <2> QED BY <2>2, <2>3, <2>4 DEF EndOf, TrailerSize
<1>2. j < k \/ k < j \/ j = k
  OBVIOUS
<1> QED BY <1>1, <1>2

LEMMA FinishedServes ==
  ASSUME Sound(rep), Recorded, rep.footer # None
  PROVE  \E cut, sep, x, m : Laid(contents, cut, sep, x, m) /\ Served(contents, cut, x, m)
<1>1. PICK c \in Seq(ContentT) : c = contents /\ Sorted(c)
  BY DEF Recorded
<1>2. PICK cut, sep : Finished(rep, c, cut, sep)
  BY <1>1 DEF Recorded
<1>3. PICK m : m = Len(cut) /\ Tabled(rep, c, cut, sep, m)
  BY <1>1, <1>2 DEF Tabled
<1>4. rep \in RepT
  BY DEF Sound
<1>5. /\ Len(sep) = m /\ m \in Nat /\ Cuts(c, cut) /\ Start(cut, m + 1) = Len(c)
      /\ \A k \in 1..m : k \in 1..Len(rep.file)
                         /\ Encodes(rep.file[k].contents, PartOf(c, cut, k))
  BY <1>3, <1>4, TableFacts
<1>6. PICK x : x = IndexItems(rep.file, sep)
  OBVIOUS
<1>7. /\ x \in Seq(ItemT) /\ Len(x) = m /\ Sorted(x)
      /\ \A k \in 1..m : x[k].key = sep[k] /\ x[k].value = rep.file[k].handle
  BY <1>3, <1>4, <1>6, IndexIs
<1>8. \A k \in 1..m : x[k].value \in HandleT
  <2> TAKE k \in 1..m
  <2>1. rep.file[k] \in WrittenT
    BY <1>4, <1>5 DEF RepT
  <2> QED BY <1>7, <2>1 DEF WrittenT
<1>9. Separated(c, cut, sep)
  BY <1>2 DEF Finished
<1>10. Laid(c, cut, sep, x, m)
  BY <1>1, <1>3, <1>5, <1>7, <1>8, <1>9 DEF Laid
<1>11. \A k \in 1..m : Encodes(BlockAt(x[k].value), PartOf(c, cut, k))
  <2> TAKE k \in 1..m
  <2>1. BlockAt(rep.file[k].handle) = rep.file[k].contents
    BY <1>5, BlockAtFinds
  <2> QED BY <1>5, <1>7, <2>1
<1>12. ASSUME NEW j \in 1..m, NEW k \in 1..m, x[j].value = x[k].value PROVE j = k
  BY <1>5, <1>7, <1>12, HandlesDiffer
<1>13. Encodes(BlockAt(rep.footer.index), x)
  <2>1. PICK i \in 1..Len(rep.file) : /\ rep.file[i].handle = rep.footer.index
                                      /\ Encodes(rep.file[i].contents, x)
    BY <1>2, <1>6 DEF Finished
  <2>2. BlockAt(rep.file[i].handle) = rep.file[i].contents
    BY BlockAtFinds
  <2> QED BY <2>1, <2>2
<1>14. Served(c, cut, x, m)
  BY <1>11, <1>12, <1>13 DEF Served
<1> QED BY <1>1, <1>10, <1>14

LEMMA SeekFinds ==
  ASSUME NEW t, NEW es, Shows(t, es), Sorted(es), NEW key \in Seq(Nat),
         NEW s, s = BlockSeek(t, key)
  PROVE  Shows(s, es) /\ s.ok = t.ok /\ s.block = t.block /\ FirstPast(es, key, s.at)
<1>1. /\ Shows(s, es) /\ s.ok = t.ok /\ s.block = t.block
      /\ \A i \in 1..Len(es) : Less(es[i].key, key) <=> i < s.at
  BY SeekShows
<1>2. s.at \in 1 .. Len(es) + 1
  BY <1>1 DEF Shows
<1> QED BY <1>1, <1>2 DEF FirstPast

(* Where the search in the index leads, and the search in that part.       *)
LEMMA LedTo ==
  ASSUME NEW c, NEW cut, NEW sep, NEW x, NEW m, Laid(c, cut, sep, x, m),
         NEW key \in Seq(Nat), NEW p, FirstPast(x, key, p)
  PROVE  /\ p \in 1 .. m + 1
         /\ p = m + 1 => FirstPast(c, key, Len(c) + 1)
         /\ p <= m => /\ ~ Less(sep[p], key)
                      /\ \A i \in cut[p] + 1 .. Len(c) : Less(sep[p], c[i].key)
                      /\ \A d : FirstPast(PartOf(c, cut, p), key, d)
                                => FirstPast(c, key, Start(cut, p) + d)
<1>1. /\ c \in Seq(ContentT) /\ Sorted(c) /\ Cuts(c, cut) /\ Separated(c, cut, sep)
      /\ m \in Nat /\ m = Len(cut) /\ m = Len(sep) /\ Start(cut, m + 1) = Len(c)
  BY DEF Laid
<1>2. p \in 1 .. m + 1 /\ \A k \in 1..m : Less(sep[k], key) <=> k < p
  BY DEF Laid, FirstPast
<1>3. /\ p = m + 1 => FirstPast(c, key, Len(c) + 1)
      /\ p <= m => \A d : FirstPast(PartOf(c, cut, p), key, d)
                          => FirstPast(c, key, Start(cut, p) + d)
  BY <1>1, <1>2, PartFinds
<1>4. p <= m => \A i \in cut[p] + 1 .. Len(c) : Less(sep[p], c[i].key) /\ ~ Less(c[i].key, key)
  BY <1>1, <1>2, IndexFinds
<1>5. p <= m => ~ Less(sep[p], key)
  BY <1>1, <1>2
<1> QED BY <1>2, <1>3, <1>4, <1>5

-----------------------------------------------------------------------------
(* Lookups.                                                                *)

LEMMA Within ==
  ASSUME NEW l \in Nat, NEW d, d \in 1 .. l + 1, d <= l
  PROVE  d \in 1..l
OBVIOUS

LEMMA PastFirst ==
  ASSUME NEW c, c = contents, c \in Seq(ContentT), NEW key, NEW q, FirstPast(c, key, q)
  PROVE  Past(key) = q
<1>1. Least({i \in 1..Len(c) : ~ Less(c[i].key, key)} \cup {Len(c) + 1}) = q
  BY PastIs
<1> QED BY <1>1 DEF Past

LEMMA PartType ==
  ASSUME NEW c, NEW cut, NEW sep, NEW x, NEW m, Laid(c, cut, sep, x, m), NEW k \in 1..m
  PROVE  /\ Start(cut, k) \in Nat /\ cut[k] \in Nat /\ Start(cut, k) < cut[k]
         /\ cut[k] <= Len(c) /\ Start(cut, k + 1) = cut[k] /\ Len(c) \in Nat
         /\ PartOf(c, cut, k) \in Seq(ItemT) /\ Sorted(PartOf(c, cut, k))
         /\ Len(PartOf(c, cut, k)) = cut[k] - Start(cut, k)
         /\ \A i \in 1 .. cut[k] - Start(cut, k) :
              PartOf(c, cut, k)[i] = c[Start(cut, k) + i] /\ Start(cut, k) + i \in 1..Len(c)
<1>1. c \in Seq(ContentT) /\ Sorted(c) /\ Cuts(c, cut) /\ k \in 1..Len(cut)
  BY DEF Laid
<1>2. PICK p : p = PartOf(c, cut, k)
  OBVIOUS
<1>3. /\ Start(cut, k) \in Nat /\ cut[k] \in Nat /\ Start(cut, k) < cut[k]
      /\ cut[k] <= Len(c) /\ Start(cut, k + 1) = cut[k]
      /\ p \in Seq(ItemT) /\ Sorted(p) /\ Len(p) = cut[k] - Start(cut, k) /\ Len(p) \in Nat
      /\ \A i \in 1..Len(p) : p[i] = c[Start(cut, k) + i]
                              /\ Start(cut, k) + i \in 1..Len(c)
  BY <1>1, <1>2, PartOfIs
<1>4. Len(c) \in Nat
  BY <1>1
<1> QED BY <1>2, <1>3, <1>4

(* What InternalGet sees: the index entry p and, in the part it leads to,  *)
(* entry d.                                                                *)
LEMMA IndexSearch ==
  ASSUME NEW c, NEW cut, NEW sep, NEW x, NEW m, Laid(c, cut, sep, x, m), Served(c, cut, x, m),
         NEW key \in Seq(Nat),
         NEW i, i = BlockSeek(NewBlockIter(BlockAt(rep.footer.index)), key)
  PROVE  /\ FirstPast(x, key, i.at) /\ i.at \in 1 .. m + 1
         /\ IterValid(i) <=> i.at <= m
         /\ IterValid(i) => IterValue(i) = x[i.at].value
<1>1. PICK n : n = NewBlockIter(BlockAt(rep.footer.index))
  OBVIOUS
<1>2. Shows(n, x)
  BY <1>1, NewShows DEF Served
<1>3. Len(x) = m /\ Sorted(x) /\ x \in Seq(ItemT)
  BY DEF Laid
<1>4. i = BlockSeek(n, key)
  BY <1>1
<1>5. Shows(i, x) /\ FirstPast(x, key, i.at)
  BY <1>2, <1>3, <1>4, SeekFinds
<1>6. IterValid(i) <=> i.at <= Len(x)
  BY <1>5, ShowsValue
<1>7. IterValid(i) => IterValue(i) = x[i.at].value
  BY <1>5, ShowsValue
<1>8. i.at \in 1 .. m + 1
  BY <1>3, <1>5 DEF FirstPast
<1> QED BY <1>3, <1>5, <1>6, <1>7, <1>8

Sought(b, handle, key) == b = BlockSeek(BlockReader(handle, TRUE), key)

LEMMA DataSearch ==
  ASSUME NEW c, NEW cut, NEW sep, NEW x, NEW m, Laid(c, cut, sep, x, m), Served(c, cut, x, m),
         NEW key \in Seq(Nat), NEW k \in 1..m,
         NEW b, Sought(b, x[k].value, key)
  PROVE  /\ FirstPast(PartOf(c, cut, k), key, b.at)
         /\ b.at \in 1 .. cut[k] - Start(cut, k) + 1
         /\ IterValid(b) <=> b.at <= cut[k] - Start(cut, k)
         /\ IterValid(b) => [key |-> b.key, value |-> IterValue(b)] = c[Start(cut, k) + b.at]
<1>1. PICK n : n = NewBlockIter(BlockAt(x[k].value))
  OBVIOUS
<1>2. PICK p : p = PartOf(c, cut, k)
  OBVIOUS
<1>3. Encodes(BlockAt(x[k].value), p)
  BY <1>2 DEF Served
<1>4. Shows(n, p)
  BY <1>1, <1>3, NewShows
<1>5. /\ Start(cut, k) \in Nat /\ cut[k] \in Nat /\ Start(cut, k) < cut[k]
      /\ Sorted(p) /\ Len(p) = cut[k] - Start(cut, k)
      /\ \A i \in 1 .. cut[k] - Start(cut, k) :
           p[i] = c[Start(cut, k) + i] /\ Start(cut, k) + i \in 1..Len(c)
  BY <1>2, PartType
<1>6. b = BlockSeek(n, key)
  BY <1>1 DEF Sought, BlockReader
<1>7. Shows(b, p) /\ FirstPast(p, key, b.at)
  BY <1>4, <1>5, <1>6, SeekFinds
<1>8. IterValid(b) <=> b.at <= Len(p)
  BY <1>7, ShowsValue
<1>9. IterValid(b) => IterValue(b) = p[b.at].value /\ b.key = p[b.at].key
  BY <1>7, ShowsValue
<1>10. b.at \in 1 .. Len(p) + 1
  BY <1>7 DEF FirstPast
<1>11. ASSUME IterValid(b)
       PROVE  [key |-> b.key, value |-> IterValue(b)] = c[Start(cut, k) + b.at]
  <2>1. b.at \in 1 .. cut[k] - Start(cut, k)
    <3>1. PICK l \in Nat : l = Len(p) /\ l = cut[k] - Start(cut, k)
      BY <1>5
    <3>2. PICK d : d = b.at /\ d \in 1 .. l + 1 /\ d <= l
      BY <1>8, <1>10, <1>11, <3>1
    <3>3. d \in 1..l
      BY <3>2, Within
    <3> QED BY <3>1, <3>2, <3>3
  <2>2. PICK j : j = Start(cut, k) + b.at /\ p[b.at] = c[j] /\ j \in 1..Len(c)
    BY <1>5, <2>1
  <2>3. c[j] \in ContentT
    <3>1. c \in Seq(ContentT)
      BY DEF Laid
    <3> QED BY <2>2, <3>1, ContentType
  <2>4. b.key = c[j].key /\ IterValue(b) = c[j].value
    BY <1>9, <1>11, <2>2
  <2> QED BY <2>2, <2>3, <2>4 DEF ContentT
<1> QED BY <1>2, <1>5, <1>7, <1>8, <1>10, <1>11

LEMMA EntriesAre ==
  ASSUME NEW c, NEW cut, NEW sep, NEW x, NEW m, Laid(c, cut, sep, x, m), Served(c, cut, x, m),
         NEW k \in 1..m
  PROVE  /\ k \in 1..Len(Index.entries) /\ Index.entries[k].value = x[k].value
         /\ \A j \in 1 .. cut[k] - Start(cut, k) :
              j \in 1..Len(EntriesOf(k)) /\ EntriesOf(k)[j] = c[Start(cut, k) + j]
<1>1. PICK ib : ib = BlockAt(rep.footer.index) /\ Encodes(ib, x) /\ Index = ib
  BY DEF Served, Index
<1>2. Len(ib.entries) = m /\ ib.entries[k].value = x[k].value
  BY <1>1 DEF Encodes, Laid
<1>3. PICK p : p = PartOf(c, cut, k)
  OBVIOUS
<1>4. PICK b : b = BlockAt(x[k].value) /\ Encodes(b, p)
  BY <1>3 DEF Served
<1>5. /\ Start(cut, k) \in Nat /\ cut[k] \in Nat /\ Start(cut, k) < cut[k]
      /\ Len(p) = cut[k] - Start(cut, k)
      /\ \A i \in 1 .. cut[k] - Start(cut, k) :
           p[i] = c[Start(cut, k) + i] /\ Start(cut, k) + i \in 1..Len(c)
  BY <1>3, PartType
<1>6. PICK n \in Nat : n = Len(p)
  BY <1>5
<1>7. Len(b.entries) = n /\ \A j \in 1..n : b.entries[j].value = p[j].value
  BY <1>4, <1>6 DEF Encodes
<1>8. \A j \in 1..n : KeysFrom(b, 1)[j] = p[j].key
  <2>1. n > 0
    BY <1>5, <1>6
  <2>2. b.restarts[1] = 0 /\ Len(b.restarts) \in Nat /\ Len(b.restarts) > 0
    BY <1>4 DEF Encodes, BlockT
  <2>3. 1 \in 1..Len(b.restarts)
    BY <2>2
  <2>4. b.entries[0 + 1].shared = 0
    BY <1>4, <1>6, <2>1, <2>2, <2>3 DEF Encodes
  <2>5. 1 \in 1 .. Len(p) + 1 /\ (1 <= Len(p) => b.entries[1].shared = 0)
    BY <1>6, <2>4
  <2> QED BY <1>4, <1>6, <2>5, KeysAreThose
<1>9. EntriesOf(k) = [j \in 1..n |-> [key |-> KeysOf(b)[j], value |-> b.entries[j].value]]
  BY <1>1, <1>2, <1>4, <1>7 DEF EntriesOf
<1>10. \A j \in 1..n : KeysOf(b)[j] = p[j].key
  BY <1>7, <1>8 DEF KeysOf
<1>11. Len(EntriesOf(k)) = n
  BY <1>9
<1>12. ASSUME NEW j \in 1..n PROVE EntriesOf(k)[j] = c[Start(cut, k) + j]
  <2>1. PICK i : i = Start(cut, k) + j /\ p[j] = c[i] /\ i \in 1..Len(c)
    BY <1>5, <1>6
  <2>2. c[i] \in ContentT
    BY <2>1 DEF Laid
  <2>3. EntriesOf(k)[j] = [key |-> c[i].key, value |-> c[i].value]
    BY <1>7, <1>9, <1>10, <2>1
  <2> QED BY <2>1, <2>2, <2>3 DEF ContentT
<1> QED BY <1>1, <1>2, <1>5, <1>6, <1>11, <1>12

(* A lookup in a finished table: of the entry q that is first at or past   *)
(* the key.                                                                *)
LEMMA KeyLookup ==
  ASSUME NEW c, c = contents, NEW cut, NEW sep, NEW x, NEW m,
         Laid(c, cut, sep, x, m), Served(c, cut, x, m),
         NEW key \in Seq(Nat)
  PROVE  \E q \in 1 .. Len(c) + 1 :
           /\ Past(key) = q
           /\ InternalGet(key) # None => q \in 1..Len(c) /\ InternalGet(key) = c[q]
           /\ q \in 1..Len(c) /\ c[q].key = key =>
                /\ InternalGet(key) = c[q]
                /\ \E j \in 1..Len(Index.entries) :
                     /\ Index.entries[j].value.offset = ApproximateOffsetOf(key)
                     /\ \E k \in 1..Len(EntriesOf(j)) : EntriesOf(j)[k] = c[q]
<1>1. c \in Seq(ContentT) /\ Len(c) \in Nat /\ m \in Nat
  BY DEF Laid
<1>2. PICK i : i = BlockSeek(NewBlockIter(BlockAt(rep.footer.index)), key)
  OBVIOUS
<1>3. /\ FirstPast(x, key, i.at) /\ i.at \in 1 .. m + 1
      /\ IterValid(i) <=> i.at <= m
      /\ IterValid(i) => IterValue(i) = x[i.at].value
  BY <1>2, IndexSearch
<1>4. PICK b : b = BlockSeek(BlockReader(IterValue(i), TRUE), key)
  OBVIOUS
<1>5. InternalGet(key) = IF IterValid(i) /\ IterValid(b)
                         THEN [key |-> b.key, value |-> IterValue(b)] ELSE None
  BY <1>2, <1>4 DEF InternalGet
<1>6. ApproximateOffsetOf(key) = IF IterValid(i) THEN IterValue(i).offset
                                 ELSE rep.footer.metaindex.offset
  BY <1>2 DEF ApproximateOffsetOf
<1>7. PICK p : p = i.at
  OBVIOUS
<1>8. /\ p \in 1 .. m + 1
      /\ p = m + 1 => FirstPast(c, key, Len(c) + 1)
      /\ p <= m => /\ ~ Less(sep[p], key)
                   /\ \A k \in cut[p] + 1 .. Len(c) : Less(sep[p], c[k].key)
                   /\ \A d : FirstPast(PartOf(c, cut, p), key, d)
                             => FirstPast(c, key, Start(cut, p) + d)
  BY <1>3, <1>7, LedTo
<1>9. CASE p = m + 1
  <2>1. ~ IterValid(i)
    BY <1>1, <1>3, <1>7, <1>9
  <2>2. InternalGet(key) = None
    BY <1>5, <2>1
  <2>3. FirstPast(c, key, Len(c) + 1)
    BY <1>8, <1>9
  <2>4. PICK q : q = Len(c) + 1 /\ q \in 1 .. Len(c) + 1 /\ q \notin 1..Len(c)
    BY <1>1
  <2>5. Past(key) = q
    BY <1>1, <2>3, <2>4, PastFirst
  <2> QED BY <2>2, <2>4, <2>5
<1>10. CASE p \in 1..m
  <2>1. p <= m /\ IterValid(i) /\ IterValue(i) = x[p].value
    BY <1>1, <1>3, <1>7, <1>10
  <2>2. b = BlockSeek(BlockReader(x[p].value, TRUE), key)
    BY <1>4, <2>1
  <2>3. /\ FirstPast(PartOf(c, cut, p), key, b.at)
        /\ b.at \in 1 .. cut[p] - Start(cut, p) + 1
        /\ IterValid(b) <=> b.at <= cut[p] - Start(cut, p)
        /\ IterValid(b) => [key |-> b.key, value |-> IterValue(b)] = c[Start(cut, p) + b.at]
    <3>1. PICK k \in 1..m : k = p
      BY <1>10
    <3>2. PICK s : s = b /\ Sought(s, x[k].value, key)
      BY <2>2, <3>1 DEF Sought
    <3>3. FirstPast(PartOf(c, cut, k), key, s.at)
      BY <3>2, DataSearch
    <3>4. s.at \in 1 .. cut[k] - Start(cut, k) + 1
      BY <3>2, DataSearch
    <3>5. IterValid(s) <=> s.at <= cut[k] - Start(cut, k)
      BY <3>2, DataSearch
    <3>6. IterValid(s) => [key |-> s.key, value |-> IterValue(s)] = c[Start(cut, k) + s.at]
      BY <3>2, DataSearch
    <3> QED BY <3>1, <3>2, <3>3, <3>4, <3>5, <3>6
  <2>4. /\ Start(cut, p) \in Nat /\ cut[p] \in Nat /\ Start(cut, p) < cut[p]
        /\ cut[p] <= Len(c)
    BY <1>10, PartType
  <2>5. PICK f \in Nat, e \in Nat : f = Start(cut, p) /\ e = cut[p] /\ f < e /\ e <= Len(c)
    BY <2>4
  <2>6. PICK n \in Nat : n = e - f /\ f + n = e
    BY <2>5
  <2>7. PICK d : d = b.at /\ d \in 1 .. n + 1
    BY <2>3, <2>5, <2>6
  <2>8. d \in Nat /\ d >= 1 /\ d <= n + 1
    BY <2>6, <2>7
  <2>9. PICK l \in Nat : l = Len(c) /\ e <= l
    BY <1>1, <2>5
  <2>10. PICK q : q = f + d /\ q \in 1 .. Len(c) + 1
    <3>1. f + d \in 1 .. l + 1
      BY <2>6, <2>8, <2>9
    <3> QED BY <2>9, <3>1
  <2>11. Past(key) = q
    <3>1. FirstPast(c, key, q)
      BY <1>8, <2>1, <2>3, <2>5, <2>7, <2>10
    <3> QED BY <1>1, <3>1, PastFirst
  <2>12. CASE IterValid(b)
    <3>1. InternalGet(key) = c[q]
      BY <1>5, <2>1, <2>3, <2>5, <2>7, <2>10, <2>12
    <3>2. d <= n
      BY <2>3, <2>5, <2>6, <2>7, <2>12
    <3>3. q \in 1..Len(c)
      <4>1. f + d \in 1 .. l
        BY <2>6, <2>8, <2>9, <3>2
      <4> QED BY <2>10, <2>9, <4>1
    <3>4. ApproximateOffsetOf(key) = x[p].value.offset
      BY <1>6, <2>1
    <3>5. /\ p \in 1..Len(Index.entries) /\ Index.entries[p].value = x[p].value
          /\ \A j \in 1 .. cut[p] - Start(cut, p) :
               j \in 1..Len(EntriesOf(p)) /\ EntriesOf(p)[j] = c[Start(cut, p) + j]
      BY <1>10, EntriesAre
    <3>6. d \in 1..n
      BY <2>6, <2>8, <3>2
    <3>7. d \in 1..Len(EntriesOf(p)) /\ EntriesOf(p)[d] = c[q]
      BY <2>5, <2>6, <2>10, <3>5, <3>6
    <3> QED BY <2>10, <2>11, <3>1, <3>3, <3>4, <3>5, <3>7
  <2>13. CASE ~ IterValid(b)
    <3>1. InternalGet(key) = None
      BY <1>5, <2>13
    <3>2. ASSUME q \in 1..Len(c), c[q].key = key PROVE FALSE
      <4>1. ~ d <= n
        BY <2>3, <2>5, <2>6, <2>7, <2>13
      <4>2. q = e + 1
        <5>1. d = n + 1
          BY <2>6, <2>8, <4>1
        <5>2. f + d = e + 1
          BY <2>6, <5>1
        <5> QED BY <2>10, <5>2
      <4>3. q \in e + 1 .. Len(c)
        BY <1>1, <2>5, <3>2, <4>2
      <4>4. Less(sep[p], c[q].key) /\ ~ Less(sep[p], key)
        BY <1>8, <2>1, <2>5, <4>3
      <4> QED BY <3>2, <4>4
    <3> QED BY <2>10, <2>11, <3>1, <3>2
  <2> QED BY <2>12, <2>13
<1>11. p = m + 1 \/ p \in 1..m
  BY <1>1, <1>8
<1> QED BY <1>9, <1>10, <1>11

LEMMA LookupsFollow ==
  ASSUME Sound(rep), Recorded
  PROVE  LookupsAgree
<1> SUFFICES ASSUME rep.footer # None, NEW key \in Keys
             PROVE  LET i == Past(key)
                        e == IF i > Len(contents) THEN None ELSE contents[i]
                    IN  /\ InternalGet(key) \in {e, None}
                        /\ e # None /\ e.key = key =>
                             /\ InternalGet(key) = e
                             /\ \E j \in 1..Len(Index.entries) :
                                  /\ Index.entries[j].value.offset = ApproximateOffsetOf(key)
                                  /\ \E k \in 1..Len(EntriesOf(j)) : EntriesOf(j)[k] = e
  BY DEF LookupsAgree
<1>1. PICK c : c = contents
  OBVIOUS
<1>2. PICK cut, sep, x, m : Laid(c, cut, sep, x, m) /\ Served(c, cut, x, m)
  BY <1>1, FinishedServes
<1>3. key \in Seq(Nat)
  BY KeyType
<1>4. PICK q \in 1 .. Len(c) + 1 :
        /\ Past(key) = q
        /\ InternalGet(key) # None => q \in 1..Len(c) /\ InternalGet(key) = c[q]
        /\ q \in 1..Len(c) /\ c[q].key = key =>
             /\ InternalGet(key) = c[q]
             /\ \E j \in 1..Len(Index.entries) :
                  /\ Index.entries[j].value.offset = ApproximateOffsetOf(key)
                  /\ \E k \in 1..Len(EntriesOf(j)) : EntriesOf(j)[k] = c[q]
  BY <1>1, <1>2, <1>3, KeyLookup
<1>5. Len(c) \in Nat
  BY <1>2 DEF Laid
<1>6. CASE q = Len(c) + 1
  <2>1. Past(key) > Len(contents)
    BY <1>1, <1>4, <1>5, <1>6
  <2>2. InternalGet(key) = None
    BY <1>4, <1>5, <1>6
  <2> QED BY <2>1, <2>2
<1>7. CASE q \in 1..Len(c)
  <2>1. ~ Past(key) > Len(contents)
    BY <1>1, <1>4, <1>5, <1>7
  <2>2. contents[Past(key)] = c[q]
    BY <1>1, <1>4
  <2>3. PICK e : e = c[q]
    OBVIOUS
  <2>4. InternalGet(key) \in {e, None}
    BY <1>4, <2>3
  <2>5. e.key = key => /\ InternalGet(key) = e
                       /\ \E j \in 1..Len(Index.entries) :
                            /\ Index.entries[j].value.offset = ApproximateOffsetOf(key)
                            /\ \E k \in 1..Len(EntriesOf(j)) : EntriesOf(j)[k] = e
    BY <1>4, <1>7, <2>3
  <2> QED BY <2>1, <2>2, <2>3, <2>4, <2>5
<1>8. q = Len(c) + 1 \/ q \in 1..Len(c)
  BY <1>5
<1> QED BY <1>6, <1>7, <1>8

(* Every key that was added is found in the finished table, and the block  *)
(* it is in; a lookup of another key yields the next entry or none         *)
(* (table.cc:200).                                                         *)
THEOREM LookupsHold == Spec => []LookupsAgree
<1>1. Init => Sound(rep) /\ Recorded
  BY InitSound, InitRecorded
<1>2. Sound(rep) /\ Recorded /\ [Next]_vars => Sound(rep)' /\ Recorded'
  <2>1. ASSUME Sound(rep), Recorded, [Next]_vars
        PROVE  Sound(rep') /\ Recorded'
    BY <2>1, NextSound, NextRecorded
  <2> QED BY <2>1 DEF Sound, Apart, LeadsInto, HandlesOf, EndOf
<1>3. Sound(rep) /\ Recorded => LookupsAgree
  BY LookupsFollow
<1> QED BY <1>1, <1>2, <1>3, PTL DEF Spec

-----------------------------------------------------------------------------
(* The iterator over one block, or in its place one that shows nothing.    *)

On(d, p) == \/ d.ok = TRUE /\ Shows(d, p)
            \/ d.ok = FALSE /\ Shows(d, <<>>)

LEMMA OnSeek ==
  ASSUME NEW d, NEW p, On(d, p), Sorted(p), NEW key \in Seq(Nat), NEW s, s = BlockSeek(d, key)
  PROVE  /\ On(s, p) /\ s.ok = d.ok
         /\ s.ok = TRUE => FirstPast(p, key, s.at)
<1>1. CASE d.ok = TRUE /\ Shows(d, p)
  <2>1. Shows(s, p) /\ s.ok = d.ok /\ FirstPast(p, key, s.at)
    BY <1>1, SeekFinds
  <2> QED BY <1>1, <2>1 DEF On
<1>2. CASE d.ok = FALSE /\ Shows(d, <<>>)
  <2>1. PICK e : e = <<>>
    OBVIOUS
  <2>2. Shows(d, e) /\ Sorted(e)
    BY <1>2, <2>1 DEF Sorted
  <2>3. Shows(s, e) /\ s.ok = d.ok
    BY <2>2, SeekFinds
  <2> QED BY <1>2, <2>1, <2>3 DEF On
<1> QED BY <1>1, <1>2 DEF On

LEMMA OnFirst ==
  ASSUME NEW d, NEW p, On(d, p), NEW s, s = BlockSeekToFirst(d)
  PROVE  On(s, p) /\ s.ok = d.ok /\ s.at = 1
<1>1. CASE d.ok = TRUE /\ Shows(d, p)
  BY <1>1, FirstShows DEF On
<1>2. CASE d.ok = FALSE /\ Shows(d, <<>>)
  <2>1. PICK e : e = <<>>
    OBVIOUS
  <2>2. Shows(d, e)
    BY <1>2, <2>1
  <2>3. Shows(s, e) /\ s.ok = d.ok /\ s.at = 1
    BY <2>2, FirstShows
  <2> QED BY <1>2, <2>1, <2>3 DEF On
<1> QED BY <1>1, <1>2 DEF On

LEMMA OnShows ==
  ASSUME NEW d, NEW p, On(d, p)
  PROVE  /\ d \in IterT
         /\ IterValid(d) => d.ok = TRUE
         /\ d.ok = TRUE => Shows(d, p)
<1>1. CASE d.ok = TRUE /\ Shows(d, p)
  BY <1>1 DEF Shows
<1>2. CASE d.ok = FALSE /\ Shows(d, <<>>)
  <2>1. PICK e : e = <<>>
    OBVIOUS
  <2>2. Shows(d, e) /\ Len(e) = 0
    BY <1>2, <2>1
  <2>3. ~ IterValid(d)
    <3>1. IterValid(d) <=> d.at <= Len(e)
      BY <2>2, ShowsValue
    <3>2. d.at \in 1..1
      BY <2>2 DEF Shows
    <3> QED BY <2>2, <3>1, <3>2
  <2> QED BY <1>2, <2>2, <2>3 DEF Shows
<1> QED BY <1>1, <1>2 DEF On

LEMMA OnNext ==
  ASSUME NEW d, NEW p, On(d, p), IterValid(d), NEW s, s = BlockNext(d)
  PROVE  On(s, p) /\ s.ok = d.ok /\ s.at = d.at + 1
<1>1. d.ok = TRUE /\ Shows(d, p)
  BY OnShows
<1>2. d.at <= Len(p)
  BY <1>1, ShowsValue
<1>3. Shows(s, p) /\ s.at = d.at + 1 /\ s.ok = d.ok
  BY <1>1, <1>2, NextShows
<1> QED BY <1>1, <1>3 DEF On

-----------------------------------------------------------------------------
(* The two-level iterator: its index iterator leads to the block that the  *)
(* data iterator is over.                                                  *)

Leads(t, c, cut, x, m) ==
  /\ t \in TwoLevelT
  /\ Shows(t.index, x) /\ t.index.ok = TRUE
  /\ t.index.at > m => t.data = None
  /\ t.index.at <= m => /\ t.data # None /\ t.handle = x[t.index.at].value
                        /\ On(t.data, PartOf(c, cut, t.index.at))

(* The same while the index iterator is ahead.                             *)
Moved(t, c, cut, x, m) ==
  /\ t \in TwoLevelT
  /\ Shows(t.index, x) /\ t.index.ok = TRUE
  /\ t.data # None => \E k \in 1..m : /\ t.handle = x[k].value
                                      /\ On(t.data, PartOf(c, cut, k))

Fine(t) == t.ok /\ (t.data = None \/ t.data.ok)

LEMMA FineIs ==
  ASSUME NEW t, t.index.ok = TRUE
  PROVE  StatusOK(t) <=> Fine(t)
BY DEF StatusOK, Fine

LEMMA IndexAt ==
  ASSUME NEW c, NEW cut, NEW sep, NEW x, NEW m, Laid(c, cut, sep, x, m), NEW i, Shows(i, x)
  PROVE  /\ i.at \in 1 .. m + 1 /\ i.at \in Nat /\ m \in Nat
         /\ IterValid(i) <=> i.at <= m
         /\ IterValid(i) <=> i.at \in 1..m
         /\ ~ IterValid(i) <=> i.at > m
         /\ IterValid(i) => IterValue(i) = x[i.at].value
<1>1. Len(x) = m /\ m \in Nat
  BY DEF Laid
<1>2. i.at \in 1 .. m + 1
  BY <1>1 DEF Shows
<1>3. IterValid(i) <=> i.at <= m
  BY <1>1, ShowsValue
<1>4. IterValid(i) => IterValue(i) = x[i.at].value
  BY ShowsValue
<1>5. PICK a \in Nat : a = i.at /\ a \in 1 .. m + 1
  BY <1>1, <1>2
<1>6. (a <= m <=> a \in 1..m) /\ (~ a <= m <=> a > m)
  BY <1>1, <1>5
<1> QED BY <1>1, <1>2, <1>3, <1>4, <1>5, <1>6

(* Moving the index iterator.                                              *)
WithIndex(u, t, i) == u = [t EXCEPT !.index = i]

LEMMA IndexMoves ==
  ASSUME NEW c, NEW cut, NEW sep, NEW x, NEW m, Laid(c, cut, sep, x, m), NEW t, Leads(t, c, cut, x, m),
         NEW i, Shows(i, x), i.ok = TRUE, NEW u, WithIndex(u, t, i)
  PROVE  Moved(u, c, cut, x, m) /\ u.index = i /\ (Fine(u) <=> Fine(t))
<1>1. t \in TwoLevelT /\ i \in IterT /\ Shows(t.index, x)
  BY DEF Leads, Shows
<1>2. /\ u \in TwoLevelT /\ u.index = i /\ u.data = t.data /\ u.handle = t.handle
      /\ u.ok = t.ok
  BY <1>1 DEF WithIndex, TwoLevelT
<1>3. t.data # None => t.index.at \in 1..m
  BY <1>1, IndexAt DEF Leads
<1>4. ASSUME u.data # None PROVE \E k \in 1..m : u.handle = x[k].value /\ On(u.data, PartOf(c, cut, k))
  <2>1. PICK k \in 1..m : k = t.index.at
    BY <1>2, <1>3, <1>4
  <2>2. t.index.at <= m
    BY <1>1, <1>2, <1>3, <1>4, IndexAt
  <2> QED BY <1>2, <2>1, <2>2 DEF Leads
<1>5. Moved(u, c, cut, x, m)
  BY <1>2, <1>4 DEF Moved
<1> QED BY <1>2, <1>5 DEF Fine

LEMMA SetIs ==
  ASSUME NEW t \in TwoLevelT, NEW d \in IterT \cup {None}, NEW u, u = SetDataIterator(t, d)
  PROVE  /\ u \in TwoLevelT /\ u.index = t.index /\ u.data = d /\ u.handle = t.handle
         /\ u.ok <=> Fine(t)
<1>1. t.ok \in BOOLEAN
  BY DEF TwoLevelT
<1>2. PICK k \in BOOLEAN : k = (t.ok /\ (t.data = None \/ t.data.ok))
  OBVIOUS
<1>3. u = [t EXCEPT !.ok = k, !.data = d]
  BY <1>2 DEF SetDataIterator
<1>4. u \in TwoLevelT /\ u.index = t.index /\ u.data = d /\ u.handle = t.handle /\ u.ok = k
  BY <1>3 DEF TwoLevelT
<1> QED BY <1>2, <1>4 DEF Fine

(* Taking the block that the index leads to.                               *)
Taken(u, t, readable) == u = InitDataBlock(t, readable)

LEMMA BlockTaken ==
  ASSUME NEW c, NEW cut, NEW sep, NEW x, NEW m, Laid(c, cut, sep, x, m), Served(c, cut, x, m),
         NEW t, Moved(t, c, cut, x, m), MustRead(t), NEW readable \in BOOLEAN,
         NEW u, Taken(u, t, readable)
  PROVE  /\ Leads(u, c, cut, x, m) /\ u.index = t.index
         /\ Fine(u) => Fine(t)
         /\ readable /\ Fine(t) => Fine(u)
<1>1. t \in TwoLevelT /\ Shows(t.index, x) /\ t.index.ok = TRUE
  BY DEF Moved
<1>2. IterValid(t.index)
  BY DEF MustRead
<1>3. t.index.at <= m /\ ~ t.index.at > m /\ t.index.at \in 1..m /\ IterValue(t.index) = x[t.index.at].value
  BY <1>1, <1>2, IndexAt
<1>4. PICK j \in 1..m : j = t.index.at
  BY <1>3
<1>5. PICK h : h = x[j].value /\ h = IterValue(t.index) /\ h \in HandleT
  BY <1>3, <1>4 DEF Laid
<1>6. PICK d : d = BlockReader(h, readable)
  OBVIOUS
<1>7. On(d, PartOf(c, cut, j)) /\ (d.ok <=> readable)
  <2>1. CASE readable
    <3>1. d = NewBlockIter(BlockAt(h))
      BY <1>6, <2>1 DEF BlockReader
    <3>2. PICK p : p = PartOf(c, cut, j) /\ Encodes(BlockAt(h), p)
      BY <1>5 DEF Served
    <3>3. Shows(d, p) /\ d.ok = TRUE
      BY <3>1, <3>2, NewShows
    <3> QED BY <2>1, <3>2, <3>3 DEF On
  <2>2. CASE ~ readable
    <3>1. d = ErrorIter
      BY <1>6, <2>2 DEF BlockReader
    <3>2. Shows(d, <<>>) /\ d.ok = FALSE
      BY <3>1, ErrorShows
    <3> QED BY <2>2, <3>2 DEF On
  <2> QED BY <2>1, <2>2
<1>8. d \in IterT
  BY <1>7, OnShows
<1>9. PICK s : s = SetDataIterator(t, d)
  OBVIOUS
<1>10. s \in TwoLevelT /\ s.index = t.index /\ s.data = d /\ (s.ok <=> Fine(t))
  BY <1>1, <1>8, <1>9, SetIs
<1>11. u = [s EXCEPT !.handle = h]
  BY <1>2, <1>5, <1>6, <1>9 DEF Taken, InitDataBlock
<1>12. u \in TwoLevelT /\ u.index = t.index /\ u.data = d /\ u.handle = h /\ u.ok = s.ok
  BY <1>5, <1>10, <1>11 DEF TwoLevelT
<1>13. d # None
  BY <1>8, IteratorAssumption DEF IteratorAssumption
<1>14. Leads(u, c, cut, x, m)
  BY <1>1, <1>3, <1>4, <1>5, <1>7, <1>12, <1>13 DEF Leads
<1> QED BY <1>7, <1>10, <1>12, <1>13, <1>14 DEF Fine

LEMMA BlockKept ==
  ASSUME NEW c, NEW cut, NEW sep, NEW x, NEW m, Laid(c, cut, sep, x, m), Served(c, cut, x, m),
         NEW t, Moved(t, c, cut, x, m), ~ MustRead(t), NEW readable \in BOOLEAN,
         NEW u, Taken(u, t, readable)
  PROVE  /\ Leads(u, c, cut, x, m) /\ u.index = t.index
         /\ Fine(u) <=> Fine(t)
<1>1. t \in TwoLevelT /\ Shows(t.index, x) /\ t.index.ok = TRUE
  BY DEF Moved
<1>2. CASE IterValid(t.index)
  <2>1. u = t
    BY <1>2 DEF Taken, InitDataBlock
  <2>2. t.index.at <= m /\ ~ t.index.at > m /\ t.index.at \in 1..m /\ IterValue(t.index) = x[t.index.at].value
    BY <1>1, <1>2, IndexAt
  <2>3. t.data # None /\ t.handle = IterValue(t.index)
    BY <1>2 DEF MustRead
  <2>4. PICK k \in 1..m : t.handle = x[k].value /\ On(t.data, PartOf(c, cut, k))
    BY <2>3 DEF Moved
  <2>5. k = t.index.at
    <3>1. PICK j \in 1..m : j = t.index.at
      BY <2>2
    <3>2. x[j].value = x[k].value
      BY <2>2, <2>3, <2>4, <3>1
    <3> QED BY <3>1, <3>2 DEF Served
  <2>6. Leads(u, c, cut, x, m)
    BY <1>1, <2>1, <2>2, <2>3, <2>4, <2>5 DEF Leads
  <2> QED BY <2>1, <2>6
<1>3. CASE ~ IterValid(t.index)
  <2>1. u = SetDataIterator(t, None)
    BY <1>3 DEF Taken, InitDataBlock
  <2>2. /\ u \in TwoLevelT /\ u.index = t.index /\ u.data = None
        /\ u.ok <=> Fine(t)
    BY <1>1, <2>1, SetIs
  <2>3. ~ t.index.at <= m
    BY <1>1, <1>3, IndexAt
  <2>4. Leads(u, c, cut, x, m)
    BY <1>1, <2>2, <2>3 DEF Leads
  <2> QED BY <2>2, <2>4 DEF Fine
<1> QED BY <1>2, <1>3

LEMMA BlockLed ==
  ASSUME NEW c, NEW cut, NEW sep, NEW x, NEW m, Laid(c, cut, sep, x, m), Served(c, cut, x, m),
         NEW t, Moved(t, c, cut, x, m), NEW readable \in BOOLEAN,
         NEW u, Taken(u, t, readable)
  PROVE  /\ Leads(u, c, cut, x, m) /\ u.index = t.index
         /\ Fine(u) => Fine(t)
         /\ Fine(t) => Fine(u) \/ (MustRead(t) /\ ~ readable)
<1>1. CASE MustRead(t)
  BY <1>1, BlockTaken
<1>2. CASE ~ MustRead(t)
  BY <1>2, BlockKept
<1> QED BY <1>1, <1>2

(* Moving the data iterator.                                               *)
WithData(u, t, d) == u = [t EXCEPT !.data = d]

LEMMA DataMoves ==
  ASSUME NEW c, NEW cut, NEW x, NEW m, NEW t, Leads(t, c, cut, x, m), t.data # None,
         NEW d, t.index.at <= m => On(d, PartOf(c, cut, t.index.at)), d \in IterT, d.ok = t.data.ok,
         NEW u, WithData(u, t, d)
  PROVE  /\ Leads(u, c, cut, x, m) /\ u.index = t.index /\ u.data = d
         /\ Fine(u) <=> Fine(t)
<1>1. t \in TwoLevelT
  BY DEF Leads
<1>2. d # None
  BY IteratorAssumption DEF IteratorAssumption
<1>3. /\ u \in TwoLevelT /\ u.index = t.index /\ u.data = d /\ u.handle = t.handle
      /\ u.ok = t.ok
  BY <1>1 DEF WithData, TwoLevelT
<1>4. Leads(u, c, cut, x, m)
  BY <1>2, <1>3 DEF Leads
<1> QED BY <1>2, <1>3, <1>4 DEF Fine

-----------------------------------------------------------------------------
(* The entry that the iterator is at or will come to if nothing fails.     *)

Ahead(t, c, cut, m) ==
  IF t.index.at > m THEN Len(c) + 1
  ELSE IF t.data.ok THEN Start(cut, t.index.at) + t.data.at
  ELSE cut[t.index.at] + 1

LEMMA AheadIs ==
  ASSUME NEW c, NEW cut, NEW sep, NEW x, NEW m, Laid(c, cut, sep, x, m),
         NEW t, Leads(t, c, cut, x, m)
  PROVE  /\ Ahead(t, c, cut, m) \in 1 .. Len(c) + 1
         /\ ~ IterValid(t.index) => ~ Valid(t) /\ t.data = None /\ Ahead(t, c, cut, m) = Len(c) + 1
         /\ IterValid(t.index) =>
              /\ t.data # None /\ t.index.at \in 1..m
              /\ Ahead(t, c, cut, m) = IF t.data.ok THEN Start(cut, t.index.at) + t.data.at
                                       ELSE cut[t.index.at] + 1
              /\ ~ Valid(t) => Ahead(t, c, cut, m) = cut[t.index.at] + 1
              /\ Valid(t) => /\ t.data.ok = TRUE
                             /\ Ahead(t, c, cut, m) \in 1..Len(c)
                             /\ [key |-> t.data.key, value |-> IterValue(t.data)]
                                  = c[Ahead(t, c, cut, m)]
<1>1. Shows(t.index, x) /\ c \in Seq(ContentT) /\ Len(c) \in Nat
  BY DEF Leads, Laid
<1>2. CASE ~ IterValid(t.index)
  <2>1. t.index.at > m
    BY <1>1, <1>2, IndexAt
  <2>2. t.data = None
    BY <2>1 DEF Leads
  <2> QED BY <1>1, <1>2, <2>1, <2>2 DEF Ahead, Valid
<1>3. CASE IterValid(t.index)
  <2>1. t.index.at <= m /\ ~ t.index.at > m /\ t.index.at \in 1..m
    BY <1>1, <1>3, IndexAt
  <2>2. PICK j \in 1..m : j = t.index.at
    BY <2>1
  <2>3. t.data # None /\ On(t.data, PartOf(c, cut, j))
    BY <2>1, <2>2 DEF Leads
  <2>4. PICK d : d = t.data
    OBVIOUS
  <2>5. PICK p : p = PartOf(c, cut, j)
    OBVIOUS
  <2>6. /\ Start(cut, j) \in Nat /\ cut[j] \in Nat /\ Start(cut, j) < cut[j]
        /\ cut[j] <= Len(c)
        /\ Len(p) = cut[j] - Start(cut, j)
        /\ \A i \in 1 .. cut[j] - Start(cut, j) :
             p[i] = c[Start(cut, j) + i] /\ Start(cut, j) + i \in 1..Len(c)
    BY <2>5, PartType
  <2>7. PICK f \in Nat, e \in Nat : f = Start(cut, j) /\ e = cut[j] /\ f < e /\ e <= Len(c)
    BY <2>6
  <2>8. PICK n \in Nat : n = Len(p) /\ n = e - f /\ f + n = e
    BY <2>6, <2>7
  <2>9. PICK g : g = Ahead(t, c, cut, m) /\ g = IF d.ok THEN f + d.at ELSE e + 1
    BY <2>1, <2>2, <2>4, <2>7 DEF Ahead
  <2>10. Valid(t) <=> IterValid(d)
    BY <2>3, <2>4 DEF Valid
  <2>11. On(d, p)
    BY <2>3, <2>4, <2>5
  <2>12. CASE d.ok = TRUE
    <3>1. Shows(d, p)
      BY <2>11, <2>12, OnShows
    <3>2. PICK a : a = d.at /\ a \in 1 .. n + 1 /\ (IterValid(d) <=> a <= n)
      BY <2>8, <3>1, ShowsValue DEF Shows
    <3>3. g = f + a
      BY <2>9, <2>12, <3>2
    <3>4. g \in 1 .. Len(c) + 1
      <4>1. PICK l \in Nat : l = Len(c) /\ e <= l
        BY <1>1, <2>7
      <4>2. f + a \in 1 .. l + 1
        BY <2>8, <3>2, <4>1
      <4> QED BY <3>3, <4>1, <4>2
    <3>5. ASSUME ~ IterValid(d) PROVE g = e + 1
      <4>1. a = n + 1
        BY <2>8, <3>2, <3>5
      <4> QED BY <2>8, <3>3, <4>1
    <3>6. ASSUME IterValid(d)
          PROVE  g \in 1..Len(c) /\ [key |-> d.key, value |-> IterValue(d)] = c[g]
      <4>1. a \in 1..n
        BY <2>8, <3>2, <3>6, Within
      <4>2. p[a] = c[g] /\ g \in 1..Len(c)
        BY <2>6, <2>7, <2>8, <3>3, <4>1
      <4>3. IterValue(d) = p[a].value /\ d.key = p[a].key
        BY <3>1, <3>2, <3>6, ShowsValue
      <4>4. c[g] \in ContentT
        BY <1>1, <4>2, ContentType
      <4> QED BY <4>2, <4>3, <4>4 DEF ContentT
    <3> QED BY <1>3, <2>1, <2>2, <2>3, <2>4, <2>7, <2>9, <2>10, <2>12, <3>2, <3>3, <3>4, <3>5, <3>6
  <2>13. CASE d.ok = FALSE
    <3>1. ~ IterValid(d)
      BY <2>11, <2>13, OnShows
    <3>2. g = e + 1
      BY <2>9, <2>13
    <3>3. g \in 1 .. Len(c) + 1
      BY <1>1, <2>7, <3>2
    <3> QED BY <1>3, <2>1, <2>2, <2>3, <2>4, <2>7, <2>9, <2>10, <2>13, <3>1, <3>2, <3>3
  <2> QED BY <2>11, <2>12, <2>13 DEF On
<1> QED BY <1>2, <1>3

LEMMA ModSmall ==
  ASSUME NEW a \in Nat, NEW b \in Nat, a < b
  PROVE  a % b = a
OBVIOUS

LEMMA PastExists ==
  ASSUME NEW c \in Seq(ContentT), Sorted(c), NEW key \in Seq(Nat)
  PROVE  \E q \in 1 .. Len(c) + 1 : FirstPast(c, key, q)
<1>1. PICK n \in Nat : n = Len(c)
  OBVIOUS
<1>2. PICK T : T = {i \in 1..n : ~ Less(c[i].key, key)} \cup {n + 1}
  OBVIOUS
<1>3. T \subseteq Nat /\ T # {}
  BY <1>2
<1>4. PICK q \in T : \A y \in T : q <= y
  BY <1>3, LeastNatural
<1>5. q \in 1 .. n + 1
  BY <1>2, <1>4
<1>6. ASSUME NEW i \in 1..n PROVE Less(c[i].key, key) <=> i < q
  <2>1. CASE i < q
    <3>1. i \notin T
      BY <1>4, <1>5, <2>1
    <3> QED BY <1>2, <2>1, <3>1
  <2>2. CASE q <= i
    <3>1. q \in 1..n
      BY <1>5, <2>2
    <3>2. ~ Less(c[q].key, key)
      BY <1>2, <1>4, <3>1
    <3>3. PICK a \in Seq(Nat), b \in Seq(Nat) : a = c[q].key /\ b = c[i].key
      BY <1>1, <3>1, ContentType
    <3>4. a = b \/ Less(a, b)
      <4>1. q = i \/ q < i
        BY <1>5, <2>2
      <4> QED BY <1>1, <3>1, <3>3, <4>1 DEF Sorted
    <3>5. ~ Less(b, key)
      BY <3>2, <3>3, <3>4, LessTransitive
    <3> QED BY <1>5, <2>2, <3>3, <3>5
  <2> QED BY <1>5, <2>1, <2>2
<1> QED BY <1>1, <1>5, <1>6 DEF FirstPast

(* Entries that were added differ in their keys.                           *)
LEMMA PositionIs ==
  ASSUME NEW c, c = contents, c \in Seq(ContentT), Sorted(c), NEW t, NEW q,
         Valid(t) => q \in 1..Len(c) /\ [key |-> t.data.key, value |-> IterValue(t.data)] = c[q],
         ~ Valid(t) => q = Len(c) + 1
  PROVE  Position(t) = q
<1>1. CASE Valid(t)
  <2>1. PICK e : e = [key |-> t.data.key, value |-> IterValue(t.data)] /\ e = c[q]
    BY <1>1
  <2>2. PICK n \in Nat : n = Len(c)
    OBVIOUS
  <2>3. PICK T : T = {i \in 1..n : c[i] = e} \cup {n + 2}
    OBVIOUS
  <2>4. q \in 1..n /\ q \in T
    BY <1>1, <2>1, <2>2, <2>3
  <2>5. ASSUME NEW i \in 1..n, c[i] = e PROVE i = q
    <3>1. PICK a \in Seq(Nat) : a = e.key
      BY <2>1, <2>2, <2>4, ContentType
    <3>2. ~ Less(a, a)
      BY LessIrreflexive
    <3>3. i < q => Less(a, a)
      BY <2>1, <2>2, <2>4, <2>5, <3>1 DEF Sorted
    <3>4. q < i => Less(a, a)
      BY <2>1, <2>2, <2>4, <2>5, <3>1 DEF Sorted
    <3> QED BY <2>4, <3>2, <3>3, <3>4
  <2>6. T \subseteq Nat /\ \A y \in T : q <= y
    <3>1. \A y \in T : y \in Nat /\ (y = q \/ y = n + 2)
      BY <2>3, <2>4, <2>5
    <3> QED BY <2>4, <3>1
  <2>7. Least(T) = q
    BY <2>4, <2>6, LeastIs
  <2>8. Position(t) = Least(T) % (n + 2)
    BY <1>1, <2>1, <2>2, <2>3 DEF Position
  <2>9. q % (n + 2) = q
    BY <2>4, ModSmall
  <2> QED BY <2>7, <2>8, <2>9
<1>2. CASE ~ Valid(t)
  BY <1>2 DEF Position
<1> QED BY <1>1, <1>2

-----------------------------------------------------------------------------
(* The operations of the two-level iterator.                               *)

SeekIs(s, d, key) == s = BlockSeek(d, key)

(* The call seeks in the block too, if there is one.                       *)
SeekInData(n, u, key) ==
  n = IF u.data = None THEN u ELSE [u EXCEPT !.data = BlockSeek(u.data, key)]

Asked(n, t, q, c, cut, x, m) ==
  /\ Leads(n, c, cut, x, m) /\ (Fine(n) => Fine(t))
  /\ q <= Ahead(n, c, cut, m)
  /\ Fine(n) => q = Ahead(n, c, cut, m)

LEMMA SeekLeads ==
  ASSUME NEW c, NEW cut, NEW sep, NEW x, NEW m, Laid(c, cut, sep, x, m), Served(c, cut, x, m),
         NEW t, Leads(t, c, cut, x, m), NEW key \in Seq(Nat), NEW q, FirstPast(c, key, q),
         NEW i, SeekIs(i, t.index, key), NEW v, WithIndex(v, t, i),
         NEW readable \in BOOLEAN, NEW u, Taken(u, v, readable),
         NEW n, SeekInData(n, u, key)
  PROVE  /\ Asked(n, t, q, c, cut, x, m)
         /\ Fine(t) => Fine(n) \/ (MustRead(v) /\ ~ readable)
<1>1. Shows(t.index, x) /\ t.index.ok = TRUE /\ Sorted(x)
  BY DEF Leads, Laid
<1>2. Shows(i, x) /\ i.ok = TRUE /\ FirstPast(x, key, i.at)
  BY <1>1, SeekFinds DEF SeekIs
<1>3. Moved(v, c, cut, x, m) /\ v.index = i /\ (Fine(v) <=> Fine(t))
  BY <1>2, IndexMoves
<1>4. /\ Leads(u, c, cut, x, m) /\ u.index = i
      /\ Fine(u) => Fine(v)
      /\ Fine(v) => Fine(u) \/ (MustRead(v) /\ ~ readable)
  BY <1>3, BlockLed
<1>5. PICK p : p = i.at
  OBVIOUS
<1>6. /\ p \in 1 .. m + 1
      /\ p = m + 1 => FirstPast(c, key, Len(c) + 1)
      /\ p <= m => /\ ~ Less(sep[p], key)
                   /\ \A k \in cut[p] + 1 .. Len(c) : Less(sep[p], c[k].key)
                   /\ \A d : FirstPast(PartOf(c, cut, p), key, d)
                             => FirstPast(c, key, Start(cut, p) + d)
  BY <1>2, <1>5, LedTo
<1>7. c \in Seq(ContentT) /\ Sorted(c) /\ m \in Nat /\ Len(c) \in Nat
  BY DEF Laid
<1>8. \A r, s : FirstPast(c, key, r) /\ FirstPast(c, key, s) => r = s
  <2> TAKE r, s
  <2> HAVE FirstPast(c, key, r) /\ FirstPast(c, key, s)
  <2>1. Least({k \in 1..Len(c) : ~ Less(c[k].key, key)} \cup {Len(c) + 1}) = r
    BY <1>7, PastIs
  <2>2. Least({k \in 1..Len(c) : ~ Less(c[k].key, key)} \cup {Len(c) + 1}) = s
    BY <1>7, PastIs
  <2> QED BY <2>1, <2>2
<1>9. CASE ~ IterValid(i)
  <2>1. u.data = None /\ Ahead(u, c, cut, m) = Len(c) + 1
    BY <1>4, <1>9, AheadIs
  <2>2. n = u
    BY <2>1 DEF SeekInData
  <2>3. p = m + 1
    <3>1. p > m
      BY <1>2, <1>5, <1>9, IndexAt
    <3> QED BY <1>6, <1>7, <3>1
  <2>4. q = Len(c) + 1
    BY <1>6, <1>8, <2>3
  <2>5. q <= Len(c) + 1
    BY <1>7, <2>4
  <2> QED BY <1>3, <1>4, <2>1, <2>2, <2>4, <2>5 DEF Asked
<1>10. CASE IterValid(i)
  <2>1. p <= m /\ p \in 1..m
    BY <1>2, <1>5, <1>10, IndexAt
  <2>2. u.data # None
    BY <1>4, <1>10, AheadIs
  <2>3. PICK part : part = PartOf(c, cut, p)
    OBVIOUS
  <2>4. On(u.data, part) /\ Sorted(part)
    <3>1. On(u.data, part)
      BY <1>4, <1>5, <2>1, <2>3 DEF Leads
    <3>2. Sorted(part)
      BY <2>1, <2>3, PartType
    <3> QED BY <3>1, <3>2
  <2>5. PICK d : SeekIs(d, u.data, key)
    BY DEF SeekIs
  <2>6. On(d, part) /\ d.ok = u.data.ok /\ (d.ok = TRUE => FirstPast(part, key, d.at))
    BY <2>4, <2>5, OnSeek DEF SeekIs
  <2>7. d \in IterT
    BY <2>6, OnShows
  <2>8. WithData(n, u, d)
    BY <2>2, <2>5 DEF SeekIs, SeekInData, WithData
  <2>9. /\ Leads(n, c, cut, x, m) /\ n.index = i /\ n.data = d
        /\ Fine(n) <=> Fine(u)
    <3>1. u.index.at <= m => On(d, PartOf(c, cut, u.index.at))
      BY <1>4, <1>5, <2>3, <2>6
    <3> QED BY <1>4, <2>2, <2>6, <2>7, <2>8, <3>1, DataMoves
  <2>10. Ahead(n, c, cut, m) = IF d.ok THEN Start(cut, p) + d.at ELSE cut[p] + 1
    <3>1. Ahead(n, c, cut, m) = IF n.data.ok THEN Start(cut, n.index.at) + n.data.at
                                ELSE cut[n.index.at] + 1
      BY <1>10, <2>9, AheadIs
    <3> QED BY <1>5, <2>9, <3>1
  <2>11. Ahead(n, c, cut, m) \in 1 .. Len(c) + 1
    BY <2>9, AheadIs
  <2>12. d.ok \in BOOLEAN
    BY <2>7 DEF IterT
  <2>13. ASSUME d.ok = TRUE PROVE q = Ahead(n, c, cut, m)
    BY <1>6, <1>8, <2>1, <2>3, <2>6, <2>10, <2>13
  <2>14. ASSUME d.ok = FALSE PROVE q <= Ahead(n, c, cut, m)
    <3>1. PICK l \in Nat : l = Len(c)
      BY <1>7
    <3>2. PICK e \in Nat : e = cut[p] /\ e <= l
      BY <2>1, <3>1, PartType
    <3>3. Ahead(n, c, cut, m) = e + 1
      BY <2>10, <2>14, <3>2
    <3>4. q \in 1 .. l + 1 /\ \A k \in 1..l : Less(c[k].key, key) <=> k < q
      BY <3>1 DEF FirstPast
    <3>5. ASSUME e + 1 < q PROVE FALSE
      <4>1. e + 1 \in 1..l /\ e + 1 \in e + 1 .. l
        BY <3>2, <3>4, <3>5
      <4>2. Less(c[e + 1].key, key)
        BY <3>4, <3>5, <4>1
      <4>3. Less(sep[p], c[e + 1].key) /\ ~ Less(sep[p], key)
        BY <1>6, <2>1, <3>1, <3>2, <4>1
      <4>4. PICK a \in Seq(Nat), b \in Seq(Nat) : a = sep[p] /\ b = c[e + 1].key
        <5>1. c[e + 1].key \in Seq(Nat)
          BY <1>7, <3>1, <4>1, ContentType
        <5>2. sep[p] \in Seq(Nat)
          <6>1. sep \in Seq(Seq(Nat)) /\ p \in 1..Len(sep)
            BY <2>1 DEF Laid, Separated
          <6> QED BY <6>1, ElementOfSeq
        <5> QED BY <5>1, <5>2
      <4>5. Less(a, key)
        BY <4>2, <4>3, <4>4, LessTransitive
      <4> QED BY <4>3, <4>4, <4>5
    <3> QED BY <3>2, <3>3, <3>4, <3>5
  <2>15. q <= Ahead(n, c, cut, m)
    <3>1. CASE d.ok = TRUE
      <4>1. q = Ahead(n, c, cut, m)
        BY <2>13, <3>1
      <4> QED BY <1>7, <2>11, <4>1
    <3> QED BY <2>12, <2>14, <3>1
  <2>16. Fine(n) => q = Ahead(n, c, cut, m)
    <3>1. Fine(n) => d.ok
      BY <2>7, <2>9, IteratorAssumption DEF Fine, IteratorAssumption
    <3> QED BY <2>12, <2>13, <3>1
  <2> QED BY <1>3, <1>4, <2>9, <2>15, <2>16 DEF Asked
<1> QED BY <1>9, <1>10

(* The call goes to the first entry of the block, if there is one.         *)
FirstInData(n, u) ==
  n = IF u.data = None THEN u ELSE [u EXCEPT !.data = BlockSeekToFirst(u.data)]

FirstIs(i, t)      == i = BlockSeekToFirst(t)
NextIs(i, t)       == i = BlockNext(t)
ComesTo(i, x, p)   == Shows(i, x) /\ i.ok = TRUE /\ i.at = p

(* The iterator enters part p at its first entry.                          *)
LEMMA EntersPart ==
  ASSUME NEW c, NEW cut, NEW sep, NEW x, NEW m, Laid(c, cut, sep, x, m), Served(c, cut, x, m),
         NEW t, Leads(t, c, cut, x, m), NEW p,
         NEW i, ComesTo(i, x, p),
         NEW v, WithIndex(v, t, i),
         NEW readable \in BOOLEAN, NEW u, Taken(u, v, readable),
         NEW n, FirstInData(n, u)
  PROVE  /\ Leads(n, c, cut, x, m) /\ (Fine(n) => Fine(t))
         /\ Fine(t) => Fine(n) \/ (MustRead(v) /\ ~ readable)
         /\ Start(cut, p) + 1 <= Ahead(n, c, cut, m)
         /\ Fine(n) => Start(cut, p) + 1 = Ahead(n, c, cut, m)
<1>1. Shows(i, x) /\ i.ok = TRUE /\ i.at = p
  BY DEF ComesTo
<1>2. Moved(v, c, cut, x, m) /\ v.index = i /\ (Fine(v) <=> Fine(t))
  BY <1>1, IndexMoves
<1>3. /\ Leads(u, c, cut, x, m) /\ u.index = i
      /\ Fine(u) => Fine(v)
      /\ Fine(v) => Fine(u) \/ (MustRead(v) /\ ~ readable)
  BY <1>2, BlockLed
<1>4. m \in Nat /\ Len(c) \in Nat /\ Start(cut, m + 1) = Len(c)
  BY DEF Laid
<1>5. CASE ~ IterValid(i)
  <2>1. u.data = None /\ Ahead(u, c, cut, m) = Len(c) + 1
    BY <1>3, <1>5, AheadIs
  <2>2. n = u
    BY <2>1 DEF FirstInData
  <2>3. p = m + 1
    <3>1. p > m /\ p \in 1 .. m + 1
      BY <1>5, <1>1, IndexAt
    <3> QED BY <1>4, <3>1
  <2>4. Start(cut, p) + 1 = Len(c) + 1 /\ Len(c) + 1 <= Len(c) + 1
    BY <1>4, <2>3
  <2> QED BY <1>2, <1>3, <2>1, <2>2, <2>4
<1>6. CASE IterValid(i)
  <2>1. p <= m /\ p \in 1..m
    BY <1>6, <1>1, IndexAt
  <2>2. u.data # None
    BY <1>3, <1>6, AheadIs
  <2>3. PICK part : part = PartOf(c, cut, p)
    OBVIOUS
  <2>4. On(u.data, part)
    BY <1>3, <1>1, <2>1, <2>3 DEF Leads
  <2>5. PICK d : /\ On(d, part) /\ d.ok = u.data.ok /\ d.at = 1
                 /\ n = [u EXCEPT !.data = d]
    BY <2>2, <2>4, OnFirst DEF FirstInData
  <2>6. WithData(n, u, d)
    BY <2>5 DEF WithData
  <2>7. d \in IterT
    BY <2>5, OnShows
  <2>8. /\ Leads(n, c, cut, x, m) /\ n.index = i /\ n.data = d
        /\ Fine(n) <=> Fine(u)
    <3>1. u.index.at <= m => On(d, PartOf(c, cut, u.index.at))
      BY <1>3, <1>1, <2>3, <2>5
    <3> QED BY <1>3, <2>2, <2>5, <2>6, <2>7, <3>1, DataMoves
  <2>9. Ahead(n, c, cut, m) = IF d.ok THEN Start(cut, p) + d.at ELSE cut[p] + 1
    <3>1. Ahead(n, c, cut, m) = IF n.data.ok THEN Start(cut, n.index.at) + n.data.at
                                ELSE cut[n.index.at] + 1
      BY <1>6, <2>8, AheadIs
    <3> QED BY <1>1, <2>8, <3>1
  <2>10. PICK f \in Nat, e \in Nat : f = Start(cut, p) /\ e = cut[p] /\ f < e
    BY <2>1, PartType
  <2>11. d.ok \in BOOLEAN
    BY <2>7 DEF IterT
  <2>12. ASSUME d.ok = TRUE PROVE Ahead(n, c, cut, m) = f + 1
    BY <2>5, <2>9, <2>10, <2>12
  <2>13. ASSUME d.ok = FALSE PROVE Ahead(n, c, cut, m) = e + 1
    BY <2>9, <2>10, <2>13
  <2>14. f + 1 <= f + 1 /\ f + 1 <= e + 1
    BY <2>10
  <2>15. Start(cut, p) + 1 <= Ahead(n, c, cut, m)
    BY <2>10, <2>11, <2>12, <2>13, <2>14
  <2>16. Fine(n) => d.ok
    BY <2>7, <2>8, IteratorAssumption DEF Fine, IteratorAssumption
  <2>17. Fine(n) => Start(cut, p) + 1 = Ahead(n, c, cut, m)
    BY <2>10, <2>11, <2>12, <2>16
  <2> QED BY <1>2, <1>3, <2>8, <2>15, <2>17
<1> QED BY <1>5, <1>6

LEMMA FirstLeads ==
  ASSUME NEW c, NEW cut, NEW sep, NEW x, NEW m, Laid(c, cut, sep, x, m), Served(c, cut, x, m),
         NEW t, Leads(t, c, cut, x, m),
         NEW i, FirstIs(i, t.index), NEW v, WithIndex(v, t, i),
         NEW readable \in BOOLEAN, NEW u, Taken(u, v, readable),
         NEW n, FirstInData(n, u)
  PROVE  /\ Asked(n, t, 1, c, cut, x, m)
         /\ Fine(t) => Fine(n) \/ (MustRead(v) /\ ~ readable)
<1>1. Shows(t.index, x) /\ t.index.ok = TRUE
  BY DEF Leads
<1>2. ComesTo(i, x, 1)
  BY <1>1, FirstShows DEF FirstIs, ComesTo
<1>3. Start(cut, 1) + 1 = 1
  BY DEF Start
<1>4. /\ Leads(n, c, cut, x, m) /\ (Fine(n) => Fine(t))
      /\ Fine(t) => Fine(n) \/ (MustRead(v) /\ ~ readable)
      /\ Start(cut, 1) + 1 <= Ahead(n, c, cut, m)
      /\ Fine(n) => Start(cut, 1) + 1 = Ahead(n, c, cut, m)
  BY <1>2, EntersPart
<1> QED BY <1>3, <1>4 DEF Asked

LEMMA SkipLeads ==
  ASSUME NEW c, NEW cut, NEW sep, NEW x, NEW m, Laid(c, cut, sep, x, m), Served(c, cut, x, m),
         NEW t, Leads(t, c, cut, x, m), ~ Valid(t), IterValid(t.index),
         NEW i, NextIs(i, t.index), NEW v, WithIndex(v, t, i),
         NEW readable \in BOOLEAN, NEW u, Taken(u, v, readable),
         NEW n, FirstInData(n, u)
  PROVE  /\ Asked(n, t, Ahead(t, c, cut, m), c, cut, x, m)
         /\ Fine(t) => Fine(n) \/ (MustRead(v) /\ ~ readable)
<1>1. Shows(t.index, x) /\ t.index.ok = TRUE
  BY DEF Leads
<1>2. t.index.at <= Len(x)
  BY <1>1, ShowsValue
<1>3. Shows(i, x) /\ i.ok = TRUE /\ i.at = t.index.at + 1
  BY <1>1, <1>2, NextShows DEF NextIs
<1>4. PICK k \in 1..m : k = t.index.at
  BY <1>1, IndexAt
<1>5. ComesTo(i, x, k + 1)
  BY <1>3, <1>4 DEF ComesTo
<1>6. Ahead(t, c, cut, m) = cut[k] + 1 /\ Start(cut, k + 1) = cut[k]
  <2>1. Ahead(t, c, cut, m) = cut[t.index.at] + 1
    BY AheadIs
  <2>2. Start(cut, k + 1) = cut[k]
    BY PartType
  <2> QED BY <1>4, <2>1, <2>2
<1>7. /\ Leads(n, c, cut, x, m) /\ (Fine(n) => Fine(t))
      /\ Fine(t) => Fine(n) \/ (MustRead(v) /\ ~ readable)
      /\ Start(cut, k + 1) + 1 <= Ahead(n, c, cut, m)
      /\ Fine(n) => Start(cut, k + 1) + 1 = Ahead(n, c, cut, m)
  BY <1>5, EntersPart
<1> QED BY <1>6, <1>7 DEF Asked

NextInData(n, t) == n = [t EXCEPT !.data = BlockNext(t.data)]

LEMMA NextLeads ==
  ASSUME NEW c, NEW cut, NEW sep, NEW x, NEW m, Laid(c, cut, sep, x, m),
         NEW t, Leads(t, c, cut, x, m), Valid(t),
         NEW n, NextInData(n, t)
  PROVE  /\ Leads(n, c, cut, x, m) /\ (Fine(n) <=> Fine(t))
         /\ Ahead(n, c, cut, m) = Ahead(t, c, cut, m) + 1
<1>1. t.data # None /\ IterValid(t.data)
  BY DEF Valid
<1>2. IterValid(t.index)
  BY AheadIs
<1>3. PICK k \in 1..m : k = t.index.at /\ t.index.at <= m
  BY <1>2, AheadIs, IndexAt DEF Leads
<1>4. PICK part : part = PartOf(c, cut, k)
  OBVIOUS
<1>5. On(t.data, part)
  BY <1>3, <1>4 DEF Leads
<1>6. PICK d : /\ On(d, part) /\ d.ok = t.data.ok /\ d.at = t.data.at + 1
               /\ n = [t EXCEPT !.data = d]
  BY <1>1, <1>5, OnNext DEF NextInData
<1>7. WithData(n, t, d) /\ d \in IterT
  BY <1>6, OnShows DEF WithData
<1>8. /\ Leads(n, c, cut, x, m) /\ n.index = t.index /\ n.data = d
      /\ Fine(n) <=> Fine(t)
  <2>1. t.index.at <= m => On(d, PartOf(c, cut, t.index.at))
    BY <1>3, <1>4, <1>6
  <2> QED BY <1>1, <1>6, <1>7, <2>1, DataMoves
<1>9. t.data.ok = TRUE
  BY <1>2, AheadIs
<1>10. Ahead(t, c, cut, m) = Start(cut, k) + t.data.at
  <2>1. Ahead(t, c, cut, m) = IF t.data.ok THEN Start(cut, t.index.at) + t.data.at
                              ELSE cut[t.index.at] + 1
    BY <1>2, AheadIs
  <2> QED BY <1>3, <1>9, <2>1
<1>11. Ahead(n, c, cut, m) = Start(cut, k) + d.at
  <2>1. IterValid(n.index) /\ Leads(n, c, cut, x, m)
    BY <1>2, <1>8
  <2>2. Ahead(n, c, cut, m) = IF n.data.ok THEN Start(cut, n.index.at) + n.data.at
                              ELSE cut[n.index.at] + 1
    BY <2>1, AheadIs
  <2> QED BY <1>3, <1>6, <1>8, <1>9, <2>2
<1>12. PICK f \in Nat, a \in Nat : f = Start(cut, k) /\ a = t.data.at
  <2>1. Shows(t.data, part)
    BY <1>5, <1>9, OnShows
  <2>2. t.data.at \in Nat
    BY <2>1, ShowsValue DEF Shows
  <2> QED BY <2>2, PartType
<1> QED BY <1>6, <1>8, <1>10, <1>11, <1>12

Dropped(n, t) == n = SetDataIterator(t, None)

LEMMA EndLeads ==
  ASSUME NEW c, NEW cut, NEW sep, NEW x, NEW m, Laid(c, cut, sep, x, m),
         NEW t, Leads(t, c, cut, x, m), ~ IterValid(t.index),
         NEW n, Dropped(n, t)
  PROVE  /\ Leads(n, c, cut, x, m) /\ (Fine(n) <=> Fine(t)) /\ ~ Valid(n)
         /\ Ahead(t, c, cut, m) = Len(c) + 1 /\ Ahead(n, c, cut, m) = Len(c) + 1
<1>1. t \in TwoLevelT /\ Shows(t.index, x) /\ t.index.ok = TRUE
  BY DEF Leads
<1>2. PICK u : /\ u = n /\ u \in TwoLevelT /\ u.index = t.index /\ u.data = None
               /\ u.ok <=> Fine(t)
  BY <1>1, SetIs DEF Dropped
<1>3. ~ t.index.at <= m
  BY <1>1, IndexAt
<1>4. Leads(u, c, cut, x, m)
  BY <1>1, <1>2, <1>3 DEF Leads
<1>5. Ahead(t, c, cut, m) = Len(c) + 1 /\ Ahead(u, c, cut, m) = Len(c) + 1 /\ ~ Valid(u)
  <2>1. Ahead(t, c, cut, m) = Len(c) + 1
    BY AheadIs
  <2>2. ~ IterValid(u.index)
    BY <1>2
  <2>3. Ahead(u, c, cut, m) = Len(c) + 1 /\ ~ Valid(u)
    BY <1>4, <2>2, AheadIs
  <2> QED BY <2>1, <2>3
<1>6. Fine(u) <=> Fine(t)
  BY <1>2 DEF Fine
<1> QED BY <1>2, <1>4, <1>5, <1>6

-----------------------------------------------------------------------------
(* The inductive invariant of the iterator: a call in progress has not     *)
(* passed the entry it asks for, and unless a block could not be read it   *)
(* is about to come to it.                                                 *)

Follows(t, p, w, a, f, c, cut, x, m) ==
  /\ Leads(t, c, cut, x, m)
  /\ ~ Fine(t) => f
  /\ p = "skipping" => /\ w \in 1 .. Len(c) + 1 /\ w <= Ahead(t, c, cut, m)
                       /\ Fine(t) => w = Ahead(t, c, cut, m)
  /\ p = "idle" => a = IF Valid(t) THEN Ahead(t, c, cut, m) ELSE Len(c) + 1

Reads ==
  /\ pc \in {"idle", "skipping"}
  /\ it = None => pc = "idle"
  /\ it # None =>
       \E cut, sep, x, m :
         /\ Laid(contents, cut, sep, x, m) /\ Served(contents, cut, x, m)
         /\ Follows(it, pc, wanted, at, faulted, contents, cut, x, m)

LEMMA ServedStays ==
  ASSUME rep' = rep, NEW c, NEW cut, NEW x, NEW m, Served(c, cut, x, m)
  PROVE  Served(c, cut, x, m)'
BY DEF Served, BlockAt

LEMMA LeadsIs ==
  ASSUME NEW t, NEW c, NEW cut, NEW x, NEW m, Leads(t, c, cut, x, m)
  PROVE  t # None /\ (StatusOK(t) <=> Fine(t))
<1>1. t \in TwoLevelT /\ t.index.ok = TRUE
  BY DEF Leads
<1>2. t # None
  BY <1>1, IteratorAssumption DEF IteratorAssumption
<1> QED BY <1>1, <1>2, FineIs

(* The abstract source and its status.                                     *)
LEMMA SamePast ==
  ASSUME it # None, NEW c, c = contents, c \in Seq(ContentT), NEW key
  PROVE  Iterator!Past(key) = Past(key) /\ Iterator!AtEnd = Len(c) + 1
<1>1. PICK n \in Nat : n = Len(c)
  OBVIOUS
<1>2. PICK s : s = [i \in 1..n |-> c[i].key]
  OBVIOUS
<1>3. Len(s) = n /\ \A i \in 1..n : s[i] = c[i].key
  BY <1>2
<1>4. \A a : Iterator!Less(a, key) <=> Less(a, key)
  BY DEF Iterator!Less, Less
<1>5. \A T : Iterator!Least(T) = Least(T)
  BY DEF Iterator!Least, Least
<1>6. Iterator!AtEnd = n + 1
  BY <1>1, <1>2, <1>3 DEF Iterator!AtEnd
<1>7. Iterator!Past(key) = Iterator!Least({i \in 1..n : ~ Iterator!Less(s[i], key)} \cup {n + 1})
  BY <1>1, <1>2, <1>3, <1>6 DEF Iterator!Past
<1>8. {i \in 1..n : ~ Iterator!Less(s[i], key)} = {i \in 1..n : ~ Less(c[i].key, key)}
  BY <1>3, <1>4
<1>9. Past(key) = Least({i \in 1..n : ~ Less(c[i].key, key)} \cup {n + 1})
  BY <1>1 DEF Past
<1> QED BY <1>1, <1>5, <1>6, <1>7, <1>8, <1>9

(* A step of an open iterator leaves the source alone, and the status      *)
(* becomes an error only if a block could not be read.                     *)
LEMMA StatusFollows ==
  ASSUME it # None, it' # None, contents' = contents,
         StatusOK(it') => StatusOK(it), faulted => faulted', ~ StatusOK(it') => faulted'
  PROVE  Iterator!Status
BY DEF Iterator!Status

Ask(i) ==
  /\ it # None /\ pc = "idle" /\ pc' = "skipping"
  /\ it' # None /\ contents' = contents /\ at' = at /\ wanted' = i

LEMMA AskIs ==
  ASSUME NEW i, Ask(i), Iterator!Status
  PROVE  Iterator!Ask(i)
BY DEF Ask, Iterator!Ask

(* A call that has begun.                                                  *)
LEMMA BeginReads ==
  ASSUME NEW c, c = contents, NEW cut, NEW sep, NEW x, NEW m,
         Laid(c, cut, sep, x, m), Served(c, cut, x, m),
         Follows(it, pc, wanted, at, faulted, c, cut, x, m),
         NEW q, Ask(q), rep' = rep, q \in 1 .. Len(c) + 1,
         NEW n, n = it', Asked(n, it, q, c, cut, x, m),
         NEW bad, Fine(it) => Fine(n) \/ bad, faulted => faulted', bad => faulted'
  PROVE  Reads' /\ Iterator!Ask(q)
<1>1. Leads(n, c, cut, x, m) /\ (Fine(n) => Fine(it))
      /\ q <= Ahead(n, c, cut, m) /\ (Fine(n) => q = Ahead(n, c, cut, m))
  BY DEF Asked
<1>2. Leads(it, c, cut, x, m) /\ (~ Fine(it) => faulted)
  BY DEF Follows
<1>3. it # None /\ (StatusOK(it) <=> Fine(it)) /\ n # None /\ (StatusOK(n) <=> Fine(n))
  BY <1>1, <1>2, LeadsIs
<1>4. (faulted => faulted') /\ (~ Fine(n) => faulted')
  BY <1>2
<1>5. Iterator!Status
  BY <1>1, <1>3, <1>4, StatusFollows DEF Ask
<1>6. Iterator!Ask(q)
  BY <1>5, AskIs
<1>7. Follows(n, "skipping", q, at, faulted', c, cut, x, m)
  BY <1>1, <1>4 DEF Follows
<1>8. Follows(it', pc', wanted', at', faulted', contents', cut, x, m)
  BY <1>7 DEF Ask
<1>9. Laid(contents', cut, sep, x, m) /\ Served(c, cut, x, m)' /\ contents' = c
  BY ServedStays DEF Ask
<1>10. Reads'
  BY <1>3, <1>8, <1>9 DEF Ask, Reads, Served
<1> QED BY <1>6, <1>10

LEMMA SeekReads ==
  ASSUME Reads, NEW key \in Keys, NEW readable \in BOOLEAN, Seek(key, readable)
  PROVE  Reads' /\ Iterator!Seek(key)
<1>1. it # None /\ pc = "idle"
  BY DEF Seek
<1>2. PICK c : c = contents
  OBVIOUS
<1>3. PICK cut, sep, x, m :
        /\ Laid(c, cut, sep, x, m) /\ Served(c, cut, x, m)
        /\ Follows(it, pc, wanted, at, faulted, c, cut, x, m)
  BY <1>1, <1>2 DEF Reads
<1>4. Leads(it, c, cut, x, m)
  BY <1>3 DEF Follows
<1>5. key \in Seq(Nat)
  BY KeyType
<1>6. c \in Seq(ContentT) /\ Sorted(c)
  BY <1>3 DEF Laid
<1>7. PICK q \in 1 .. Len(c) + 1 : FirstPast(c, key, q)
  BY <1>5, <1>6, PastExists
<1>8. Past(key) = q /\ Iterator!Past(key) = q
  BY <1>1, <1>2, <1>6, <1>7, PastFirst, SamePast
<1>9. PICK i : SeekIs(i, it.index, key)
  BY DEF SeekIs
<1>10. PICK v : WithIndex(v, it, i)
  BY DEF WithIndex
<1>11. PICK u : Taken(u, v, readable)
  BY DEF Taken
<1>12. PICK n : SeekInData(n, u, key)
  BY DEF SeekInData
<1>13. Begin(i, n, q, readable)
  BY <1>8, <1>9, <1>10, <1>11, <1>12
     DEF Seek, LedBy, SeekIs, WithIndex, Taken, SeekInData
<1>14. /\ Asked(n, it, q, c, cut, x, m)
       /\ Fine(it) => Fine(n) \/ (MustRead(v) /\ ~ readable)
  BY <1>3, <1>4, <1>5, <1>7, <1>9, <1>10, <1>11, <1>12, SeekLeads
<1>15. /\ n = it' /\ rep' = rep /\ contents' = contents
       /\ faulted => faulted'
       /\ MustRead(v) /\ ~ readable => faulted'
       /\ pc' = "skipping" /\ wanted' = q /\ at' = at
  BY <1>10, <1>13 DEF Begin, WithIndex, builder
<1>16. n # None
  BY <1>14, LeadsIs DEF Asked
<1>17. Ask(q)
  BY <1>1, <1>15, <1>16 DEF Ask
<1>18. Reads' /\ Iterator!Ask(q)
  BY <1>2, <1>3, <1>14, <1>15, <1>17, BeginReads
<1> QED BY <1>8, <1>18 DEF Iterator!Seek

LEMMA SeekToFirstReads ==
  ASSUME Reads, NEW readable \in BOOLEAN, SeekToFirst(readable)
  PROVE  Reads' /\ Iterator!SeekToFirst
<1>1. it # None /\ pc = "idle"
  BY DEF SeekToFirst
<1>2. PICK c : c = contents
  OBVIOUS
<1>3. PICK cut, sep, x, m :
        /\ Laid(c, cut, sep, x, m) /\ Served(c, cut, x, m)
        /\ Follows(it, pc, wanted, at, faulted, c, cut, x, m)
  BY <1>1, <1>2 DEF Reads
<1>4. Leads(it, c, cut, x, m)
  BY <1>3 DEF Follows
<1>5. 1 \in 1 .. Len(c) + 1
  <2>1. Len(c) \in Nat
    BY <1>3 DEF Laid
  <2> QED BY <2>1
<1>6. PICK i : FirstIs(i, it.index)
  BY DEF FirstIs
<1>7. PICK v : WithIndex(v, it, i)
  BY DEF WithIndex
<1>8. PICK u : Taken(u, v, readable)
  BY DEF Taken
<1>9. PICK n : FirstInData(n, u)
  BY DEF FirstInData
<1>10. Begin(i, n, 1, readable)
  BY <1>6, <1>7, <1>8, <1>9
     DEF SeekToFirst, LedBy, FirstIs, WithIndex, Taken, FirstInData
<1>11. /\ Asked(n, it, 1, c, cut, x, m)
       /\ Fine(it) => Fine(n) \/ (MustRead(v) /\ ~ readable)
  BY <1>3, <1>4, <1>6, <1>7, <1>8, <1>9, FirstLeads
<1>12. /\ n = it' /\ rep' = rep /\ contents' = contents
       /\ faulted => faulted'
       /\ MustRead(v) /\ ~ readable => faulted'
       /\ pc' = "skipping" /\ wanted' = 1 /\ at' = at
  BY <1>7, <1>10 DEF Begin, WithIndex, builder
<1>13. n # None
  BY <1>11, LeadsIs DEF Asked
<1>14. Ask(1)
  BY <1>1, <1>12, <1>13 DEF Ask
<1>15. Reads' /\ Iterator!Ask(1)
  BY <1>2, <1>3, <1>5, <1>11, <1>12, <1>14, BeginReads
<1> QED BY <1>15 DEF Iterator!SeekToFirst

LEMMA AdvanceReads ==
  ASSUME Reads, Advance
  PROVE  Reads' /\ Iterator!Advance
<1>1. it # None /\ pc = "idle" /\ Valid(it)
  BY DEF Advance
<1>2. PICK c : c = contents
  OBVIOUS
<1>3. PICK cut, sep, x, m :
        /\ Laid(c, cut, sep, x, m) /\ Served(c, cut, x, m)
        /\ Follows(it, pc, wanted, at, faulted, c, cut, x, m)
  BY <1>1, <1>2 DEF Reads
<1>4. Leads(it, c, cut, x, m) /\ at = Ahead(it, c, cut, m)
  BY <1>1, <1>3 DEF Follows
<1>5. IterValid(it.index)
  BY <1>1, <1>3, <1>4, AheadIs
<1>6. Ahead(it, c, cut, m) \in 1..Len(c)
  BY <1>1, <1>3, <1>4, <1>5, AheadIs
<1>7. PICK n : NextInData(n, it)
  BY DEF NextInData
<1>8. /\ Leads(n, c, cut, x, m) /\ (Fine(n) <=> Fine(it))
      /\ Ahead(n, c, cut, m) = Ahead(it, c, cut, m) + 1
  BY <1>1, <1>3, <1>4, <1>7, NextLeads
<1>9. Len(c) \in Nat /\ c \in Seq(ContentT)
  BY <1>3 DEF Laid
<1>10. PICK q \in 1 .. Len(c) + 1 : q = at + 1 /\ at < Len(c) + 1 /\ q <= q
  BY <1>4, <1>6, <1>9
<1>11. Asked(n, it, q, c, cut, x, m)
  BY <1>4, <1>8, <1>10 DEF Asked
<1>12. /\ n = it' /\ rep' = rep /\ contents' = contents
       /\ faulted' = faulted /\ pc' = "skipping" /\ wanted' = q /\ at' = at
  BY <1>7, <1>10 DEF Advance, NextInData, builder
<1>13. Ask(q)
  BY <1>1, <1>8, <1>12, LeadsIs DEF Ask
<1>14. (Fine(it) => Fine(n) \/ FALSE) /\ (faulted => faulted')
  BY <1>8, <1>12
<1>15. Reads' /\ Iterator!Ask(q)
  BY <1>2, <1>3, <1>11, <1>12, <1>13, <1>14, BeginReads
<1>16. at < Iterator!AtEnd
  BY <1>1, <1>2, <1>9, <1>10, SamePast
<1> QED BY <1>10, <1>15, <1>16 DEF Iterator!Advance

LEMMA OpenReads ==
  ASSUME Sound(rep), Recorded, Reads, Open
  PROVE  Reads' /\ Iterator!NewIterator
<1>1. it = None /\ rep.footer # None /\ pc = "idle"
  BY DEF Open, Reads
<1>2. PICK c : c = contents
  OBVIOUS
<1>3. PICK cut, sep, x, m : Laid(c, cut, sep, x, m) /\ Served(c, cut, x, m)
  BY <1>1, <1>2, FinishedServes
<1>4. PICK i : i = NewBlockIter(BlockAt(rep.footer.index))
  OBVIOUS
<1>5. PICK n : n = [index |-> i, data |-> None, handle |-> None, ok |-> TRUE]
  OBVIOUS
<1>6. Shows(i, x) /\ i.at = Len(x) + 1 /\ i.ok = TRUE /\ i \in IterT
  <2>1. Shows(i, x) /\ i.at = Len(x) + 1 /\ i.ok = TRUE
    BY <1>3, <1>4, NewShows DEF Served
  <2> QED BY <2>1 DEF Shows
<1>7. n \in TwoLevelT /\ n.index = i /\ n.data = None /\ n.ok = TRUE
  BY <1>5, <1>6 DEF TwoLevelT
<1>8. ~ n.index.at <= m
  BY <1>3, <1>6, <1>7 DEF Laid
<1>9. Leads(n, c, cut, x, m) /\ Fine(n) /\ ~ Valid(n)
  BY <1>6, <1>7, <1>8 DEF Leads, Fine, Valid
<1>10. /\ it' = n /\ at' = Len(c) + 1 /\ rep' = rep /\ contents' = c /\ pc' = "idle"
       /\ wanted' = wanted /\ faulted' = faulted
  BY <1>1, <1>2, <1>4, <1>5 DEF Open, builder
<1>11. Follows(it', pc', wanted', at', faulted', contents', cut, x, m)
  BY <1>9, <1>10 DEF Follows
<1>12. Served(c, cut, x, m)'
  BY <1>3, <1>10, ServedStays
<1>13. it' # None /\ StatusOK(it')
  BY <1>9, <1>10, LeadsIs
<1>14. Reads'
  BY <1>3, <1>10, <1>11, <1>12, <1>13 DEF Reads, Served
<1>15. Iterator!AtEnd' = Len(c) + 1
  <2>1. PICK k \in Nat : k = Len(c)
    BY <1>3 DEF Laid
  <2>2. Iterator!AtEnd' = Len([j \in 1..k |-> contents'[j].key]) + 1
    BY <1>10, <1>13, <2>1 DEF Iterator!AtEnd
  <2> QED BY <2>1, <2>2
<1> QED BY <1>1, <1>10, <1>13, <1>14, <1>15 DEF Iterator!NewIterator

LEMMA ReturnReads ==
  ASSUME Reads, SkipReturn
  PROVE  Reads' /\ Iterator!Answer
<1>1. it # None /\ pc = "skipping" /\ Valid(it)
  BY DEF SkipReturn, Reads
<1>2. PICK c : c = contents
  OBVIOUS
<1>3. PICK cut, sep, x, m :
        /\ Laid(c, cut, sep, x, m) /\ Served(c, cut, x, m)
        /\ Follows(it, pc, wanted, at, faulted, c, cut, x, m)
  BY <1>1, <1>2 DEF Reads
<1>4. /\ Leads(it, c, cut, x, m) /\ (~ Fine(it) => faulted)
      /\ wanted \in 1 .. Len(c) + 1 /\ wanted <= Ahead(it, c, cut, m)
      /\ Fine(it) => wanted = Ahead(it, c, cut, m)
  BY <1>1, <1>3 DEF Follows
<1>5. IterValid(it.index)
  BY <1>1, <1>3, <1>4, AheadIs
<1>6. PICK q : /\ q = Ahead(it, c, cut, m) /\ q \in 1..Len(c)
               /\ [key |-> it.data.key, value |-> IterValue(it.data)] = c[q]
  BY <1>1, <1>3, <1>4, <1>5, AheadIs
<1>7. c \in Seq(ContentT) /\ Sorted(c) /\ Len(c) \in Nat
  BY <1>3 DEF Laid
<1>8. Position(it) = q
  BY <1>1, <1>2, <1>6, <1>7, PositionIs
<1>9. /\ at' = q /\ it' = it /\ rep' = rep /\ contents' = contents /\ wanted' = wanted
      /\ faulted' = faulted /\ pc' = "idle"
  BY <1>8 DEF SkipReturn, builder
<1>10. Follows(it', pc', wanted', at', faulted', contents', cut, x, m)
  <2>1. Follows(it, "idle", wanted, q, faulted, c, cut, x, m)
    BY <1>1, <1>4, <1>6 DEF Follows
  <2> QED BY <1>2, <1>9, <2>1
<1>11. Reads'
  <2>1. Served(c, cut, x, m)'
    BY <1>3, <1>9, ServedStays
  <2> QED BY <1>1, <1>2, <1>3, <1>9, <1>10, <2>1 DEF Reads, Served
<1>12. Iterator!AtEnd = Len(c) + 1
  BY <1>1, <1>2, <1>7, SamePast
<1>13. at' \in wanted .. Iterator!AtEnd
  <2>1. PICK l \in Nat : l = Len(c)
    BY <1>7
  <2>2. wanted \in 1 .. l + 1 /\ wanted <= q /\ q \in 1..l
    BY <1>4, <1>6, <2>1
  <2>3. q \in wanted .. l + 1
    BY <2>2
  <2> QED BY <1>9, <1>12, <2>1, <2>3
<1>14. StatusOK(it) <=> Fine(it)
  BY <1>4, LeadsIs
<1>15. at' = wanted \/ ~ StatusOK(it')
  BY <1>4, <1>6, <1>9, <1>14
<1>16. Iterator!Status
  BY <1>1, <1>4, <1>9, <1>14, StatusFollows
<1> QED BY <1>1, <1>9, <1>11, <1>13, <1>15, <1>16 DEF Iterator!Answer

LEMMA EndReads ==
  ASSUME Reads, SkipEnd
  PROVE  Reads' /\ Iterator!Answer
<1>1. it # None /\ pc = "skipping" /\ ~ IterValid(it.index)
  BY DEF SkipEnd, Reads
<1>2. PICK c : c = contents
  OBVIOUS
<1>3. PICK cut, sep, x, m :
        /\ Laid(c, cut, sep, x, m) /\ Served(c, cut, x, m)
        /\ Follows(it, pc, wanted, at, faulted, c, cut, x, m)
  BY <1>1, <1>2 DEF Reads
<1>4. /\ Leads(it, c, cut, x, m) /\ (~ Fine(it) => faulted)
      /\ wanted \in 1 .. Len(c) + 1 /\ wanted <= Ahead(it, c, cut, m)
      /\ Fine(it) => wanted = Ahead(it, c, cut, m)
  BY <1>1, <1>3 DEF Follows
<1>5. PICK n : Dropped(n, it)
  BY DEF Dropped
<1>6. /\ Leads(n, c, cut, x, m) /\ (Fine(n) <=> Fine(it)) /\ ~ Valid(n)
      /\ Ahead(it, c, cut, m) = Len(c) + 1 /\ Ahead(n, c, cut, m) = Len(c) + 1
  BY <1>1, <1>3, <1>4, <1>5, EndLeads
<1>7. c \in Seq(ContentT) /\ Sorted(c) /\ Len(c) \in Nat
  BY <1>3 DEF Laid
<1>8. Position(n) = Len(c) + 1
  BY <1>2, <1>6, <1>7, PositionIs
<1>9. /\ it' = n /\ rep' = rep /\ contents' = contents /\ wanted' = wanted
      /\ faulted' = faulted /\ pc' = "idle" /\ at' = Position(n)
  <2>1. it' = n /\ at' = Position(it')
    BY <1>5 DEF SkipEnd, Dropped
  <2>2. Position(it') = Position(n)
    BY <2>1
  <2> QED BY <2>1, <2>2 DEF SkipEnd, builder
<1>10. Follows(it', pc', wanted', at', faulted', contents', cut, x, m)
  <2>1. Follows(n, "idle", wanted, Len(c) + 1, faulted, c, cut, x, m)
    BY <1>4, <1>6 DEF Follows
  <2> QED BY <1>2, <1>8, <1>9, <2>1
<1>11. n # None /\ (StatusOK(n) <=> Fine(n)) /\ (StatusOK(it) <=> Fine(it))
  BY <1>4, <1>6, LeadsIs
<1>12. Reads'
  <2>1. Served(c, cut, x, m)'
    BY <1>3, <1>9, ServedStays
  <2> QED BY <1>2, <1>3, <1>9, <1>10, <1>11, <2>1 DEF Reads, Served
<1>13. at' \in wanted .. Iterator!AtEnd
  <2>1. Iterator!AtEnd = Len(c) + 1
    BY <1>1, <1>2, <1>7, SamePast
  <2>2. PICK l \in Nat : l = Len(c)
    BY <1>7
  <2>3. wanted \in 1 .. l + 1
    BY <1>4, <2>2
  <2>4. l + 1 \in wanted .. l + 1
    BY <2>3
  <2> QED BY <1>8, <1>9, <2>1, <2>2, <2>4
<1>14. at' = wanted \/ ~ StatusOK(it')
  BY <1>4, <1>6, <1>8, <1>9, <1>11
<1>15. Iterator!Status
  BY <1>1, <1>4, <1>6, <1>9, <1>11, StatusFollows
<1> QED BY <1>1, <1>9, <1>11, <1>12, <1>13, <1>14, <1>15 DEF Iterator!Answer

LEMMA BlockReads ==
  ASSUME Reads, NEW readable \in BOOLEAN, SkipBlock(readable)
  PROVE  Reads' /\ Iterator!Fail
<1>1. it # None /\ pc = "skipping" /\ ~ Valid(it) /\ IterValid(it.index)
  BY DEF SkipBlock, Reads
<1>2. PICK c : c = contents
  OBVIOUS
<1>3. PICK cut, sep, x, m :
        /\ Laid(c, cut, sep, x, m) /\ Served(c, cut, x, m)
        /\ Follows(it, pc, wanted, at, faulted, c, cut, x, m)
  BY <1>1, <1>2 DEF Reads
<1>4. /\ Leads(it, c, cut, x, m) /\ (~ Fine(it) => faulted)
      /\ wanted \in 1 .. Len(c) + 1 /\ wanted <= Ahead(it, c, cut, m)
      /\ Fine(it) => wanted = Ahead(it, c, cut, m)
  BY <1>1, <1>3 DEF Follows
<1>5. PICK i : NextIs(i, it.index)
  BY DEF NextIs
<1>6. PICK v : WithIndex(v, it, i)
  BY DEF WithIndex
<1>7. PICK u : Taken(u, v, readable)
  BY DEF Taken
<1>8. PICK n : FirstInData(n, u)
  BY DEF FirstInData
<1>9. PICK a : a = Ahead(it, c, cut, m)
  OBVIOUS
<1>10. /\ Asked(n, it, a, c, cut, x, m)
       /\ Fine(it) => Fine(n) \/ (MustRead(v) /\ ~ readable)
  BY <1>1, <1>3, <1>4, <1>5, <1>6, <1>7, <1>8, <1>9, SkipLeads
<1>11. /\ it' = n /\ rep' = rep /\ contents' = contents /\ wanted' = wanted
       /\ faulted => faulted'
       /\ MustRead(v) /\ ~ readable => faulted'
       /\ pc' = "skipping" /\ at' = at
  BY <1>5, <1>6, <1>7, <1>8 DEF SkipBlock, builder, NextIs, WithIndex, Taken, FirstInData
<1>12. /\ Leads(n, c, cut, x, m) /\ (Fine(n) => Fine(it))
       /\ a <= Ahead(n, c, cut, m) /\ (Fine(n) => a = Ahead(n, c, cut, m))
  BY <1>10 DEF Asked
<1>13. wanted <= Ahead(n, c, cut, m)
  <2>1. PICK l \in Nat : l = Len(c)
    BY <1>3 DEF Laid
  <2>2. a \in 1 .. l + 1 /\ wanted \in 1 .. l + 1 /\ wanted <= a
    BY <1>3, <1>4, <1>9, <2>1, AheadIs
  <2>3. PICK b : b = Ahead(n, c, cut, m) /\ b \in 1 .. l + 1 /\ a <= b
    BY <1>3, <1>12, <2>1, AheadIs
  <2>4. wanted <= b
    BY <2>2, <2>3
  <2> QED BY <2>3, <2>4
<1>14. Fine(n) => wanted = Ahead(n, c, cut, m)
  BY <1>4, <1>9, <1>12
<1>15. ~ Fine(n) => faulted'
  BY <1>4, <1>10, <1>11
<1>16. Follows(it', pc', wanted', at', faulted', contents', cut, x, m)
  <2>1. Follows(n, "skipping", wanted, at, faulted', c, cut, x, m)
    BY <1>4, <1>12, <1>13, <1>14, <1>15 DEF Follows
  <2> QED BY <1>2, <1>11, <2>1
<1>17. n # None /\ (StatusOK(n) <=> Fine(n)) /\ (StatusOK(it) <=> Fine(it))
  BY <1>4, <1>12, LeadsIs
<1>18. Reads'
  <2>1. Served(c, cut, x, m)'
    BY <1>3, <1>11, ServedStays
  <2> QED BY <1>2, <1>3, <1>11, <1>16, <1>17, <2>1 DEF Reads, Served
<1>19. Iterator!Status
  BY <1>1, <1>11, <1>12, <1>15, <1>17, StatusFollows
<1> QED BY <1>1, <1>11, <1>17, <1>18, <1>19 DEF Iterator!Fail

-----------------------------------------------------------------------------
(* The refinement.                                                         *)

LEMMA InitReads == Init => Reads /\ Iterator!Init
<1> SUFFICES ASSUME Init PROVE Reads /\ Iterator!Init
  OBVIOUS
<1>1. it = None /\ pc = "idle" /\ wanted = 1 /\ at = 1 /\ faulted = FALSE
  BY DEF Init
<1>2. Iterator!AtEnd = 1
  <2>1. Iterator!AtEnd = Len(<<>>) + 1
    BY <1>1 DEF Iterator!AtEnd
  <2> QED BY <2>1
<1> QED BY <1>1, <1>2 DEF Reads, Iterator!Init

LEMMA ClosedReads ==
  ASSUME Recorded, Reads, it # None
  PROVE  rep.closed
BY DEF Recorded, Reads, Served

LEMMA NextReads ==
  ASSUME Sound(rep), Recorded, Reads, [Next]_vars
  PROVE  Reads' /\ [Iterator!Next]_Iterator!vars
<1>1. ASSUME NEW key \in Keys, NEW readable \in BOOLEAN, Seek(key, readable)
      PROVE  Reads' /\ Iterator!Next
  BY <1>1, SeekReads DEF Iterator!Next
<1>2. ASSUME NEW readable \in BOOLEAN, SeekToFirst(readable)
      PROVE  Reads' /\ Iterator!Next
  BY <1>2, SeekToFirstReads DEF Iterator!Next
<1>3. ASSUME Advance PROVE Reads' /\ Iterator!Next
  BY <1>3, AdvanceReads DEF Iterator!Next
<1>4. ASSUME Open PROVE Reads' /\ Iterator!Next
  BY <1>4, OpenReads DEF Iterator!Next
<1>5. ASSUME SkipReturn PROVE Reads' /\ Iterator!Next
  BY <1>5, ReturnReads DEF Iterator!Next
<1>6. ASSUME SkipEnd PROVE Reads' /\ Iterator!Next
  BY <1>6, EndReads DEF Iterator!Next
<1>7. ASSUME NEW readable \in BOOLEAN, SkipBlock(readable) PROVE Reads' /\ Iterator!Next
  BY <1>7, BlockReads DEF Iterator!Next
<1>8. ASSUME Read PROVE Reads' /\ Iterator!Next
  BY <1>1, <1>2, <1>3, <1>4, <1>5, <1>6, <1>7, <1>8 DEF Read, Skip
<1>9. ASSUME UNCHANGED vars PROVE Reads' /\ UNCHANGED Iterator!vars
  <2>1. /\ rep' = rep /\ contents' = contents /\ it' = it /\ pc' = pc /\ wanted' = wanted
        /\ at' = at /\ faulted' = faulted
    BY <1>9 DEF vars, builder, reader
  <2>2. Reads'
    <3>1. CASE it = None
      BY <2>1, <3>1 DEF Reads
    <3>2. CASE it # None
      <4>1. PICK c : c = contents
        OBVIOUS
      <4>2. PICK cut, sep, x, m :
              /\ Laid(c, cut, sep, x, m) /\ Served(c, cut, x, m)
              /\ Follows(it, pc, wanted, at, faulted, c, cut, x, m)
        BY <3>2, <4>1 DEF Reads
      <4>3. Served(c, cut, x, m)'
        BY <2>1, <4>2, ServedStays
      <4> QED BY <2>1, <3>2, <4>1, <4>2, <4>3 DEF Reads, Served
    <3> QED BY <3>1, <3>2
  <2> QED BY <2>1, <2>2 DEF Iterator!vars, StatusOK
<1>10. ASSUME Build, UNCHANGED reader PROVE Reads' /\ UNCHANGED Iterator!vars
  <2>1. it = None
    <3>1. ~ rep.closed
      BY <1>10 DEF Build, Add, FlushBlock, Finish, Abandon
    <3> QED BY <3>1, ClosedReads
  <2>2. /\ it' = it /\ pc' = pc /\ wanted' = wanted /\ at' = at /\ faulted' = faulted
    BY <1>10 DEF reader
  <2> QED BY <2>1, <2>2 DEF Reads, Iterator!vars
<1> QED BY <1>8, <1>9, <1>10 DEF Next

(* An iterator over a finished table implements what Iterator promises,    *)
(* whatever was added and whichever blocks cannot be read                  *)
(* (two_level_iterator.cc:126).  That its calls return is model-checked.   *)
THEOREM TableIsIterator == Spec => Iterator!Safety
<1>1. Init => Sound(rep) /\ Recorded /\ Reads /\ Iterator!Init
  BY InitSound, InitRecorded, InitReads
<1>2. Sound(rep) /\ Recorded /\ Reads /\ [Next]_vars
        => /\ Sound(rep)' /\ Recorded' /\ Reads'
           /\ [Iterator!Next]_Iterator!vars
  <2>1. ASSUME Sound(rep), Recorded, Reads, [Next]_vars
        PROVE  /\ Sound(rep') /\ Recorded' /\ Reads'
               /\ [Iterator!Next]_Iterator!vars
    BY <2>1, NextSound, NextRecorded, NextReads
  <2> QED BY <2>1 DEF Sound, Apart, LeadsInto, HandlesOf, EndOf
<1> QED BY <1>1, <1>2, PTL DEF Spec, Iterator!Safety

=============================================================================
