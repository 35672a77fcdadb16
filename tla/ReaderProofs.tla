---------------------------- MODULE ReaderProofs ----------------------------
(***************************************************************************)
(* Theorems about the buffered readers, for every size of the buffers, all *)
(* contents of the file, and every sequence of calls, of growth and of     *)
(* failures:                                                               *)
(*   - the buffer of an InputBuffer is a window of its file;               *)
(*   - an InputBuffer implements ByteReader;                               *)
(*   - a BufferedInputStream implements it, when a failing read gives      *)
(*     nothing.                                                            *)
(***************************************************************************)
EXTENDS MCSequential, SequenceTheorems, WellFoundedInduction, TLAPS

BufferInv == TypeOK /\ WindowIsFile

\* The part of the invariant that the buffer alone decides.
WindowOK ==
  /\ file_pos_ \in Nat
  /\ buf_ \in Seq(Bytes) /\ Len(buf_) <= size_
  /\ pos_ \in 0 .. Len(buf_)
  /\ WindowIsFile

CallOK ==
  /\ op \in {"none", "line", "read", "skip"}
  /\ want \in Nat /\ ask.at \in Nat /\ ask.op = op
  /\ result \in Seq(Bytes)
  /\ s \in {OK, OutOfRange, Failed}

LEMMA Parts == BufferInv <=> file \in Seq(Bytes) /\ WindowOK /\ CallOK
BY DEF BufferInv, TypeOK, WindowOK, CallOK

LEMMA PartsNext == file' \in Seq(Bytes) /\ WindowOK' /\ CallOK' => BufferInv'
BY DEF BufferInv, TypeOK, WindowOK, CallOK

\* The position that callers see is one.
LEMMA TellIsNat == WindowOK => Tell \in Nat
<1> SUFFICES ASSUME WindowOK PROVE Tell \in Nat
  OBVIOUS
<1>1. CASE buf_ = <<>>
  BY <1>1 DEF WindowOK, Tell
<1>2. CASE buf_ # <<>>
  BY <1>2 DEF WindowOK, WindowIsFile, Tell
<1> QED BY <1>1, <1>2

\* A part of a sequence.
LEMMA PartOfSeq ==
  ASSUME NEW S, NEW q \in Seq(S), NEW a \in Nat, NEW k \in Nat, a + k <= Len(q)
  PROVE  /\ SubSeq(q, a + 1, a + k) \in Seq(S)
         /\ Len(SubSeq(q, a + 1, a + k)) = k
OBVIOUS

\* A part of a sequence is the same in a longer one.
LEMMA SamePart ==
  ASSUME NEW S, NEW q \in Seq(S), NEW e \in S, NEW a \in Nat, NEW b \in Nat,
         a <= b, b <= Len(q)
  PROVE  SubSeq(Append(q, e), a + 1, b) = SubSeq(q, a + 1, b)
<1> DEFINE l == SubSeq(Append(q, e), a + 1, b)
           r == SubSeq(q, a + 1, b)
<1>1. /\ l \in Seq(S) /\ r \in Seq(S)
      /\ Len(l) = b - a /\ Len(r) = b - a
  OBVIOUS
<1>2. \A i \in 1 .. b - a : l[i] = q[a + i] /\ r[i] = q[a + i]
  OBVIOUS
<1> HIDE DEF l, r
<1>3. \A i \in 1 .. Len(l) : l[i] = r[i]
  BY <1>1, <1>2
<1>4. l = r
  BY <1>1, <1>3, SeqEqual
<1> QED BY <1>4 DEF l, r

LEMMA AvailableFits ==
  ASSUME BufferInv
  PROVE  /\ Available \in Nat /\ Available <= size_
         /\ Available > 0 => file_pos_ + Available <= Len(file)
BY ReaderAssumption DEF BufferInv, TypeOK, Available, MinOf, MaxOf

\* A read of k bytes moves the window behind them.
LEMMA FilledWindow ==
  ASSUME BufferInv, NEW k \in 0 .. Available, Filled(k), file' = file
  PROVE  WindowOK'
<1>1. CASE k = 0
  <2>1. buf_' = <<>>
    BY <1>1 DEF Filled, BufferInv, TypeOK
  <2> QED BY <1>1, <2>1, ReaderAssumption
          DEF Filled, BufferInv, TypeOK, WindowOK, WindowIsFile
<1>2. CASE k > 0
  <2>1. k \in Nat /\ k <= size_ /\ file_pos_ + k <= Len(file)
    <3>1. /\ Available \in Nat /\ Available <= size_
          /\ Available > 0 => file_pos_ + Available <= Len(file)
      BY AvailableFits
    <3>2. file_pos_ \in Nat /\ Len(file) \in Nat /\ size_ \in Nat
      BY ReaderAssumption DEF BufferInv, TypeOK
    <3> QED BY <1>2, <3>1, <3>2
  <2>2. buf_' \in Seq(Bytes) /\ Len(buf_') = k
    BY <2>1, PartOfSeq DEF Filled, BufferInv, TypeOK
  <2>3. file_pos_' = file_pos_ + k /\ pos_' = 0
    BY DEF Filled
  <2>4. buf_' = SubSeq(file, file_pos_' - Len(buf_') + 1, file_pos_')
    <3>1. file_pos_' - Len(buf_') + 1 = file_pos_ + 1
      BY <2>1, <2>2, <2>3 DEF BufferInv, TypeOK
    <3> QED BY <2>3, <3>1 DEF Filled
  <2> QED BY <2>1, <2>2, <2>3, <2>4 DEF BufferInv, TypeOK, WindowOK, WindowIsFile
<1> QED BY <1>1, <1>2, AvailableFits

\* What a call that returns leaves.
LEMMA ReplyCall ==
  ASSUME NEW c, NEW bytes, NEW status, Reply(c, bytes, status)
  PROVE  CallOK'
BY DEF Reply, NoCall, CallOK

\* More bytes at the end of the file change no window in it.
LEMMA GrowStep ==
  ASSUME BufferInv, Grow
  PROVE  BufferInv'
<1>1. PICK b \in Bytes : file' = Append(file, b)
  BY DEF Grow
<1>2. file' \in Seq(Bytes) /\ Len(file') = Len(file) + 1
  BY <1>1 DEF BufferInv, TypeOK
<1>3. UNCHANGED <<file_pos_, buf_, pos_, op, want, result, s, ask>>
  BY DEF Grow, buffer, call
<1>4. ASSUME buf_ # <<>>
      PROVE  SubSeq(file', file_pos_ - Len(buf_) + 1, file_pos_) = buf_
  <2> DEFINE from == file_pos_ - Len(buf_)
  <2>1. /\ from \in Nat /\ file_pos_ \in Nat /\ file_pos_ <= Len(file)
        /\ buf_ = SubSeq(file, from + 1, file_pos_)
    BY <1>4 DEF BufferInv, TypeOK, WindowIsFile
  <2>2. SubSeq(file', from + 1, file_pos_) = SubSeq(file, from + 1, file_pos_)
    BY <2>1, <1>1, SamePart DEF BufferInv, TypeOK
  <2> QED BY <2>1, <2>2
<1>5. WindowIsFile'
  BY <1>2, <1>3, <1>4 DEF BufferInv, TypeOK, WindowIsFile
<1> QED BY <1>2, <1>3, <1>5 DEF BufferInv, TypeOK

LEMMA BeginStep ==
  ASSUME BufferInv, NEW o \in {"line", "read", "skip"}, NEW k \in Nat, Begin(o, k)
  PROVE  BufferInv'
<1>1. Tell \in Nat
  BY Parts, TellIsNat
<1> QED BY <1>1 DEF Begin, Call, buffer, BufferInv, TypeOK, WindowIsFile

LEMMA RefuseStep ==
  ASSUME BufferInv, NEW o, NEW k, Refuse(o, k)
  PROVE  BufferInv'
<1>1. CallOK'
  BY ReplyCall DEF Refuse
<1>2. UNCHANGED <<file, file_pos_, buf_, pos_>>
  BY DEF Refuse, buffer
<1> QED BY <1>1, <1>2, PartsNext DEF BufferInv, TypeOK, WindowOK, WindowIsFile

LEMMA RefillStep ==
  ASSUME BufferInv, Refill \/ RefillFails
  PROVE  BufferInv'
<1>1. PICK k \in 0 .. Available, status \in {OK, OutOfRange, Failed} :
        Filled(k) /\ GoOn(k, status)
  <2>1. CASE Refill
    BY <2>1, AvailableFits DEF Refill
  <2>2. CASE RefillFails
    BY <2>2, AvailableFits, ReaderAssumption DEF RefillFails, MinOf
  <2> QED BY <2>1, <2>2
<1>2. file' = file
  BY DEF Refill, RefillFails
<1>3. WindowOK'
  BY <1>1, <1>2, FilledWindow
<1>4. CASE k > 0
  BY <1>1, <1>2, <1>3, <1>4, PartsNext DEF GoOn, CallOK, BufferInv, TypeOK
<1>5. CASE ~ k > 0
  <2>1. CallOK'
    BY <1>1, <1>5, ReplyCall DEF GoOn
  <2> QED BY <1>2, <1>3, <2>1, PartsNext DEF BufferInv, TypeOK
<1> QED BY <1>4, <1>5

LEMMA TakeByteStep ==
  ASSUME BufferInv, TakeByte
  PROVE  BufferInv'
<1>1. UNCHANGED <<file, file_pos_, buf_>> /\ pos_' = pos_ + 1 /\ pos_ < Len(buf_)
  BY DEF TakeByte
<1>2. WindowOK'
  BY <1>1 DEF BufferInv, TypeOK, WindowOK, WindowIsFile
<1>3. CASE Reply(ask, result, OK)
  BY <1>1, <1>2, <1>3, ReplyCall, PartsNext DEF BufferInv, TypeOK
<1>4. CASE /\ result' = IF buf_[pos_ + 1] = CR THEN result
                        ELSE Append(result, buf_[pos_ + 1])
           /\ UNCHANGED <<op, want, s, ask, reply>>
  <2>1. buf_[pos_ + 1] \in Bytes
    BY <1>1 DEF BufferInv, TypeOK
  <2>2. CallOK'
    BY <1>4, <2>1 DEF CallOK, BufferInv, TypeOK
  <2> QED BY <1>1, <1>2, <2>2, PartsNext DEF BufferInv, TypeOK
<1> QED BY <1>3, <1>4 DEF TakeByte

LEMMA TakeBytesStep ==
  ASSUME BufferInv, TakeBytes
  PROVE  BufferInv'
<1> DEFINE k == MinOf(Len(buf_) - pos_, want - Len(result))
<1>1. /\ UNCHANGED <<file, file_pos_, buf_, op, want, s, ask>>
      /\ result' = result \o SubSeq(buf_, pos_ + 1, pos_ + k) /\ pos_' = pos_ + k
      /\ pos_ < Len(buf_) /\ Len(result) < want
  BY DEF TakeBytes, MoreWanted
<1>2. k \in Nat /\ pos_ + k <= Len(buf_)
  BY <1>1 DEF MinOf, BufferInv, TypeOK
<1>3. WindowOK'
  BY <1>1, <1>2 DEF BufferInv, TypeOK, WindowOK, WindowIsFile
<1>4. SubSeq(buf_, pos_ + 1, pos_ + k) \in Seq(Bytes)
  BY <1>2, PartOfSeq DEF BufferInv, TypeOK
<1>5. CallOK'
  BY <1>1, <1>4 DEF CallOK, BufferInv, TypeOK
<1> QED BY <1>1, <1>3, <1>5, PartsNext DEF BufferInv, TypeOK

LEMMA FinishStep ==
  ASSUME BufferInv, Finish
  PROVE  BufferInv'
<1>1. CallOK'
  BY ReplyCall DEF Finish
<1>2. UNCHANGED <<file, file_pos_, buf_, pos_>>
  BY DEF Finish, buffer
<1> QED BY <1>1, <1>2, PartsNext DEF BufferInv, TypeOK, WindowOK, WindowIsFile

\* Inside the buffer the window stays; outside it becomes empty.
LEMMA SeekStep ==
  ASSUME BufferInv, NEW p \in -1 .. MaxFile + 1, Seek(p)
  PROVE  BufferInv'
<1>1. CASE Refuse("seek", p)
  BY <1>1, RefuseStep
<1>2. CASE ~ Refuse("seek", p)
  <2>1. /\ p \in Nat /\ Reply(Call("seek", p), <<>>, OK) /\ file' = file
        /\ IF InBuffer(p)
           THEN pos_' = p - bufpos /\ UNCHANGED <<file_pos_, buf_>>
           ELSE buf_' = <<>> /\ pos_' = 0 /\ file_pos_' = p
    BY <1>2, ReaderAssumption DEF Seek
  <2>2. CallOK'
    BY <2>1, ReplyCall
  <2>3. WindowOK'
    <3>1. CASE InBuffer(p)
      BY <2>1, <3>1 DEF InBuffer, bufpos, BufferInv, TypeOK, WindowOK, WindowIsFile
    <3>2. CASE ~ InBuffer(p)
      BY <2>1, <3>2, ReaderAssumption DEF WindowOK, WindowIsFile
    <3> QED BY <3>1, <3>2
  <2> QED BY <2>1, <2>2, <2>3, PartsNext DEF BufferInv, TypeOK
<1> QED BY <1>1, <1>2

LEMMA InitInv == Init => BufferInv
BY ReaderAssumption DEF Init, InitBuffer, NoCall, BufferInv, TypeOK, WindowIsFile

LEMMA NextInv == BufferInv /\ [Next]_vars => BufferInv'
<1> SUFFICES ASSUME BufferInv, [Next]_vars PROVE BufferInv'
  OBVIOUS
<1>1. CASE UNCHANGED vars
  BY <1>1 DEF vars, buffer, call, BufferInv, TypeOK, WindowIsFile
<1>2. CASE Grow
  BY <1>2, GrowStep
<1>3. CASE ReadLine
  BY <1>3, BeginStep DEF ReadLine
<1>4. ASSUME NEW k \in -1 .. MaxAsk, ReadNBytes(k) \/ SkipNBytes(k)
      PROVE  BufferInv'
  <2>1. CASE k < 0
    BY <1>4, <2>1, RefuseStep DEF ReadNBytes, SkipNBytes
  <2>2. CASE ~ k < 0
    <3>1. k \in Nat
      BY <2>2, ReaderAssumption
    <3> QED BY <1>4, <2>2, <3>1, BeginStep DEF ReadNBytes, SkipNBytes
  <2> QED BY <2>1, <2>2
<1>5. ASSUME NEW p \in -1 .. MaxFile + 1, Seek(p)
      PROVE  BufferInv'
  BY <1>5, SeekStep
<1>6. CASE Loop \/ RefillFails
  BY <1>6, RefillStep, TakeByteStep, TakeBytesStep, FinishStep DEF Loop
<1> QED BY <1>1, <1>2, <1>3, <1>4, <1>5, <1>6 DEF Next

LEMMA BufferInvariant == Spec => []BufferInv
<1> QED BY InitInv, NextInv, PTL DEF Spec

-----------------------------------------------------------------------------
(* Every variable keeps its type: the position in the buffer never leaves  *)
(* it, and Tell() is never negative.                                       *)
THEOREM Typing == Spec => []TypeOK
<1>1. BufferInv => TypeOK
  BY DEF BufferInv
<1> QED BY <1>1, BufferInvariant, PTL

(* The buffer is what the file holds just before file_pos_, whatever seeks, *)
(* short reads, failures and growth of the file came before.               *)
THEOREM WindowStays == Spec => []WindowIsFile
<1>1. BufferInv => WindowIsFile
  BY DEF BufferInv
<1> QED BY <1>1, BufferInvariant, PTL

-----------------------------------------------------------------------------
(* What is printed of the bytes of a line.                                 *)

LEMMA LeastNatural ==
  ASSUME NEW T, T \subseteq Nat, T # {}
  PROVE  \E x \in T : \A y \in T : x <= y
<1> DEFINE R == {p \in Nat \X Nat : p[1] < p[2]}
<1>1. IsWellFoundedOn(R, Nat)
  BY NatLessThanWellFounded DEF OpToRel
<1>2. PICK x \in T : \A y \in T : ~ (<<y, x>> \in R)
  BY <1>1, WFMin
<1>3. ASSUME NEW y \in T PROVE x <= y
  <2>1. ~ (<<y, x>> \in R)
    BY <1>2
  <2> QED BY <2>1
<1> QED BY <1>3

\* One byte more, unless it is not printed.
WithByte(p, c) == IF c = CR THEN p ELSE Append(p, c)

\* What is printed of each of the first bytes of d, up to k of them.
Stripped(g, d, k) ==
  /\ g = [i \in 0 .. k |-> g[i]]
  /\ g[0] = <<>> /\ \A i \in 1 .. k : g[i] = WithByte(g[i - 1], d[i])

LEMMA StrippedExist == \A d : \A k \in Nat : \E g : Stripped(g, d, k)
<1> SUFFICES ASSUME NEW d PROVE \A k \in Nat : \E g : Stripped(g, d, k)
  OBVIOUS
<1> DEFINE T == {k \in Nat : ~ \E g : Stripped(g, d, k)}
<1> SUFFICES ASSUME T # {} PROVE FALSE
  OBVIOUS
<1>1. PICK k \in T : \A j \in T : k <= j
  BY LeastNatural
<1>2. CASE k = 0
  <2>1. Stripped([i \in 0 .. 0 |-> <<>>], d, 0)
    BY DEF Stripped
  <2> QED BY <1>1, <1>2, <2>1
<1>3. CASE k # 0
  <2>1. k - 1 \in Nat /\ k - 1 \notin T
    BY <1>1, <1>3
  <2>2. PICK g : Stripped(g, d, k - 1)
    BY <2>1
  <2> DEFINE h == [i \in 0 .. k |-> IF i = k THEN WithByte(g[k - 1], d[k]) ELSE g[i]]
  <2>3. \A i \in 0 .. k - 1 : h[i] = g[i]
    BY <2>1
  <2>4. h[k] = WithByte(g[k - 1], d[k]) /\ k - 1 \in 0 .. k - 1 /\ 0 \in 0 .. k - 1
    BY <2>1, <1>3
  <2>5. h = [i \in 0 .. k |-> h[i]]
    OBVIOUS
  <2> HIDE DEF h
  <2>6. h[0] = <<>>
    BY <2>2, <2>3, <2>4 DEF Stripped
  <2>7. ASSUME NEW i \in 1 .. k PROVE h[i] = WithByte(h[i - 1], d[i])
    <3>1. i - 1 \in 0 .. k - 1
      BY <1>3
    <3>2. CASE i = k
      BY <2>3, <2>4, <3>1, <3>2
    <3>3. CASE i # k
      <4>1. i \in 1 .. k - 1 /\ i \in 0 .. k - 1
        BY <3>3, <2>1
      <4>2. g[i] = WithByte(g[i - 1], d[i])
        BY <2>2, <4>1 DEF Stripped
      <4> QED BY <2>3, <3>1, <4>1, <4>2
    <3> QED BY <3>2, <3>3
  <2>8. Stripped(h, d, k)
    BY <2>5, <2>6, <2>7 DEF Stripped
  <2> QED BY <1>1, <2>8
<1> QED BY <1>2, <1>3

\* The first k bytes of d and of e are the same.
Alike(d, e, k) == \A i \in 1 .. k : d[i] = e[i]

LEMMA StrippedAgree ==
  ASSUME NEW d, NEW e, NEW k \in Nat, NEW l \in Nat, NEW g, NEW h,
         k <= l, Alike(d, e, k), Stripped(g, d, k), Stripped(h, e, l)
  PROVE  g[k] = h[k]
<1> DEFINE T == {j \in Nat : j <= k /\ g[j] # h[j]}
<1> SUFFICES ASSUME T # {} PROVE FALSE
  OBVIOUS
<1>1. PICK j \in T : \A y \in T : j <= y
  BY LeastNatural
<1>2. j # 0
  BY <1>1 DEF Stripped
<1>3. j - 1 \in Nat /\ j - 1 \notin T /\ j \in 1 .. k /\ j \in 1 .. l
  BY <1>1, <1>2
<1>4. g[j - 1] = h[j - 1]
  BY <1>3
<1>5. /\ g[j] = WithByte(g[j - 1], d[j])
      /\ h[j] = WithByte(h[j - 1], d[j])
  BY <1>3 DEF Stripped, Alike
<1> QED BY <1>1, <1>3, <1>4, <1>5

LEMMA PrintedIs ==
  ASSUME NEW d \in Seq(Bytes)
  PROVE  \E g : Stripped(g, d, Len(d)) /\ Reader!Printed(d) = g[Len(d)]
<1> DEFINE G == CHOOSE g : g = [k \in 0 .. Len(d) |->
                  IF k = 0 THEN <<>>
                  ELSE IF d[k] = CR THEN g[k - 1] ELSE Append(g[k - 1], d[k])]
<1>0. Len(d) \in Nat
  OBVIOUS
<1>1. Reader!Printed(d) = G[Len(d)]
  BY DEF Reader!Printed
<1>2. PICK h : Stripped(h, d, Len(d))
  BY <1>0, StrippedExist
<1>3. ASSUME NEW k \in 0 .. Len(d)
      PROVE  h[k] = IF k = 0 THEN <<>>
                    ELSE IF d[k] = CR THEN h[k - 1] ELSE Append(h[k - 1], d[k])
  <2>1. CASE k = 0
    BY <1>2, <2>1 DEF Stripped
  <2>2. CASE k # 0
    <3>1. k \in 1 .. Len(d)
      BY <1>0, <2>2
    <3>2. h[k] = WithByte(h[k - 1], d[k])
      BY <1>2, <3>1 DEF Stripped
    <3> QED BY <2>2, <3>2 DEF WithByte
  <2> QED BY <2>1, <2>2
<1>4. h = [k \in 0 .. Len(d) |->
             IF k = 0 THEN <<>>
             ELSE IF d[k] = CR THEN h[k - 1] ELSE Append(h[k - 1], d[k])]
  <2>1. h = [k \in 0 .. Len(d) |-> h[k]]
    BY <1>2 DEF Stripped
  <2> QED BY <1>3, <2>1
<1>5. G = [k \in 0 .. Len(d) |->
             IF k = 0 THEN <<>>
             ELSE IF d[k] = CR THEN G[k - 1] ELSE Append(G[k - 1], d[k])]
  BY <1>4
<1> HIDE DEF G
<1>6. Stripped(G, d, Len(d))
  <2>1. G = [k \in 0 .. Len(d) |-> G[k]]
    BY <1>5
  <2>2. G[0] = <<>>
    BY <1>5, <1>0
  <2>3. ASSUME NEW i \in 1 .. Len(d) PROVE G[i] = WithByte(G[i - 1], d[i])
    <3>1. i \in 0 .. Len(d) /\ i # 0
      BY <1>0
    <3>2. G[i] = IF d[i] = CR THEN G[i - 1] ELSE Append(G[i - 1], d[i])
      BY <1>5, <3>1
    <3> QED BY <3>2 DEF WithByte
  <2> QED BY <2>1, <2>2, <2>3 DEF Stripped
<1> QED BY <1>1, <1>6

LEMMA PrintedEmpty == Reader!Printed(<<>>) = <<>>
<1>1. <<>> \in Seq(Bytes) /\ Len(<<>>) = 0
  OBVIOUS
<1>2. PICK g : Stripped(g, <<>>, 0) /\ Reader!Printed(<<>>) = g[0]
  BY <1>1, PrintedIs
<1> QED BY <1>2 DEF Stripped

LEMMA PrintedAppend ==
  ASSUME NEW d \in Seq(Bytes), NEW c \in Bytes
  PROVE  Reader!Printed(Append(d, c)) = WithByte(Reader!Printed(d), c)
<1>0. PICK e : e = Append(d, c)
  OBVIOUS
<1>1. /\ e \in Seq(Bytes) /\ Len(e) = Len(d) + 1 /\ Len(d) \in Nat
      /\ e[Len(d) + 1] = c /\ \A i \in 1 .. Len(d) : d[i] = e[i]
  BY <1>0
<1>2. PICK g : Stripped(g, d, Len(d)) /\ Reader!Printed(d) = g[Len(d)]
  BY PrintedIs
<1>3. PICK h : Stripped(h, e, Len(e)) /\ Reader!Printed(e) = h[Len(e)]
  BY <1>1, PrintedIs
<1>4. g[Len(d)] = h[Len(d)]
  <2>1. Len(d) <= Len(e) /\ Len(e) \in Nat /\ Len(d) \in 0 .. Len(d)
    BY <1>1
  <2>2. PICK k \in Nat, l \in Nat : k = Len(d) /\ l = Len(e)
    BY <2>1, <1>1
  <2>3. k <= l /\ Alike(d, e, k)
    BY <1>1, <2>1, <2>2 DEF Alike
  <2>5. Stripped(g, d, k) /\ Stripped(h, e, l)
    BY <1>2, <1>3, <2>2, Zenon
  <2>4. g[k] = h[k]
    BY <2>3, <2>5, StrippedAgree
  <2> QED BY <2>1, <2>2, <2>4
<1>5. h[Len(d) + 1] = WithByte(h[Len(d)], c)
  <2>1. Len(e) \in 1 .. Len(e) /\ Len(e) - 1 = Len(d)
    BY <1>1
  <2>2. h[Len(e)] = WithByte(h[Len(e) - 1], e[Len(e)])
    BY <1>3, <2>1 DEF Stripped
  <2> QED BY <1>1, <2>1, <2>2
<1> QED BY <1>1, <1>2, <1>3, <1>4, <1>5, <1>0

-----------------------------------------------------------------------------
\* The bytes of f between two positions, and what is known of them.
Between(f, a, b) == SubSeq(f, a + 1, b)

LEMMA BetweenSame ==
  ASSUME NEW f, NEW a \in Nat, NEW b \in Nat, b <= a
  PROVE  Between(f, a, b) = <<>>
<1>1. a + 1 \in Int /\ b \in Int /\ b < a + 1
  OBVIOUS
<1> QED BY <1>1, SubSeqEmpty DEF Between

LEMMA BetweenIs ==
  ASSUME NEW f \in Seq(Bytes), NEW a \in Nat, NEW b \in Nat, a <= b, b <= Len(f)
  PROVE  Between(f, a, b) \in Seq(Bytes) /\ Len(Between(f, a, b)) = b - a
BY DEF Between

LEMMA BetweenNext ==
  ASSUME NEW f \in Seq(Bytes), NEW a \in Nat, NEW b \in Nat, a <= b, b + 1 <= Len(f)
  PROVE  /\ Between(f, a, b + 1) = Append(Between(f, a, b), f[b + 1])
         /\ f[b + 1] \in Bytes
<1>1. /\ a + 1 \in 1 .. Len(f) /\ b + 1 \in a + 1 .. Len(f) /\ (b + 1) - 1 = b
      /\ f[b + 1] \in Bytes
  OBVIOUS
<1>2. SubSeq(f, a + 1, b + 1) = SubSeq(f, a + 1, (b + 1) - 1) \o << f[b + 1] >>
  BY <1>1, SubSeqRecursiveSecond
<1>3. SubSeq(f, a + 1, b) \in Seq(Bytes)
  OBVIOUS
<1>4. SubSeq(f, a + 1, b) \o << f[b + 1] >> = Append(SubSeq(f, a + 1, b), f[b + 1])
  BY <1>1, <1>3, AppendIsConcat
<1> QED BY <1>1, <1>2, <1>4 DEF Between

LEMMA BetweenJoins ==
  ASSUME NEW f \in Seq(Bytes), NEW a \in Nat, NEW b \in Nat, NEW c \in Nat,
         a <= b, b <= c, c <= Len(f)
  PROVE  Between(f, a, b) \o Between(f, b, c) = Between(f, a, c)
<1>1. a + 1 \in 1 .. Len(f) + 1 /\ b \in (a + 1) - 1 .. Len(f) /\ c \in b .. Len(f)
  OBVIOUS
<1> QED BY <1>1, ConcatAdjacentSubSeq DEF Between

LEMMA PartAt ==
  ASSUME NEW q \in Seq(Bytes), NEW i \in Nat, NEW k \in Nat, i + k <= Len(q)
  PROVE  /\ SubSeq(q, i + 1, i + k) \in Seq(Bytes) /\ Len(SubSeq(q, i + 1, i + k)) = k
         /\ \A j \in 1 .. k : SubSeq(q, i + 1, i + k)[j] = q[i + j]
<1>1. SubSeq(q, i + 1, i + k) \in Seq(Bytes) /\ Len(SubSeq(q, i + 1, i + k)) = k
  OBVIOUS
<1>2. \A j \in 1 .. k : SubSeq(q, i + 1, i + k)[j] = q[i + j]
  OBVIOUS
<1> QED BY <1>1, <1>2

IsWindow(q, f, a) == q = Between(f, a, a + Len(q))

\* A part of a window of f is the part of f there.
LEMMA BetweenInWindow ==
  ASSUME NEW f \in Seq(Bytes), NEW q \in Seq(Bytes), NEW a \in Nat,
         NEW i \in Nat, NEW k \in Nat,
         a + Len(q) <= Len(f), IsWindow(q, f, a), i + k <= Len(q)
  PROVE  /\ SubSeq(q, i + 1, i + k) = Between(f, a + i, a + i + k)
         /\ k > 0 => q[i + 1] = f[a + i + 1]
<1>1. \A j \in 1 .. Len(q) : q[j] = f[a + j]
  <2>1. PICK m \in Nat : m = Len(q)
    OBVIOUS
  <2>2. \A j \in 1 .. m : Between(f, a, a + m)[j] = f[a + j]
    BY <2>1, PartAt DEF Between
  <2>3. q = Between(f, a, a + m)
    BY <2>1 DEF IsWindow
  <2> QED BY <2>1, <2>2, <2>3
<1>2. PICK l, r : l = SubSeq(q, i + 1, i + k) /\ r = Between(f, a + i, a + i + k)
  OBVIOUS
<1>3. l \in Seq(Bytes) /\ Len(l) = k /\ \A j \in 1 .. k : l[j] = q[i + j]
  BY <1>2, PartAt
<1>4. r \in Seq(Bytes) /\ Len(r) = k /\ \A j \in 1 .. k : r[j] = f[a + i + j]
  <2>1. a + i \in Nat /\ (a + i) + k <= Len(f)
    OBVIOUS
  <2> QED BY <2>1, <1>2, PartAt DEF Between
<1>5. ASSUME NEW j \in 1 .. k PROVE l[j] = r[j]
  <2>1. i + j \in 1 .. Len(q) /\ a + (i + j) = a + i + j
    OBVIOUS
  <2>2. q[i + j] = f[a + i + j]
    BY <1>1, <2>1
  <2> QED BY <1>3, <1>4, <2>2
<1>6. l = r
  BY <1>3, <1>4, <1>5, SeqEqual
<1>7. ASSUME k > 0 PROVE q[i + 1] = f[a + i + 1]
  <2>1. i + 1 \in 1 .. Len(q) /\ a + (i + 1) = a + i + 1
    BY <1>7
  <2>2. q[i + 1] = f[a + (i + 1)]
    BY <1>1, <2>1
  <2> QED BY <2>1, <2>2
<1> QED BY <1>2, <1>6, <1>7

-----------------------------------------------------------------------------
(* The call in progress: what it has collected are the bytes of the file   *)
(* between the position at which it began and Tell.                        *)

LineCollected(f, a, t, r) ==
  /\ r = Reader!Printed(Between(f, a, t))
  /\ \A i \in a + 1 .. t : f[i] # NL
BytesCollected(f, a, t, w, r) == r = Between(f, a, t) /\ t - a <= w
InReach(f, a, t) == a <= t /\ (t = a \/ t <= Len(f))

CallInv ==
  op # "none" =>
    /\ InReach(file, ask.at, Tell)
    /\ op = "line" => ask.n = 0 /\ LineCollected(file, ask.at, Tell, result)
    /\ op # "line" => /\ want \in 0 .. MaxAsk /\ ask.n = want
                      /\ BytesCollected(file, ask.at, Tell, want, result)

ReaderInv == BufferInv /\ CallInv

\* The position of the abstract reader.
Position == IF op = "none" THEN Tell ELSE ask.at

LEMMA Numbers ==
  ASSUME BufferInv
  PROVE  /\ Tell \in Nat /\ Position \in Nat /\ ask.at \in Nat /\ Len(file) \in Nat
         /\ op \in {"none", "line", "read", "skip"} /\ file \in Seq(Bytes)
<1>1. Tell \in Nat
  BY Parts, TellIsNat
<1>2. ask.at \in Nat /\ file \in Seq(Bytes) /\ op \in {"none", "line", "read", "skip"}
  BY DEF BufferInv, TypeOK
<1> QED BY <1>1, <1>2 DEF Position

\* A call that returns answers, from where it began, at Tell.
LEMMA Answers ==
  ASSUME NEW c, NEW bytes, NEW status, Reply(c, bytes, status), UNCHANGED file
  PROVE  Reader!Answer(c.op, c.n, Tell', bytes, status) /\ CallInv'
<1>1. op' = "none" /\ reply' = [op |-> c.op, n |-> c.n, data |-> bytes, status |-> status]
  BY DEF Reply
<1> QED BY <1>1 DEF Reader!Answer, CallInv

\* Any other step does nothing that the abstract reader does.
LEMMA Stutters ==
  ASSUME UNCHANGED <<file, reply>>, Position' = Position
  PROVE  UNCHANGED readerVars
BY DEF readerVars, Reader!vars, Position

LEMMA ReaderStart == Init => Reader!Init /\ CallInv
<1> SUFFICES ASSUME Init PROVE Reader!Init /\ CallInv
  OBVIOUS
<1>1. /\ file = <<>> /\ file_pos_ = 0 /\ buf_ = <<>> /\ pos_ = 0 /\ op = "none"
      /\ reply = [op |-> "none", n |-> 0, data |-> <<>>, status |-> OK]
  BY DEF Init, InitBuffer
<1>2. file \in Seq(Bytes)
  BY <1>1
<1>3. Tell = 0
  <2>1. Len(buf_) = 0
    BY <1>1
  <2>2. file_pos_ = 0 /\ pos_ = 0
    BY <1>1
  <2> QED BY <2>1, <2>2 DEF Tell
<1> QED BY <1>1, <1>2, <1>3 DEF Reader!Init, CallInv

LEMMA ReaderGrows ==
  ASSUME ReaderInv, Grow
  PROVE  CallInv' /\ Reader!Grow
<1>1. PICK b \in Bytes : file' = Append(file, b)
  BY DEF Grow
<1>2. /\ op = "none" /\ UNCHANGED <<file_pos_, buf_, pos_, op, ask, reply>>
  BY DEF Grow, buffer, call
<1>3. UNCHANGED <<Position, reply>>
  BY <1>2 DEF Position, Tell
<1>4. Len(file') > Len(file) /\ SubSeq(file', 1, Len(file)) = file
  <2>1. file \in Seq(Bytes) /\ Len(file) \in Nat
    BY DEF ReaderInv, BufferInv, TypeOK
  <2>2. SubSeq(Append(file, b), 0 + 1, Len(file)) = SubSeq(file, 0 + 1, Len(file))
    BY <2>1, SamePart
  <2>3. SubSeq(file, 1, Len(file)) = file
    BY <2>1, SubSeqFull
  <2> QED BY <1>1, <2>1, <2>2, <2>3
<1> QED BY <1>2, <1>3, <1>4 DEF Reader!Grow, Position, CallInv

LEMMA ReaderBegins ==
  ASSUME ReaderInv, NEW o \in {"line", "read", "skip"}, NEW k \in 0 .. MaxAsk,
         o = "line" => k = 0, Begin(o, k)
  PROVE  CallInv' /\ UNCHANGED readerVars
<1>1. /\ op = "none" /\ op' = o /\ want' = k /\ result' = <<>>
      /\ ask' = [op |-> o, n |-> k, at |-> Tell]
      /\ UNCHANGED <<file, file_pos_, buf_, pos_, reply>>
  BY DEF Begin, Call, buffer
<1>2. Tell' = Tell /\ Tell \in Nat /\ ask'.at = Tell /\ ask'.n = k /\ k \in Nat /\ MaxAsk \in Nat
  BY <1>1, Numbers, ReaderAssumption DEF ReaderInv, Tell
<1>3. UNCHANGED readerVars
  BY <1>1, <1>2, Stutters DEF Position
<1>4. PICK t \in Nat : t = Tell
  BY <1>2
<1>5. Between(file', t, t) = <<>> /\ Reader!Printed(<<>>) = <<>>
  BY BetweenSame, PrintedEmpty
<1>6. LineCollected(file', t, t, <<>>) /\ InReach(file', t, t) /\ BytesCollected(file', t, t, k, <<>>)
  BY <1>2, <1>5 DEF LineCollected, InReach, BytesCollected
<1>7. CallInv'
  BY <1>1, <1>2, <1>4, <1>6 DEF CallInv
<1> QED BY <1>3, <1>7

LEMMA ReaderRefuses ==
  ASSUME ReaderInv, NEW o, NEW k, Refuse(o, k)
  PROVE  CallInv' /\ Reader!Answer(o, k, Position, <<>>, Invalid)
<1>1. op = "none" /\ Reply(Call(o, k), <<>>, Invalid) /\ UNCHANGED <<file, file_pos_, buf_, pos_>>
  BY DEF Refuse, buffer
<1>2. Tell' = Position
  BY <1>1 DEF Tell, Position
<1>3. Call(o, k).op = o /\ Call(o, k).n = k
  BY DEF Call
<1> QED BY <1>1, <1>2, <1>3, Answers

\* FillBuffer reads ahead: Tell stays where it is.
LEMMA FilledTell ==
  ASSUME BufferInv, NEW k \in 0 .. Available, pos_ = Len(buf_), Filled(k), file' = file
  PROVE  Tell' = Tell /\ Tell = file_pos_
<1>1. /\ Available \in Nat /\ file_pos_ \in Nat /\ file \in Seq(Bytes) /\ Len(file) \in Nat
      /\ Available > 0 => file_pos_ + Available <= Len(file)
  BY AvailableFits, Numbers DEF BufferInv, TypeOK
<1>2. k \in Nat /\ buf_' = SubSeq(file, file_pos_ + 1, file_pos_ + k) /\ pos_' = 0
      /\ file_pos_' = file_pos_ + k
  BY <1>1 DEF Filled
<1>3. Len(buf_') = k
  <2>1. CASE k = 0
    <3>1. file_pos_ + k < file_pos_ + 1 /\ file_pos_ + k \in Int /\ file_pos_ + 1 \in Int
      BY <1>1, <2>1
    <3>2. buf_' = <<>>
      BY <1>2, <3>1, SubSeqEmpty
    <3> QED BY <2>1, <3>2
  <2>2. CASE k > 0
    <3>1. file_pos_ + k <= Len(file)
      BY <1>1, <1>2, <2>2
    <3> QED BY <1>1, <1>2, <3>1, PartOfSeq
  <2>3. k \in Nat
    BY <1>2
  <2> QED BY <2>1, <2>2, <2>3
<1>4. Tell' = file_pos_
  BY <1>1, <1>2, <1>3 DEF Tell
<1>5. Tell = file_pos_
  <2>1. Len(buf_) \in Nat
    BY DEF BufferInv, TypeOK
  <2> QED BY <1>1, <2>1 DEF Tell
<1> QED BY <1>4, <1>5

\* The byte at pos_, and the next k bytes, are those of the file at Tell.
LEMMA AtTell ==
  ASSUME BufferInv, pos_ < Len(buf_)
  PROVE  /\ Tell + (Len(buf_) - pos_) <= Len(file)
         /\ buf_[pos_ + 1] = file[Tell + 1] /\ buf_[pos_ + 1] \in Bytes
         /\ \A k \in 0 .. Len(buf_) - pos_ :
              SubSeq(buf_, pos_ + 1, pos_ + k) = Between(file, Tell, Tell + k)
<1>1. /\ file \in Seq(Bytes) /\ buf_ \in Seq(Bytes) /\ pos_ \in Nat /\ file_pos_ \in Nat
      /\ Len(buf_) \in Nat /\ Len(file) \in Nat /\ Tell \in Nat
  BY Numbers DEF BufferInv, TypeOK
<1>2. buf_ # <<>> /\ buf_[pos_ + 1] \in Bytes
  BY <1>1
<1>3. Len(buf_) <= file_pos_ /\ file_pos_ <= Len(file)
  BY <1>2 DEF BufferInv, WindowIsFile
<1>0. buf_ = SubSeq(file, file_pos_ - Len(buf_) + 1, file_pos_)
  BY <1>2 DEF BufferInv, WindowIsFile
<1>4. PICK a \in Nat : a = file_pos_ - Len(buf_)
  BY <1>1, <1>3
<1>5. a + Len(buf_) = file_pos_ /\ a + Len(buf_) <= Len(file) /\ Tell = a + pos_
  BY <1>1, <1>3, <1>4 DEF Tell
<1>6. IsWindow(buf_, file, a)
  BY <1>0, <1>4, <1>5 DEF IsWindow, Between
<1>7. ASSUME NEW k \in 0 .. Len(buf_) - pos_
      PROVE  /\ SubSeq(buf_, pos_ + 1, pos_ + k) = Between(file, a + pos_, a + pos_ + k)
             /\ k > 0 => buf_[pos_ + 1] = file[a + pos_ + 1]
  <2>1. PICK f \in Seq(Bytes), q \in Seq(Bytes), i \in Nat : f = file /\ q = buf_ /\ i = pos_
    BY <1>1
  <2>2. k \in Nat /\ i + k <= Len(q) /\ a + Len(q) <= Len(f) /\ IsWindow(q, f, a)
    BY <1>1, <1>5, <1>6, <2>1
  <2>3. /\ SubSeq(q, i + 1, i + k) = Between(f, a + i, a + i + k)
        /\ k > 0 => q[i + 1] = f[a + i + 1]
    BY <2>2, BetweenInWindow
  <2> QED BY <2>1, <2>3
<1>8. 1 \in 0 .. Len(buf_) - pos_ /\ Tell + (Len(buf_) - pos_) <= Len(file)
  BY <1>1, <1>5
<1> QED BY <1>2, <1>5, <1>7, <1>8

LEMMA ReaderTakesByte ==
  ASSUME ReaderInv, TakeByte
  PROVE  CallInv' /\ (Reader!ReadLine \/ UNCHANGED readerVars)
<1>1. /\ op = "line" /\ pos_ < Len(buf_) /\ pos_' = pos_ + 1
      /\ UNCHANGED <<file, file_pos_, buf_>>
  BY DEF TakeByte
<1>2. PICK a \in Nat, t \in Nat : a = ask.at /\ t = Tell
  BY Numbers DEF ReaderInv
<1>3. PICK b \in Bytes : b = buf_[pos_ + 1]
  BY <1>1, AtTell DEF ReaderInv
<1>4. b = file[t + 1] /\ t + 1 <= Len(file) /\ file \in Seq(Bytes) /\ Len(file) \in Nat
  <2>1. Len(buf_) \in Nat /\ pos_ \in Nat
    BY DEF ReaderInv, BufferInv, TypeOK
  <2> QED BY <1>1, <1>2, <1>3, <2>1, AtTell, Numbers DEF ReaderInv
<1>5. Tell' = t + 1
  BY <1>1, <1>2, Numbers DEF ReaderInv, BufferInv, TypeOK, Tell
<1>6. a <= t /\ ask.op = op /\ ask.n = 0 /\ LineCollected(file, a, t, result)
  BY <1>1, <1>2 DEF ReaderInv, CallInv, InReach, BufferInv, TypeOK
<1>7. CASE b = NL /\ Reply(ask, result, OK)
  <2>1. CallInv' /\ Reader!Answer("line", 0, t + 1, result, OK)
    BY <1>1, <1>5, <1>6, <1>7, Answers
  <2>2. Position = a
    BY <1>1, <1>2 DEF Position
  <2>3. Reader!Newlines = {i \in a + 1 .. Len(file) : file[i] = NL}
    BY <2>2 DEF Reader!Newlines, Position
  <2>4. t + 1 \in Reader!Newlines /\ \A j \in Reader!Newlines : t + 1 <= j
    <3>1. t + 1 \in a + 1 .. Len(file) /\ file[t + 1] = NL
      BY <1>4, <1>6, <1>7
    <3>2. \A i \in a + 1 .. t : file[i] # NL
      BY <1>6 DEF LineCollected
    <3>3. ASSUME NEW j \in a + 1 .. Len(file), file[j] = NL PROVE t + 1 <= j
      BY <3>2, <3>3, <1>4
    <3> QED BY <2>3, <3>1, <3>3
  <2>5. Reader!NextNewline = t + 1
    BY <2>3, <2>4 DEF Reader!NextNewline
  <2>6. result = Reader!Printed(Reader!Slice(a, t))
    BY <1>6 DEF LineCollected, Between, Reader!Slice
  <2>7. Reader!ReadLine
    BY <2>1, <2>2, <2>4, <2>5, <2>6 DEF Reader!ReadLine, Position
  <2> QED BY <2>1, <2>7
<1>8. CASE /\ b # NL /\ result' = WithByte(result, b)
           /\ UNCHANGED <<op, want, s, ask, reply>>
  <2>1. Between(file, a, t + 1) = Append(Between(file, a, t), b)
    BY <1>4, <1>6, BetweenNext
  <2>2. Between(file, a, t) \in Seq(Bytes)
    BY <1>4, <1>6, BetweenIs
  <2>3. result' = Reader!Printed(Between(file, a, t + 1))
    BY <1>6, <1>8, <2>1, <2>2, PrintedAppend DEF LineCollected
  <2>4. ASSUME NEW i \in a + 1 .. t + 1 PROVE file[i] # NL
    <3>1. i = t + 1 \/ i \in a + 1 .. t
      OBVIOUS
    <3> QED BY <1>4, <1>6, <1>8, <3>1 DEF LineCollected
  <2>5. LineCollected(file, a, t + 1, result') /\ InReach(file, a, t + 1)
    BY <1>4, <1>6, <2>3, <2>4 DEF LineCollected, InReach
  <2>6. CallInv'
    BY <1>1, <1>2, <1>5, <1>6, <1>8, <2>5 DEF CallInv
  <2>7. UNCHANGED readerVars
    BY <1>1, <1>8, Stutters DEF Position
  <2> QED BY <2>6, <2>7
<1> QED BY <1>3, <1>7, <1>8 DEF TakeByte, WithByte

\* How far a reader of l bytes that began at a, and is at t, may get with n.
LEMMA ToTheEnd ==
  ASSUME NEW a \in Nat, NEW t \in Nat, NEW l \in Nat, a <= t, t = a \/ t <= l
  PROVE  /\ t \in a .. Reader!MaxOf(a, l)
         /\ l <= t => Reader!MaxOf(a, l) = t
BY DEF Reader!MaxOf

LEMMA UpTo ==
  ASSUME NEW a \in Nat, NEW t \in Nat, NEW k \in Nat, NEW l \in Nat,
         a <= t, t = a \/ t <= l, t <= a + k
  PROVE  t \in a .. Reader!MinOf(a + k, Reader!MaxOf(a, l))
BY DEF Reader!MaxOf, Reader!MinOf

LEMMA AllOrToTheEnd ==
  ASSUME NEW a \in Nat, NEW t \in Nat, NEW k \in Nat, NEW l \in Nat,
         a <= t, t = a \/ t <= l, t = a + k \/ (t < a + k /\ l <= t)
  PROVE  Reader!MaxOf(a, Reader!MinOf(a + k, l)) = t
BY DEF Reader!MaxOf, Reader!MinOf

\* What is known in the loop of ReadNBytes and SkipNBytes, which began at a and
\* is now at t.
LEMMA Taking ==
  ASSUME ReaderInv, op \in {"read", "skip"}
  PROVE  \E a \in Nat, t \in Nat :
           /\ a = ask.at /\ t = Tell /\ Position = a /\ a <= t /\ (t = a \/ t <= Len(file))
           /\ ask.op = op /\ ask.n = want /\ want \in 0 .. MaxAsk /\ t - a <= want
           /\ result = Between(file, a, t) /\ Len(result) = t - a
<1>1. PICK a \in Nat, t \in Nat : a = ask.at /\ t = Tell
  BY Numbers DEF ReaderInv
<1>2. /\ a <= t /\ (t = a \/ t <= Len(file))
      /\ ask.op = op /\ ask.n = want /\ want \in 0 .. MaxAsk /\ t - a <= want
      /\ result = Between(file, a, t)
  BY <1>1 DEF ReaderInv, CallInv, InReach, BytesCollected, BufferInv, TypeOK
<1>3. Len(result) = t - a
  <2>1. CASE t = a
    <3>1. Between(file, a, t) = <<>>
      BY <2>1, BetweenSame
    <3>2. Len(result) = 0
      BY <1>2, <3>1
    <3> QED BY <2>1, <3>2
  <2>2. CASE t <= Len(file)
    BY <1>2, <2>2, BetweenIs, Numbers DEF ReaderInv
  <2> QED BY <1>2, <2>1, <2>2
<1>4. Position = a
  BY <1>1 DEF Position
<1> QED BY <1>1, <1>2, <1>3, <1>4

LEMMA ReaderTakesBytes ==
  ASSUME ReaderInv, TakeBytes
  PROVE  CallInv' /\ UNCHANGED readerVars
<1> DEFINE z == MinOf(Len(buf_) - pos_, want - Len(result))
<1>1. /\ op # "line" /\ op \in {"read", "skip"} /\ Len(result) < want /\ pos_ < Len(buf_)
      /\ UNCHANGED <<file, file_pos_, buf_, op, want, s, ask, reply>>
      /\ pos_' = pos_ + z
  BY DEF TakeBytes, MoreWanted
<1>2. result' = result \o SubSeq(buf_, pos_ + 1, pos_ + z)
  BY DEF TakeBytes
<1>3. PICK a \in Nat, t \in Nat :
        /\ a = ask.at /\ t = Tell /\ Position = a /\ a <= t /\ (t = a \/ t <= Len(file))
        /\ ask.op = op /\ ask.n = want /\ want \in 0 .. MaxAsk /\ t - a <= want
        /\ result = Between(file, a, t) /\ Len(result) = t - a
  BY <1>1, Taking
<1>0. /\ Len(buf_) \in Nat /\ pos_ \in Nat /\ want \in Nat /\ Len(file) \in Nat
      /\ Len(result) \in Nat /\ file_pos_ \in Nat
  BY DEF ReaderInv, BufferInv, TypeOK
<1>4. z \in 0 .. Len(buf_) - pos_ /\ z <= want - Len(result) /\ z \in Nat
  BY <1>0, <1>1 DEF MinOf
<1> HIDE DEF z
<1>15. PICK k \in Nat : k = z
  BY <1>4
<1>5. k \in 0 .. Len(buf_) - pos_ /\ k <= want - (t - a)
  BY <1>3, <1>4, <1>15
<1>6. t + k <= Len(file)
  <2>1. t + (Len(buf_) - pos_) <= Len(file)
    BY <1>1, <1>3, AtTell DEF ReaderInv
  <2> QED BY <1>0, <1>5, <2>1
<1>7. SubSeq(buf_, pos_ + 1, pos_ + k) = Between(file, t, t + k)
  BY <1>1, <1>3, <1>5, AtTell DEF ReaderInv
<1>8. Between(file, a, t) \o Between(file, t, t + k) = Between(file, a, t + k)
  <2>1. PICK b \in Nat : b = t + k
    OBVIOUS
  <2>2. t <= b /\ a <= t /\ b <= Len(file) /\ file \in Seq(Bytes)
    BY <1>3, <1>6, <2>1, Numbers DEF ReaderInv
  <2>3. Between(file, a, t) \o Between(file, t, b) = Between(file, a, b)
    BY <2>2, BetweenJoins
  <2> QED BY <2>1, <2>3
<1>9. result' = Between(file, a, t + k)
  BY <1>2, <1>3, <1>15, <1>7, <1>8, Zenon
<1>10. Tell' = t + k
  <2>1. file_pos_' - (Len(buf_') - pos_') = file_pos_ - (Len(buf_) - (pos_ + k))
    BY <1>1, <1>15
  <2> QED BY <1>0, <1>3, <1>15, <2>1 DEF Tell
<1>11. (t + k) - a <= want
  BY <1>0, <1>5
<1>12. InReach(file, a, t + k) /\ BytesCollected(file, a, t + k, want, result')
  BY <1>3, <1>6, <1>9, <1>11 DEF InReach, BytesCollected
<1>13. CallInv'
  BY <1>1, <1>3, <1>10, <1>12 DEF CallInv
<1>14. UNCHANGED readerVars
  BY <1>1, Stutters DEF Position
<1> QED BY <1>13, <1>14

\* What the reader has taken when it is at t.
LEMMA TookIs ==
  ASSUME NEW a, NEW t, op \in {"read", "skip"}, Position = a, result = Between(file, a, t)
  PROVE  Collected(result) = Reader!Took(op, t)
BY DEF Collected, Reader!Took, Reader!Slice, Between, Position

LEMMA ReaderFinishes ==
  ASSUME ReaderInv, Finish
  PROVE  /\ CallInv'
         /\ \E o \in {"read", "skip"}, k \in 0 .. MaxAsk : Reader!Take(o, k) \/ Reader!TakeFails(o, k)
<1>1. /\ op \in {"read", "skip"} /\ ~ Len(result) < want
      /\ Reply(ask, Collected(result), IF s = OutOfRange THEN OK ELSE s)
      /\ UNCHANGED <<file, file_pos_, buf_, pos_>>
  BY DEF Finish, MoreWanted, buffer
<1>2. PICK a \in Nat, t \in Nat :
        /\ a = ask.at /\ t = Tell /\ Position = a /\ a <= t /\ (t = a \/ t <= Len(file))
        /\ ask.op = op /\ ask.n = want /\ want \in 0 .. MaxAsk /\ t - a <= want
        /\ result = Between(file, a, t) /\ Len(result) = t - a
  BY <1>1, Taking
<1>3. Tell' = t
  BY <1>1, <1>2 DEF Tell
<1>4. t = a + want /\ want \in Nat /\ Len(file) \in Nat
  BY <1>1, <1>2, Numbers, ReaderAssumption DEF ReaderInv
<1>10. /\ Reader!MaxOf(a, Reader!MinOf(a + want, Len(file))) = t
       /\ t \in a .. Reader!MinOf(a + want, Reader!End(a))
  <2>1. a <= t /\ (t = a \/ t <= Len(file))
    BY <1>2
  <2>2. PICK k \in Nat, l \in Nat : k = want /\ l = Len(file)
    BY <1>4
  <2>3. a <= t /\ (t = a \/ t <= l) /\ t = a + k /\ t <= a + k
    BY <1>4, <2>1, <2>2
  <2>4. t \in a .. Reader!MinOf(a + k, Reader!MaxOf(a, l))
    BY <2>3, UpTo
  <2>5. Reader!MaxOf(a, Reader!MinOf(a + k, l)) = t
    BY <2>3, AllOrToTheEnd
  <2> QED BY <2>2, <2>4, <2>5 DEF Reader!End
<1>5. /\ CallInv'
      /\ Reader!Answer(op, want, t, Collected(result), IF s = OutOfRange THEN OK ELSE s)
  BY <1>1, <1>2, <1>3, Answers
<1>6. Collected(result) = Reader!Took(op, t)
  BY <1>1, <1>2, TookIs
<1>7. s \in {OK, OutOfRange, Failed}
  BY DEF ReaderInv, BufferInv, TypeOK
<1>8. CASE s # Failed
  <2>1. Reader!Answer(op, want, t, Reader!Took(op, t), OK)
    BY <1>5, <1>6, <1>7, <1>8
  <2>3. Reader!Take(op, want)
    BY <1>2, <1>4, <1>10, <2>1 DEF Reader!Take, Position
  <2> QED BY <1>1, <1>2, <1>5, <2>3
<1>9. CASE s = Failed
  <2>1. Reader!Answer(op, want, t, Reader!Took(op, t), Failed)
    BY <1>5, <1>6, <1>9, ReaderAssumption
  <2>3. Reader!TakeFails(op, want)
    BY <1>2, <1>10, <2>1 DEF Reader!TakeFails, Position
  <2> QED BY <1>1, <1>2, <1>5, <2>3
<1> QED BY <1>8, <1>9

\* The file gave no byte: the call returns with what it has.
LEMMA ReaderStops ==
  ASSUME ReaderInv, MoreWanted, NEW st,
         Reply(ask, Collected(result),
               IF op = "line" /\ st = OutOfRange /\ result # <<>> THEN OK ELSE st),
         UNCHANGED file, Tell' = Tell,
         st = Failed \/ (st = OutOfRange /\ Len(file) <= Tell)
  PROVE  CallInv' /\ Reader!Reads(-1 .. MaxAsk)
<1> DEFINE status == IF op = "line" /\ st = OutOfRange /\ result # <<>> THEN OK ELSE st
<1>1. PICK a \in Nat, t \in Nat : a = ask.at /\ t = Tell
  BY Numbers DEF ReaderInv
<1>2. op \in {"line", "read", "skip"} /\ Position = a /\ ask.op = op
  BY <1>1 DEF MoreWanted, Position, ReaderInv, BufferInv, TypeOK
<1>3. CallInv' /\ Reader!Answer(op, ask.n, t, Collected(result), status)
  BY <1>1, <1>2, Answers
<1> HIDE DEF status
<1>4. PICK l \in Nat : l = Len(file)
  BY Numbers DEF ReaderInv
<1>5. a <= t /\ (t = a \/ t <= l)
  BY <1>1, <1>2, <1>4 DEF ReaderInv, CallInv, InReach
<1>6. st = OutOfRange => l <= t
  BY <1>1, <1>4, ReaderAssumption
<1>7. ASSUME op = "line"
      PROVE  Reader!ReadLine \/ Reader!ReadLineFails
  <2>1. ask.n = 0 /\ LineCollected(file, a, t, result) /\ Collected(result) = result
    BY <1>1, <1>7 DEF ReaderInv, CallInv, Collected
  <2>2. result = Reader!Printed(Reader!Slice(a, t))
    BY <2>1 DEF LineCollected, Reader!Slice, Between
  <2>3. Reader!Newlines = {i \in a + 1 .. l : file[i] = NL}
    BY <1>2, <1>4 DEF Reader!Newlines, Position
  <2>4. \A i \in Reader!Newlines : t < i
    BY <1>4, <2>1, <2>3 DEF LineCollected
  <2>5. CASE st = Failed
    <3>1. status = Failed
      BY <2>5, ReaderAssumption DEF status
    <3>2. t \in a .. Reader!End(a)
      <4>1. t \in a .. Reader!MaxOf(a, l)
        BY <1>5, ToTheEnd
      <4> QED BY <1>4, <4>1 DEF Reader!End
    <3>3. Reader!Answer("line", 0, t, Reader!Printed(Reader!Slice(a, t)), Failed)
      BY <1>3, <1>7, <2>1, <2>2, <3>1
    <3> QED BY <1>2, <2>4, <3>2, <3>3 DEF Reader!ReadLineFails, Position
  <2>6. CASE st = OutOfRange
    <3>1. Reader!Newlines = {}
      BY <1>4, <1>6, <2>3, <2>4, <2>6
    <3>2. Reader!End(a) = t
      <4>1. Reader!MaxOf(a, l) = t
        BY <1>5, <1>6, <2>6, ToTheEnd
      <4> QED BY <1>4, <4>1 DEF Reader!End
    <3>3. result = Reader!Printed(Reader!Slice(a, Len(file)))
      <4>1. CASE t = l
        BY <1>4, <2>2, <4>1
      <4>2. CASE t # l
        <5>1. l <= t /\ t = a
          BY <1>5, <1>6, <2>6, <4>2
        <5>2. Between(file, a, t) = <<>> /\ Between(file, a, l) = <<>>
          BY <5>1, BetweenSame
        <5> QED BY <1>4, <2>2, <5>2 DEF Between, Reader!Slice
      <4> QED BY <4>1, <4>2
    <3>4. status = IF result = <<>> THEN OutOfRange ELSE OK
      BY <1>7, <2>6 DEF status
    <3>5. Reader!Answer("line", 0, t, result, IF result = <<>> THEN OutOfRange ELSE OK)
      BY <1>3, <1>7, <2>1, <3>4
    <3> QED BY <1>2, <3>1, <3>2, <3>3, <3>5 DEF Reader!ReadLine, Position
  <2> QED BY <2>5, <2>6
<1>8. ASSUME op \in {"read", "skip"}
      PROVE  /\ ask.n \in 0 .. MaxAsk
             /\ Reader!Take(op, ask.n) \/ Reader!TakeFails(op, ask.n)
  <2>1. /\ ask.n = want /\ want \in 0 .. MaxAsk /\ t - a <= want
        /\ result = Between(file, a, t) /\ Len(result) = t - a
    BY <1>1, <1>8, Taking
  <2>2. Collected(result) = Reader!Took(op, t)
    BY <1>2, <1>8, <2>1, TookIs
  <2>3. PICK k \in Nat : k = want /\ t < a + k
    <3>1. Len(result) < want
      BY <1>8 DEF MoreWanted
    <3>2. want \in Nat
      BY DEF ReaderInv, BufferInv, TypeOK
    <3>3. t - a < want
      BY <2>1, <3>1
    <3> QED BY <3>2, <3>3
  <2>4. status = st
    BY <1>8 DEF status
  <2>5. CASE st = Failed
    <3>1. t \in a .. Reader!MinOf(a + k, Reader!End(a))
      <4>1. t \in a .. Reader!MinOf(a + k, Reader!MaxOf(a, l))
        BY <1>5, <2>3, UpTo
      <4> QED BY <1>4, <4>1 DEF Reader!End
    <3>2. Reader!Answer(op, want, t, Reader!Took(op, t), Failed)
      BY <1>3, <2>1, <2>2, <2>4, <2>5
    <3> QED BY <1>2, <2>1, <2>3, <3>1, <3>2 DEF Reader!TakeFails, Position
  <2>6. CASE st = OutOfRange
    <3>1. Reader!MaxOf(a, Reader!MinOf(a + k, Len(file))) = t
      <4>1. Reader!MaxOf(a, Reader!MinOf(a + k, l)) = t
        BY <1>5, <1>6, <2>3, <2>6, AllOrToTheEnd
      <4> QED BY <1>4, <4>1
    <3>2. Reader!Answer(op, want, t, Reader!Took(op, t), OutOfRange)
      BY <1>3, <2>1, <2>2, <2>4, <2>6
    <3>3. t # a + want
      BY <2>3
    <3> QED BY <1>2, <2>1, <2>3, <3>1, <3>2, <3>3 DEF Reader!Take, Position
  <2> QED BY <2>1, <2>5, <2>6
<1>9. ASSUME op \in {"read", "skip"} PROVE Reader!Reads(-1 .. MaxAsk)
  <2>1. ask.n \in -1 .. MaxAsk /\ ask.n >= 0
    BY <1>8, <1>9, ReaderAssumption
  <2> QED BY <1>8, <1>9, <2>1 DEF Reader!Reads
<1>10. ASSUME op = "line" PROVE Reader!Reads(-1 .. MaxAsk)
  BY <1>7, <1>10 DEF Reader!Reads
<1> QED BY <1>2, <1>3, <1>9, <1>10

LEMMA ReaderRefills ==
  ASSUME ReaderInv, Refill \/ RefillFails
  PROVE  CallInv' /\ (Reader!Reads(-1 .. MaxAsk) \/ UNCHANGED readerVars)
<1>1. PICK k \in 0 .. Available, st \in {OK, OutOfRange, Failed} :
        /\ Filled(k) /\ GoOn(k, st)
        /\ st = Failed \/ (k > 0 \/ (st = OutOfRange /\ Len(file) <= file_pos_))
  <2>1. CASE Refill
    <3>1. Available \in Nat /\ Len(file) \in Nat /\ file_pos_ \in Nat /\ size_ \in Nat /\ size_ # 0
      BY AvailableFits, Numbers, ReaderAssumption DEF ReaderInv, BufferInv, TypeOK
    <3>2. Available = 0 => Len(file) <= file_pos_
      BY <3>1 DEF Available, MaxOf, MinOf
    <3>3. Available \in 0 .. Available /\ (Available > 0 \/ (Available = 0 /\ Available # size_))
      BY <3>1
    <3> QED BY <2>1, <3>2, <3>3 DEF Refill
  <2>2. CASE RefillFails
    <3>1. PICK k \in 0 .. MinOf(Available, size_ - 1) : Filled(k) /\ GoOn(k, Failed)
      BY <2>2 DEF RefillFails
    <3>2. k \in 0 .. Available
      BY AvailableFits, ReaderAssumption DEF ReaderInv, MinOf
    <3> QED BY <3>1, <3>2
  <2> QED BY <2>1, <2>2
<1>2. MoreWanted /\ pos_ = Len(buf_) /\ file' = file
  BY DEF Refill, RefillFails
<1>3. Tell' = Tell /\ Tell = file_pos_
  BY <1>1, <1>2, FilledTell DEF ReaderInv
<1>4. CASE k > 0
  <2>1. UNCHANGED <<op, want, result, ask, reply>>
    BY <1>1, <1>4 DEF GoOn
  <2>2. CallInv'
    BY <1>2, <1>3, <2>1 DEF ReaderInv, CallInv
  <2>3. UNCHANGED readerVars
    BY <1>2, <1>3, <2>1, Stutters DEF Position
  <2> QED BY <2>2, <2>3
<1>5. CASE ~ k > 0
  <2>1. Reply(ask, Collected(result),
              IF op = "line" /\ st = OutOfRange /\ result # <<>> THEN OK ELSE st)
    BY <1>1, <1>5 DEF GoOn
  <2>2. st = Failed \/ (st = OutOfRange /\ Len(file) <= Tell)
    BY <1>1, <1>3, <1>5
  <2> QED BY <1>2, <1>3, <2>1, <2>2, ReaderStops
<1> QED BY <1>4, <1>5

LEMMA ReaderSeeks ==
  ASSUME ReaderInv, NEW p \in -1 .. MaxFile + 1, Seek(p)
  PROVE  CallInv' /\ Reader!Seek(p)
<1>1. CASE p < 0 /\ Refuse("seek", p)
  <2>1. CallInv' /\ Reader!Answer("seek", p, Position, <<>>, Invalid)
    BY <1>1, ReaderRefuses
  <2> QED BY <1>1, <2>1 DEF Reader!Seek, Reader!Reject, Position
<1>2. CASE ~ (p < 0 /\ Refuse("seek", p))
  <2>1. /\ p >= 0 /\ op = "none" /\ Reply(Call("seek", p), <<>>, OK) /\ file' = file
        /\ IF InBuffer(p)
           THEN pos_' = p - bufpos /\ UNCHANGED <<file_pos_, buf_>>
           ELSE buf_' = <<>> /\ pos_' = 0 /\ file_pos_' = p
    BY <1>2 DEF Seek
  <2>2. Tell' = p
    <3>1. CASE InBuffer(p)
      <4>1. Len(buf_) \in Nat /\ file_pos_ \in Nat
        BY DEF ReaderInv, BufferInv, TypeOK
      <4>2. Tell' = file_pos_ - (Len(buf_) - (p - (file_pos_ - Len(buf_))))
        BY <2>1, <3>1 DEF Tell, bufpos
      <4> QED BY <4>1, <4>2
    <3>2. CASE ~ InBuffer(p)
      <4>1. Len(<<>>) = 0
        OBVIOUS
      <4>2. Tell' = p - (0 - 0)
        BY <2>1, <3>2, <4>1 DEF Tell
      <4> QED BY <4>2
    <3> QED BY <3>1, <3>2
  <2>3. Call("seek", p).op = "seek" /\ Call("seek", p).n = p
    BY DEF Call
  <2>4. CallInv' /\ Reader!Answer("seek", p, p, <<>>, OK)
    BY <2>1, <2>2, <2>3, Answers
  <2> QED BY <2>1, <2>4 DEF Reader!Seek
<1> QED BY <1>1, <1>2

LEMMA ReaderMoves ==
  ASSUME ReaderInv, [Next]_vars
  PROVE  ReaderInv' /\ [ReaderStep]_readerVars
<1>0. BufferInv'
  BY NextInv DEF ReaderInv
<1> SUFFICES CallInv' /\ (ReaderStep \/ UNCHANGED readerVars)
  BY <1>0 DEF ReaderInv
<1>1. CASE UNCHANGED vars
  <2>1. UNCHANGED <<file, file_pos_, buf_, pos_, op, want, result, s, ask, reply>>
    BY <1>1 DEF vars, buffer, call
  <2>2. CallInv'
    BY <2>1 DEF ReaderInv, CallInv, Tell
  <2>3. Position' = Position
    BY <2>1 DEF Position, Tell
  <2> QED BY <2>1, <2>2, <2>3, Stutters
<1>2. CASE Grow
  BY <1>2, ReaderGrows DEF ReaderStep
<1>3. CASE ReadLine
  <2>1. 0 \in 0 .. MaxAsk
    BY ReaderAssumption
  <2> QED BY <1>3, <2>1, ReaderBegins DEF ReadLine
<1>4. ASSUME NEW k \in -1 .. MaxAsk, NEW o \in {"read", "skip"},
             IF k < 0 THEN Refuse(o, k) ELSE Begin(o, k)
      PROVE  CallInv' /\ (ReaderStep \/ UNCHANGED readerVars)
  <2>1. CASE k < 0
    <3>1. CallInv' /\ Reader!Answer(o, k, Position, <<>>, Invalid)
      BY <1>4, <2>1, ReaderRefuses
    <3>2. Reader!Reject(o, k)
      BY <2>1, <3>1 DEF Reader!Reject, Position
    <3> QED BY <3>1, <3>2 DEF ReaderStep, Reader!Reads
  <2>2. CASE ~ k < 0
    <3>1. k \in 0 .. MaxAsk /\ o \in {"line", "read", "skip"} /\ o # "line"
      BY <2>2, ReaderAssumption
    <3> QED BY <1>4, <2>2, <3>1, ReaderBegins
  <2> QED BY <2>1, <2>2
<1>5. ASSUME NEW k \in -1 .. MaxAsk, ReadNBytes(k) \/ SkipNBytes(k)
      PROVE  CallInv' /\ (ReaderStep \/ UNCHANGED readerVars)
  BY <1>4, <1>5 DEF ReadNBytes, SkipNBytes
<1>6. ASSUME NEW p \in -1 .. MaxFile + 1, Seek(p)
      PROVE  CallInv' /\ (ReaderStep \/ UNCHANGED readerVars)
  BY <1>6, ReaderSeeks DEF ReaderStep
<1>7. CASE Refill \/ RefillFails
  BY <1>7, ReaderRefills DEF ReaderStep
<1>8. CASE TakeByte
  BY <1>8, ReaderTakesByte DEF ReaderStep, Reader!Reads
<1>9. CASE TakeBytes
  BY <1>9, ReaderTakesBytes
<1>10. CASE Finish
  <2>1. PICK o \in {"read", "skip"}, k \in 0 .. MaxAsk : Reader!Take(o, k) \/ Reader!TakeFails(o, k)
    BY <1>10, ReaderFinishes
  <2>2. k \in -1 .. MaxAsk /\ k >= 0
    BY ReaderAssumption
  <2>3. Reader!Reads(-1 .. MaxAsk)
    BY <2>1, <2>2 DEF Reader!Reads
  <2> QED BY <1>10, <2>3, ReaderFinishes DEF ReaderStep
<1> QED BY <1>1, <1>2, <1>3, <1>5, <1>6, <1>7, <1>8, <1>9, <1>10 DEF Next, Loop

\* InputBuffer implements ByteReader: whatever it has buffered, and however the
\* file grows and fails, every call returns what it would return, and moves the
\* position as it would, if it read the bare file where Tell() was.
THEOREM BufferImplementsReader == Spec => IsReader
<1>1. Init => Reader!Init /\ ReaderInv
  BY InitInv, ReaderStart DEF ReaderInv
<1>2. ReaderInv /\ [Next]_vars => ReaderInv' /\ [ReaderStep]_readerVars
  BY ReaderMoves
<1> QED BY <1>1, <1>2, PTL DEF Spec, IsReader

MCReaderInv == Is("InputBuffer") => ReaderInv

LEMMA MCReaderMoves ==
  ASSUME MCReaderInv, [MCNext]_MCvars
  PROVE  MCReaderInv' /\ [Is("InputBuffer") => ReaderStep]_readerVars
<1>1. which' = which
  BY DEF MCNext, Only, MCvars
<1>2. CASE Is("InputBuffer")
  <2>1. [Next]_vars
    BY <1>2 DEF MCNext, MCvars, Only, Is
  <2>2. ReaderInv' /\ [ReaderStep]_readerVars
    BY <1>2, <2>1, ReaderMoves DEF MCReaderInv
  <2> QED BY <2>2 DEF MCReaderInv
<1>3. CASE ~ Is("InputBuffer")
  BY <1>1, <1>3 DEF MCReaderInv, Is
<1> QED BY <1>2, <1>3

\* The same of the InputBuffer that the run drives.
THEOREM BufferReads == MCSpec => BufferIsReader
<1>1. MCInit => (Is("InputBuffer") => Reader!Init) /\ MCReaderInv
  BY InitInv, ReaderStart DEF ReaderInv, MCReaderInv, MCInit
<1>2. MCReaderInv /\ [MCNext]_MCvars => MCReaderInv' /\ [Is("InputBuffer") => ReaderStep]_readerVars
  BY MCReaderMoves
<1> QED BY <1>1, <1>2, PTL DEF MCSpec, BufferIsReader
-----------------------------------------------------------------------------
(* BufferedInputStream: the bytes read ahead are a window of the file that *)
(* ends where the stream below stands, except while bytes are skipped.     *)

StreamBufOK ==
  /\ file \in Seq(Bytes) /\ below \in Nat /\ below <= Len(file)
  /\ streamBuf \in Seq(Bytes) /\ streamPos \in 0 .. Len(streamBuf)

StreamCallOK ==
  /\ op \in {"none", "line", "string", "read", "skip"}
  /\ want \in Nat /\ ask.at \in Nat
  /\ result \in Seq(Bytes) /\ s \in {OK, OutOfRange}

StreamWindow ==
  op # "skip" =>
    Len(streamBuf) <= below /\ IsWindow(streamBuf, file, below - Len(streamBuf))

\* What a reading call has collected, as of an InputBuffer.
StreamReading ==
  op \in {"line", "string", "read"} =>
    /\ ask.op = op /\ ask.at <= Stream!Tell
    /\ op # "read" => ask.n = 0 /\ LineCollected(file, ask.at, Stream!Tell, result)
    /\ op = "read" => /\ want \in 0 .. MaxAsk /\ ask.n = want
                      /\ BytesCollected(file, ask.at, Stream!Tell, want, result)

\* How far a call that skips has come in the stream below.
StreamSkipping ==
  op = "skip" =>
    \/ /\ ask.op = "skip" /\ ask.n \in 0 .. MaxAsk
       /\ ask.at <= below /\ below + want = ask.at + ask.n
    \/ ask.op = "seek" /\ ask.n \in 0 .. MaxFile + 1 /\ below + want = ask.n

StreamInv == StreamBufOK /\ StreamCallOK /\ StreamWindow /\ StreamReading /\ StreamSkipping

StreamPosition == IF op = "none" THEN Stream!Tell ELSE ask.at

LEMMA StreamNumbers ==
  ASSUME StreamInv
  PROVE  /\ Len(file) \in Nat /\ Len(streamBuf) \in Nat /\ streamPos \in Nat /\ below \in Nat
         /\ want \in Nat /\ ask.at \in Nat /\ Len(result) \in Nat
         /\ streamPos <= Len(streamBuf) /\ below <= Len(file)
BY DEF StreamInv, StreamBufOK, StreamCallOK

LEMMA StreamTell ==
  ASSUME StreamInv, op # "skip"
  PROVE  Stream!Tell \in Nat /\ Stream!Tell <= Len(file) /\ Len(streamBuf) <= below
<1>1. Len(streamBuf) <= below
  BY DEF StreamInv, StreamWindow
<1> QED BY <1>1, StreamNumbers DEF Stream!Tell

LEMMA EmptyWindow ==
  ASSUME NEW f, NEW a \in Nat
  PROVE  IsWindow(<<>>, f, a) /\ Len(<<>>) = 0 /\ <<>> \in Seq(Bytes)
<1>1. Between(f, a, a) = <<>>
  BY BetweenSame
<1>2. Len(<<>>) = 0 /\ a + 0 = a
  OBVIOUS
<1> QED BY <1>1, <1>2 DEF IsWindow

LEMMA PrintedAlike ==
  \A d : Stream!Reader!Printed(d) = Reader!Printed(d)
BY DEF Stream!Reader!Printed, Reader!Printed

\* A call that returns.
LEMMA StreamAnswers ==
  ASSUME NEW c, NEW bytes, NEW status, Stream!Reply(c, bytes, status), UNCHANGED file
  PROVE  /\ Stream!Reader!Answer(c.op, c.n, Stream!Tell', bytes, status)
         /\ op' = "none" /\ StreamCallOK' /\ StreamReading' /\ StreamSkipping'
<1>1. /\ op' = "none" /\ want' = 0 /\ result' = <<>> /\ s' = OK
      /\ ask' = [op |-> "none", n |-> 0, at |-> 0]
      /\ reply' = [op |-> c.op, n |-> c.n, data |-> bytes, status |-> status]
  BY DEF Stream!Reply, Stream!NoCall
<1>2. Stream!Reader!Answer(c.op, c.n, Stream!Tell', bytes, status)
  BY <1>1 DEF Stream!Reader!Answer
<1>3. StreamCallOK'
  <2>1. result' \in Seq(Bytes) /\ ask'.at = 0
    BY <1>1
  <2> QED BY <1>1, <2>1 DEF StreamCallOK
<1> QED BY <1>1, <1>2, <1>3 DEF StreamReading, StreamSkipping

LEMMA StreamStutters ==
  ASSUME UNCHANGED <<file, reply>>, StreamPosition' = StreamPosition
  PROVE  UNCHANGED Stream!readerVars
BY DEF Stream!readerVars, Stream!Reader!vars, StreamPosition

LEMMA StreamStart == Stream!Init => Stream!Reader!Init /\ StreamInv
<1> SUFFICES ASSUME Stream!Init PROVE Stream!Reader!Init /\ StreamInv
  OBVIOUS
<1>1. /\ file = <<>> /\ below = 0 /\ streamBuf = <<>> /\ streamPos = 0 /\ op = "none"
      /\ want = 0 /\ result = <<>> /\ s = OK /\ ask = [op |-> "none", n |-> 0, at |-> 0]
      /\ reply = [op |-> "none", n |-> 0, data |-> <<>>, status |-> OK]
  BY DEF Stream!Init, Stream!NoCall
<1>2. <<>> \in Seq(Bytes) /\ Len(<<>>) = 0
  OBVIOUS
<1>3. Stream!Tell = 0
  <2>1. Len(streamBuf) = 0 /\ below = 0 /\ streamPos = 0
    BY <1>1, <1>2
  <2> QED BY <2>1 DEF Stream!Tell
<1>4. StreamBufOK
  BY <1>1, <1>2 DEF StreamBufOK
<1>5. StreamCallOK
  BY <1>1, <1>2 DEF StreamCallOK
<1>6. StreamWindow
  BY <1>1, <1>2, EmptyWindow DEF StreamWindow
<1>7. StreamReading /\ StreamSkipping
  BY <1>1 DEF StreamReading, StreamSkipping
<1>8. Stream!Reader!Init
  BY <1>1, <1>2, <1>3 DEF Stream!Reader!Init
<1> QED BY <1>4, <1>5, <1>6, <1>7, <1>8 DEF StreamInv

LEMMA StreamGrows ==
  ASSUME StreamInv, Stream!Grow
  PROVE  StreamInv' /\ Stream!Reader!Grow
<1>1. PICK b \in Bytes : file' = Append(file, b)
  BY DEF Stream!Grow
<1>2. /\ op = "none" /\ UNCHANGED <<below, streamBuf, streamPos, op, want, result, s, ask, reply>>
  BY DEF Stream!Grow, Stream!stream, Stream!call
<1>3. /\ file \in Seq(Bytes) /\ Len(file) \in Nat
      /\ file' \in Seq(Bytes) /\ Len(file') = Len(file) + 1
  <2>1. file \in Seq(Bytes)
    BY DEF StreamInv, StreamBufOK
  <2> QED BY <1>1, <2>1
<1>4. SubSeq(file', 1, Len(file)) = file
  <2>2. SubSeq(Append(file, b), 0 + 1, Len(file)) = SubSeq(file, 0 + 1, Len(file))
    BY <1>3, SamePart
  <2>3. SubSeq(file, 1, Len(file)) = file
    BY <1>3, SubSeqFull
  <2> QED BY <1>1, <2>2, <2>3
<1>5. StreamWindow'
  <2>0. /\ below \in Nat /\ below <= Len(file) /\ Len(streamBuf) \in Nat
        /\ Len(streamBuf) <= below
    BY <1>2, StreamTell, StreamNumbers
  <2>1. PICK a \in Nat : a = below - Len(streamBuf) /\ a <= below /\ a + Len(streamBuf) = below
    BY <2>0
  <2>2. IsWindow(streamBuf, file, a) /\ Len(streamBuf) <= below
    BY <1>2, <2>1 DEF StreamInv, StreamWindow
  <2>3. SubSeq(Append(file, b), a + 1, below) = SubSeq(file, a + 1, below)
    BY <1>3, <2>0, <2>1, SamePart
  <2>4. IsWindow(streamBuf, file', a)
    BY <1>1, <2>1, <2>2, <2>3 DEF IsWindow, Between
  <2> QED BY <1>2, <2>1, <2>2, <2>4 DEF StreamWindow
<1>6. StreamBufOK'
  BY <1>2, <1>3 DEF StreamInv, StreamBufOK
<1>7. StreamCallOK' /\ StreamReading' /\ StreamSkipping'
  BY <1>2 DEF StreamInv, StreamCallOK, StreamReading, StreamSkipping
<1>8. StreamPosition' = StreamPosition
  BY <1>2 DEF StreamPosition, Stream!Tell
<1> QED BY <1>2, <1>3, <1>4, <1>5, <1>6, <1>7, <1>8 DEF StreamInv, Stream!Reader!Grow, StreamPosition

\* Nothing but the call in progress changes.
LEMMA StreamBufStays ==
  ASSUME StreamInv, op # "skip", UNCHANGED <<file, below, streamBuf, streamPos>>
  PROVE  StreamBufOK' /\ StreamWindow' /\ Stream!Tell' = Stream!Tell
BY DEF StreamInv, StreamBufOK, StreamWindow, Stream!Tell

\* The buffer becomes empty.
LEMMA StreamBufEmpties ==
  ASSUME StreamInv, UNCHANGED file, streamBuf' = <<>>, streamPos' = 0,
         below' \in Nat, below' <= Len(file)
  PROVE  StreamBufOK' /\ StreamWindow' /\ Stream!Tell' = below'
<1>1. Len(<<>>) = 0 /\ <<>> \in Seq(Bytes)
  OBVIOUS
<1>2. StreamBufOK'
  BY <1>1 DEF StreamInv, StreamBufOK
<1>3. PICK b \in Nat : b = below'
  OBVIOUS
<1>4. IsWindow(<<>>, file, b) /\ b - 0 = b /\ 0 <= b
  BY EmptyWindow
<1>5. StreamWindow'
  BY <1>1, <1>3, <1>4 DEF StreamWindow
<1>6. Stream!Tell' = below'
  <2>1. Len(streamBuf') = 0 /\ streamPos' = 0
    BY <1>1
  <2>2. Stream!Tell' = b - (0 - 0)
    BY <1>3, <2>1 DEF Stream!Tell
  <2>3. b - (0 - 0) = b
    OBVIOUS
  <2> QED BY <1>3, <2>2, <2>3
<1> QED BY <1>2, <1>5, <1>6

LEMMA StreamBegins ==
  ASSUME StreamInv, NEW o \in {"line", "string", "read"}, NEW k \in 0 .. MaxAsk,
         o # "read" => k = 0, Stream!Begin(o, k)
  PROVE  StreamInv' /\ UNCHANGED Stream!readerVars
<1>1. /\ op = "none" /\ op' = o /\ want' = k /\ result' = <<>> /\ s' = OK
      /\ ask' = [op |-> o, n |-> k, at |-> Stream!Tell]
      /\ UNCHANGED <<file, below, streamBuf, streamPos, reply>>
  BY DEF Stream!Begin, Stream!Call, Stream!stream
<1>2. StreamBufOK' /\ StreamWindow' /\ Stream!Tell' = Stream!Tell /\ Stream!Tell \in Nat
  BY <1>1, StreamBufStays, StreamTell
<1>3. PICK t \in Nat : t = Stream!Tell /\ ask' = [op |-> o, n |-> k, at |-> t] /\ ask'.at = t /\ ask'.n = k /\ ask'.op = o
  BY <1>1, <1>2
<1>4. k \in Nat /\ <<>> \in Seq(Bytes)
  BY ReaderAssumption
<1>5. Between(file, t, t) = <<>> /\ Reader!Printed(<<>>) = <<>>
  BY BetweenSame, PrintedEmpty
<1>6. LineCollected(file, t, t, <<>>) /\ BytesCollected(file, t, t, k, <<>>)
  BY <1>4, <1>5 DEF LineCollected, BytesCollected
<1>7. StreamCallOK'
  BY <1>1, <1>3, <1>4 DEF StreamCallOK
<1>8. StreamReading' /\ StreamSkipping'
  BY <1>1, <1>2, <1>3, <1>6 DEF StreamReading, StreamSkipping
<1>9. UNCHANGED Stream!readerVars
  BY <1>1, <1>2, <1>3, StreamStutters DEF StreamPosition
<1> QED BY <1>2, <1>7, <1>8, <1>9 DEF StreamInv

LEMMA StreamRefuses ==
  ASSUME StreamInv, NEW o, NEW k, Stream!Refuse(o, k)
  PROVE  StreamInv' /\ Stream!Reader!Answer(o, k, StreamPosition, <<>>, Invalid)
<1>1. /\ op = "none" /\ Stream!Reply(Stream!Call(o, k), <<>>, Invalid)
      /\ UNCHANGED <<file, below, streamBuf, streamPos>>
  BY DEF Stream!Refuse, Stream!stream
<1>2. StreamBufOK' /\ StreamWindow' /\ Stream!Tell' = StreamPosition
  BY <1>1, StreamBufStays DEF StreamPosition
<1>3. Stream!Call(o, k).op = o /\ Stream!Call(o, k).n = k
  BY DEF Stream!Call
<1> QED BY <1>1, <1>2, <1>3, StreamAnswers DEF StreamInv

LEMMA StreamResets ==
  ASSUME StreamInv, Stream!Reset
  PROVE  StreamInv' /\ Stream!Reader!Reset
<1>1. /\ below' = 0 /\ streamBuf' = <<>> /\ streamPos' = 0 /\ file' = file
      /\ Stream!Reply(Stream!Call("reset", 0), <<>>, OK)
  BY DEF Stream!Reset
<1>2. below' \in Nat /\ below' <= Len(file)
  BY <1>1, StreamNumbers
<1>3. StreamBufOK' /\ StreamWindow' /\ Stream!Tell' = 0
  BY <1>1, <1>2, StreamBufEmpties
<1>4. Stream!Call("reset", 0).op = "reset" /\ Stream!Call("reset", 0).n = 0
  BY DEF Stream!Call
<1> QED BY <1>1, <1>3, <1>4, StreamAnswers DEF StreamInv, Stream!Reader!Reset

-----------------------------------------------------------------------------
(* RandomAccessInputStream::ReadNBytes.                                    *)

\* A read of n bytes gives k of them, all or those there are.
LEMMA StreamOutcome ==
  ASSUME StreamInv, NEW c \in Nat
  PROVE  \E k \in 0 .. c :
           /\ Stream!Outcome(c).data = Between(file, below, below + k)
           /\ Stream!Outcome(c).to = below + k /\ below + k <= Len(file)
           /\ Stream!Outcome(c).status = IF k < c THEN OutOfRange ELSE OK
           /\ k < c => below + k = Len(file)
<1>1. PICK k : k = Stream!Available(c)
  OBVIOUS
<1>2. k \in 0 .. c /\ below + k <= Len(file) /\ (k < c => below + k = Len(file))
  BY <1>1, StreamNumbers DEF Stream!Available, Stream!MaxOf, Stream!MinOf
<1>3. /\ Stream!Outcome(c).data = Stream!Got(k) /\ Stream!Outcome(c).to = below + k
      /\ Stream!Outcome(c).status = IF k < c THEN OutOfRange ELSE OK
  BY <1>1 DEF Stream!Outcome
<1>4. Stream!Got(k) = Between(file, below, below + k)
  BY DEF Stream!Got, Between
<1> QED BY <1>2, <1>3, <1>4

\* A read that fails gives none.
LEMMA StreamFailure ==
  ASSUME FailsClean, below \in Nat, NEW c, NEW o \in Stream!Failures(c)
  PROVE  o.data = <<>> /\ o.to = below /\ o.status = Failed
<1>1. PICK k \in 0 .. 0 : o = [data |-> Stream!Got(k), to |-> below, status |-> Failed]
  BY DEF Stream!Failures
<1>2. Stream!Got(0) = <<>>
  <2>1. below + 0 < below + 1 /\ below + 0 \in Int /\ below + 1 \in Int
    OBVIOUS
  <2> QED BY <2>1, SubSeqEmpty DEF Stream!Got
<1>3. k = 0
  OBVIOUS
<1> QED BY <1>1, <1>2, <1>3

\* The byte at pos_, and the next k bytes, are those of the file at Tell.
LEMMA StreamAtTell ==
  ASSUME StreamInv, op # "skip", streamPos < Len(streamBuf)
  PROVE  /\ Stream!Tell + (Len(streamBuf) - streamPos) <= Len(file)
         /\ streamBuf[streamPos + 1] = file[Stream!Tell + 1] /\ streamBuf[streamPos + 1] \in Bytes
         /\ \A k \in 0 .. Len(streamBuf) - streamPos :
              SubSeq(streamBuf, streamPos + 1, streamPos + k)
                = Between(file, Stream!Tell, Stream!Tell + k)
<1>1. /\ file \in Seq(Bytes) /\ streamBuf \in Seq(Bytes)
  BY DEF StreamInv, StreamBufOK
<1>2. streamBuf[streamPos + 1] \in Bytes
  <2>1. streamPos + 1 \in 1 .. Len(streamBuf)
    BY StreamNumbers
  <2> QED BY <1>1, <2>1
<1>3. Len(streamBuf) <= below /\ IsWindow(streamBuf, file, below - Len(streamBuf))
  BY DEF StreamInv, StreamWindow
<1>4. PICK a \in Nat : a = below - Len(streamBuf)
  BY <1>3, StreamNumbers
<1>5. a + Len(streamBuf) <= Len(file) /\ Stream!Tell = a + streamPos /\ IsWindow(streamBuf, file, a)
  BY <1>3, <1>4, StreamNumbers DEF Stream!Tell
<1>6. ASSUME NEW k \in 0 .. Len(streamBuf) - streamPos
      PROVE  /\ SubSeq(streamBuf, streamPos + 1, streamPos + k)
                   = Between(file, a + streamPos, a + streamPos + k)
             /\ k > 0 => streamBuf[streamPos + 1] = file[a + streamPos + 1]
  <2>1. PICK f \in Seq(Bytes), q \in Seq(Bytes), i \in Nat :
          f = file /\ q = streamBuf /\ i = streamPos
    BY <1>1, StreamNumbers
  <2>2. k \in Nat /\ i + k <= Len(q) /\ a + Len(q) <= Len(f) /\ IsWindow(q, f, a)
    BY <1>5, <2>1, StreamNumbers
  <2>3. /\ SubSeq(q, i + 1, i + k) = Between(f, a + i, a + i + k)
        /\ k > 0 => q[i + 1] = f[a + i + 1]
    BY <2>2, BetweenInWindow
  <2> QED BY <2>1, <2>3
<1>7. /\ 1 \in 0 .. Len(streamBuf) - streamPos
      /\ Stream!Tell + (Len(streamBuf) - streamPos) <= Len(file)
  BY <1>5, StreamNumbers
<1> QED BY <1>2, <1>5, <1>6, <1>7

-----------------------------------------------------------------------------
(* Reading.                                                                *)

\* A line began at a and has come to t.
LEMMA StreamLine ==
  ASSUME StreamInv, op \in {"line", "string"}
  PROVE  \E a \in Nat, t \in Nat :
           /\ a = ask.at /\ t = Stream!Tell /\ StreamPosition = a /\ a <= t /\ t <= Len(file)
           /\ ask.op = op /\ ask.n = 0 /\ LineCollected(file, a, t, result)
           /\ result = Stream!Reader!Printed(Stream!Reader!Slice(a, t))
           /\ Stream!Reader!Newlines = {i \in a + 1 .. Len(file) : file[i] = NL}
           /\ \A i \in Stream!Reader!Newlines : t < i
           /\ Stream!Reader!End(a) = Len(file)
<1>1. PICK a \in Nat, t \in Nat : a = ask.at /\ t = Stream!Tell /\ t <= Len(file)
  BY StreamTell, StreamNumbers
<1>2. /\ a <= t /\ ask.op = op /\ ask.n = 0 /\ LineCollected(file, a, t, result)
  BY <1>1 DEF StreamInv, StreamReading
<1>3. StreamPosition = a
  BY <1>1 DEF StreamPosition
<1>4. result = Stream!Reader!Printed(Stream!Reader!Slice(a, t))
  <2>1. result = Reader!Printed(Between(file, a, t))
    BY <1>2 DEF LineCollected
  <2>2. Stream!Reader!Slice(a, t) = Between(file, a, t)
    BY DEF Stream!Reader!Slice, Between
  <2> QED BY <2>1, <2>2, PrintedAlike
<1>5. Stream!Reader!Newlines = {i \in a + 1 .. Len(file) : file[i] = NL}
  BY <1>3 DEF Stream!Reader!Newlines, StreamPosition
<1>6. ASSUME NEW i \in Stream!Reader!Newlines PROVE t < i
  <2>1. i \in a + 1 .. Len(file) /\ file[i] = NL
    BY <1>5
  <2>2. \A j \in a + 1 .. t : file[j] # NL
    BY <1>2 DEF LineCollected
  <2> QED BY <2>1, <2>2, StreamNumbers
<1>7. Stream!Reader!End(a) = Len(file)
  BY <1>1, <1>2, StreamNumbers DEF Stream!Reader!End, Stream!Reader!MaxOf
<1> QED BY <1>1, <1>2, <1>3, <1>4, <1>5, <1>6, <1>7

\* ReadNBytes began at a and has come to t.
LEMMA StreamRead ==
  ASSUME StreamInv, op = "read"
  PROVE  \E a \in Nat, t \in Nat :
           /\ a = ask.at /\ t = Stream!Tell /\ StreamPosition = a /\ a <= t /\ t <= Len(file)
           /\ ask.op = "read" /\ ask.n = want /\ want \in 0 .. MaxAsk /\ t - a <= want
           /\ result = Between(file, a, t) /\ Len(result) = t - a
           /\ result = Stream!Reader!Took("read", t)
<1>1. PICK a \in Nat, t \in Nat : a = ask.at /\ t = Stream!Tell /\ t <= Len(file)
  BY StreamTell, StreamNumbers
<1>2. /\ a <= t /\ ask.op = op /\ ask.n = want /\ want \in 0 .. MaxAsk /\ t - a <= want
      /\ result = Between(file, a, t)
  BY <1>1 DEF StreamInv, StreamReading, BytesCollected
<1>3. StreamPosition = a
  BY <1>1 DEF StreamPosition
<1>4. Len(result) = t - a
  <2>1. file \in Seq(Bytes)
    BY DEF StreamInv, StreamBufOK
  <2> QED BY <1>1, <1>2, <2>1, BetweenIs
<1>5. result = Stream!Reader!Took("read", t)
  BY <1>2, <1>3 DEF Stream!Reader!Took, Stream!Reader!Slice, Between, StreamPosition
<1> QED BY <1>1, <1>2, <1>3, <1>4, <1>5

\* Passing over k bytes of the buffer.
LEMMA StreamAdvances ==
  ASSUME StreamInv, op # "skip", NEW k \in Nat, streamPos + k <= Len(streamBuf),
         streamPos' = streamPos + k, UNCHANGED <<file, below, streamBuf>>
  PROVE  StreamBufOK' /\ StreamWindow' /\ Stream!Tell' = Stream!Tell + k
<1>1. StreamBufOK'
  BY DEF StreamInv, StreamBufOK
<1>2. StreamWindow'
  BY DEF StreamInv, StreamWindow
<1>3. Stream!Tell' = Stream!Tell + k
  BY StreamNumbers DEF Stream!Tell
<1> QED BY <1>1, <1>2, <1>3

LEMMA StreamTakesByte ==
  ASSUME StreamInv, Stream!TakeByte
  PROVE  /\ StreamInv'
         /\ Stream!Reader!ReadLine \/ Stream!Reader!ReadString \/ UNCHANGED Stream!readerVars
<1>1. /\ op \in {"line", "string"} /\ streamPos < Len(streamBuf) /\ streamPos' = streamPos + 1
      /\ UNCHANGED <<file, below, streamBuf>>
  BY DEF Stream!TakeByte, Stream!OfLine
<1>2. PICK a \in Nat, t \in Nat :
        /\ a = ask.at /\ t = Stream!Tell /\ StreamPosition = a /\ a <= t /\ t <= Len(file)
        /\ ask.op = op /\ ask.n = 0 /\ LineCollected(file, a, t, result)
        /\ result = Stream!Reader!Printed(Stream!Reader!Slice(a, t))
        /\ Stream!Reader!Newlines = {i \in a + 1 .. Len(file) : file[i] = NL}
        /\ \A i \in Stream!Reader!Newlines : t < i
        /\ Stream!Reader!End(a) = Len(file)
  BY <1>1, StreamLine
<1>3. op # "skip" /\ streamPos + 1 <= Len(streamBuf) /\ 1 \in Nat /\ file \in Seq(Bytes)
  BY <1>1, StreamNumbers DEF StreamInv, StreamBufOK
<1>4. StreamBufOK' /\ StreamWindow' /\ Stream!Tell' = t + 1
  BY <1>1, <1>2, <1>3, StreamAdvances
<1>5. PICK b \in Bytes : b = streamBuf[streamPos + 1] /\ b = file[t + 1]
  BY <1>1, <1>2, <1>3, StreamAtTell
<1>6. t + 1 <= Len(file) /\ Len(file) \in Nat
  <2>1. t + (Len(streamBuf) - streamPos) <= Len(file)
    BY <1>1, <1>2, <1>3, StreamAtTell
  <2> QED BY <1>1, <2>1, StreamNumbers
<1>7. /\ Between(file, a, t + 1) = Append(Between(file, a, t), b)
      /\ Between(file, a, t) \in Seq(Bytes)
  <2>1. a <= t /\ t <= Len(file)
    BY <1>2
  <2>2. Between(file, a, t) \in Seq(Bytes)
    BY <1>3, <2>1, BetweenIs
  <2>3. Between(file, a, t + 1) = Append(Between(file, a, t), b)
    BY <1>3, <1>5, <1>6, <2>1, BetweenNext
  <2> QED BY <2>2, <2>3
<1>8. Reader!Printed(Between(file, a, t + 1)) = WithByte(result, b)
  BY <1>2, <1>7, PrintedAppend DEF LineCollected
<1>9. CASE b = NL /\ Stream!Reply(ask, IF op = "string" THEN Append(result, b) ELSE result, OK)
  <2>1. /\ Stream!Reader!Answer(op, 0, t + 1, IF op = "string" THEN Append(result, b) ELSE result, OK)
        /\ op' = "none" /\ StreamCallOK' /\ StreamReading' /\ StreamSkipping'
    BY <1>1, <1>2, <1>4, <1>9, StreamAnswers
  <2>2. t + 1 \in Stream!Reader!Newlines /\ \A j \in Stream!Reader!Newlines : t + 1 <= j
    <3>1. t + 1 \in a + 1 .. Len(file) /\ file[t + 1] = NL
      BY <1>2, <1>5, <1>6, <1>9
    <3>2. ASSUME NEW j \in Stream!Reader!Newlines PROVE t + 1 <= j
      <4>1. t < j /\ j \in a + 1 .. Len(file)
        BY <1>2
      <4> QED BY <1>6, <4>1
    <3> QED BY <1>2, <3>1, <3>2
  <2>3. Stream!Reader!NextNewline = t + 1
    <3>1. \A i \in Stream!Reader!Newlines : i \in Int
      BY <1>2
    <3> QED BY <2>2, <3>1 DEF Stream!Reader!NextNewline
  <2>4. CASE op = "line"
    <3>1. Stream!Reader!Answer("line", 0, t + 1, result, OK)
      BY <2>1, <2>4
    <3>2. (t + 1) - 1 = t
      OBVIOUS
    <3>3. Stream!Reader!ReadLine
      BY <1>2, <2>2, <2>3, <3>1, <3>2 DEF Stream!Reader!ReadLine, StreamPosition
    <3> QED BY <1>4, <2>1, <3>3 DEF StreamInv
  <2>5. CASE op = "string"
    <3>1. Stream!Reader!Answer("string", 0, t + 1, Append(result, b), OK)
      BY <2>1, <2>5
    <3>2. Append(result, b) = Stream!Reader!Printed(Stream!Reader!Slice(a, t + 1))
      <4>1. Append(result, b) = WithByte(result, b)
        BY <1>9, ReaderAssumption DEF WithByte
      <4>2. Stream!Reader!Slice(a, t + 1) = Between(file, a, t + 1)
        BY DEF Stream!Reader!Slice, Between
      <4> QED BY <1>8, <4>1, <4>2, PrintedAlike
    <3>3. Stream!Reader!ReadString
      BY <1>2, <2>2, <2>3, <3>1, <3>2 DEF Stream!Reader!ReadString, StreamPosition
    <3> QED BY <1>4, <2>1, <3>3 DEF StreamInv
  <2> QED BY <1>1, <2>4, <2>5
<1>10. CASE /\ b # NL /\ result' = WithByte(result, b)
            /\ UNCHANGED <<op, want, s, ask, reply>>
  <2>1. result' = Reader!Printed(Between(file, a, t + 1))
    BY <1>8, <1>10
  <2>2. ASSUME NEW i \in a + 1 .. t + 1 PROVE file[i] # NL
    <3>1. i = t + 1 \/ i \in a + 1 .. t
      OBVIOUS
    <3> QED BY <1>2, <1>5, <1>10, <3>1 DEF LineCollected
  <2>3. LineCollected(file, a, t + 1, result') /\ a <= t + 1
    BY <1>2, <2>1, <2>2 DEF LineCollected
  <2>4. StreamReading' /\ StreamSkipping'
    BY <1>1, <1>2, <1>4, <1>10, <2>3 DEF StreamReading, StreamSkipping
  <2>5. result' \in Seq(Bytes)
    BY <1>10 DEF WithByte, StreamInv, StreamCallOK
  <2>6. StreamCallOK'
    BY <1>10, <2>5 DEF StreamInv, StreamCallOK
  <2>7. UNCHANGED Stream!readerVars
    BY <1>1, <1>10, StreamStutters DEF StreamPosition
  <2> QED BY <1>4, <2>4, <2>6, <2>7 DEF StreamInv
<1> QED BY <1>5, <1>9, <1>10 DEF Stream!TakeByte, WithByte

LEMMA StreamTakesBytes ==
  ASSUME StreamInv, Stream!TakeBytes
  PROVE  StreamInv' /\ UNCHANGED Stream!readerVars
<1> DEFINE z == Stream!MinOf(Len(streamBuf) - streamPos, want - Len(result))
<1>1. /\ op = "read" /\ Len(result) < want /\ streamPos < Len(streamBuf)
      /\ UNCHANGED <<file, below, streamBuf, op, want, s, ask, reply>>
      /\ streamPos' = streamPos + z
  BY DEF Stream!TakeBytes, Stream!MoreWanted, Stream!OfLine
<1>2. result' = result \o SubSeq(streamBuf, streamPos + 1, streamPos + z)
  BY DEF Stream!TakeBytes
<1>3. PICK a \in Nat, t \in Nat :
        /\ a = ask.at /\ t = Stream!Tell /\ StreamPosition = a /\ a <= t /\ t <= Len(file)
        /\ ask.op = "read" /\ ask.n = want /\ want \in 0 .. MaxAsk /\ t - a <= want
        /\ result = Between(file, a, t) /\ Len(result) = t - a
        /\ result = Stream!Reader!Took("read", t)
  BY <1>1, StreamRead
<1>4. z \in 0 .. Len(streamBuf) - streamPos /\ z <= want - Len(result) /\ z \in Nat
  BY <1>1, StreamNumbers DEF Stream!MinOf
<1> HIDE DEF z
<1>5. PICK k \in Nat : k = z
  BY <1>4
<1>6. k \in 0 .. Len(streamBuf) - streamPos /\ k <= want - (t - a)
  BY <1>3, <1>4, <1>5
<1>7. op # "skip" /\ streamPos + k <= Len(streamBuf) /\ file \in Seq(Bytes)
  BY <1>1, <1>6, StreamNumbers DEF StreamInv, StreamBufOK
<1>8. StreamBufOK' /\ StreamWindow' /\ Stream!Tell' = t + k
  BY <1>1, <1>3, <1>5, <1>7, StreamAdvances
<1>9. t + k <= Len(file)
  <2>1. t + (Len(streamBuf) - streamPos) <= Len(file)
    BY <1>1, <1>3, <1>7, StreamAtTell
  <2> QED BY <1>6, <2>1, StreamNumbers
<1>10. SubSeq(streamBuf, streamPos + 1, streamPos + k) = Between(file, t, t + k)
  BY <1>1, <1>3, <1>6, <1>7, StreamAtTell
<1>11. PICK b \in Nat : b = t + k /\ t <= b /\ b <= Len(file) /\ a <= b
  BY <1>3, <1>9
<1>12. Between(file, a, t) \o Between(file, t, b) = Between(file, a, b)
  <2>1. a <= t /\ t <= b /\ b <= Len(file) /\ file \in Seq(Bytes)
    BY <1>3, <1>7, <1>11
  <2> QED BY <2>1, BetweenJoins
<1>13. result' = Between(file, a, b)
  BY <1>2, <1>3, <1>5, <1>10, <1>11, <1>12, Zenon
<1>14. b - a <= want
  BY <1>6, <1>11, StreamNumbers
<1>15. BytesCollected(file, a, b, want, result')
  BY <1>13, <1>14 DEF BytesCollected
<1>16. StreamReading' /\ StreamSkipping'
  BY <1>1, <1>3, <1>8, <1>11, <1>15 DEF StreamReading, StreamSkipping
<1>17. StreamCallOK'
  <2>1. Between(file, a, b) \in Seq(Bytes)
    BY <1>7, <1>11, BetweenIs
  <2> QED BY <1>1, <1>13, <2>1 DEF StreamInv, StreamCallOK
<1>18. UNCHANGED Stream!readerVars
  BY <1>1, StreamStutters DEF StreamPosition
<1> QED BY <1>8, <1>16, <1>17, <1>18 DEF StreamInv

LEMMA StreamFinishes ==
  ASSUME StreamInv, Stream!Finish
  PROVE  StreamInv' /\ \E k \in 0 .. MaxAsk : Stream!Reader!Take("read", k)
<1>1. /\ op = "read" /\ ~ Len(result) < want
      /\ Stream!Reply(ask, result, IF s = OutOfRange THEN OK ELSE s)
      /\ UNCHANGED <<file, below, streamBuf, streamPos>>
  BY DEF Stream!Finish, Stream!Return, Stream!MoreWanted, Stream!OfLine, Stream!stream
<1>2. PICK a \in Nat, t \in Nat :
        /\ a = ask.at /\ t = Stream!Tell /\ StreamPosition = a /\ a <= t /\ t <= Len(file)
        /\ ask.op = "read" /\ ask.n = want /\ want \in 0 .. MaxAsk /\ t - a <= want
        /\ result = Between(file, a, t) /\ Len(result) = t - a
        /\ result = Stream!Reader!Took("read", t)
  BY <1>1, StreamRead
<1>3. StreamBufOK' /\ StreamWindow' /\ Stream!Tell' = t
  BY <1>1, <1>2, StreamBufStays
<1>4. t = a + want
  BY <1>1, <1>2, StreamNumbers
<1>5. (IF s = OutOfRange THEN OK ELSE s) = OK
  BY DEF StreamInv, StreamCallOK
<1>6. /\ Stream!Reader!Answer("read", want, t, Stream!Reader!Took("read", t), OK)
      /\ StreamCallOK' /\ StreamReading' /\ StreamSkipping'
  BY <1>1, <1>2, <1>3, <1>5, StreamAnswers
<1>7. Stream!Reader!MaxOf(a, Stream!Reader!MinOf(a + want, Len(file))) = t
  <2>1. t <= Len(file) /\ Len(file) \in Nat /\ a <= a + want
    BY <1>2, StreamNumbers
  <2> QED BY <1>4, <2>1 DEF Stream!Reader!MaxOf, Stream!Reader!MinOf
<1>8. Stream!Reader!Take("read", want)
  BY <1>2, <1>4, <1>6, <1>7 DEF Stream!Reader!Take, StreamPosition
<1> QED BY <1>2, <1>3, <1>6, <1>8 DEF StreamInv

\* The file gave no byte.
LEMMA StreamStops ==
  ASSUME StreamInv, Stream!MoreWanted, NEW st,
         Stream!Return(IF Stream!OfLine /\ st = OutOfRange /\ result # <<>> THEN OK ELSE st),
         UNCHANGED file, Stream!Tell' = Stream!Tell,
         st = Failed \/ (st = OutOfRange /\ Len(file) = Stream!Tell)
  PROVE  /\ StreamCallOK' /\ StreamReading' /\ StreamSkipping'
         /\ Stream!Reader!Reads(-1 .. MaxAsk) \/ Stream!Reader!ReadString
<1> DEFINE status == IF Stream!OfLine /\ st = OutOfRange /\ result # <<>> THEN OK ELSE st
<1>1. op \in {"line", "string", "read"}
  BY DEF Stream!MoreWanted, Stream!OfLine
<1>2. Stream!Reply(ask, result, IF op = "string" THEN OK ELSE status)
  BY DEF Stream!Return
<1> HIDE DEF status
<1>3. /\ Stream!Reader!Answer(ask.op, ask.n, Stream!Tell, result, IF op = "string" THEN OK ELSE status)
      /\ StreamCallOK' /\ StreamReading' /\ StreamSkipping'
  BY <1>2, StreamAnswers
<1>4. Len(file) \in Nat /\ st \in {Failed, OutOfRange} /\ Failed # OutOfRange
  BY StreamNumbers, ReaderAssumption
<1>5. ASSUME op \in {"line", "string"}
      PROVE  Stream!Reader!ReadLine \/ Stream!Reader!ReadLineFails \/ Stream!Reader!ReadString
  <2>1. PICK a \in Nat, t \in Nat :
          /\ a = ask.at /\ t = Stream!Tell /\ StreamPosition = a /\ a <= t /\ t <= Len(file)
          /\ ask.op = op /\ ask.n = 0 /\ LineCollected(file, a, t, result)
          /\ result = Stream!Reader!Printed(Stream!Reader!Slice(a, t))
          /\ Stream!Reader!Newlines = {i \in a + 1 .. Len(file) : file[i] = NL}
          /\ \A i \in Stream!Reader!Newlines : t < i
          /\ Stream!Reader!End(a) = Len(file)
    BY <1>5, StreamLine
  <2>2. t \in a .. Stream!Reader!End(a)
    BY <1>4, <2>1
  <2>3. CASE op = "string"
    <3>1. Stream!Reader!Answer("string", 0, t, result, OK)
      BY <1>3, <2>1, <2>3
    <3> QED BY <2>1, <2>2, <3>1 DEF Stream!Reader!ReadString, StreamPosition
  <2>4. CASE op = "line" /\ st = Failed
    <3>1. status = Failed
      BY <1>4, <2>4 DEF status
    <3>2. Stream!Reader!Answer("line", 0, t, result, Failed)
      BY <1>3, <2>1, <2>4, <3>1
    <3> QED BY <2>1, <2>2, <3>2 DEF Stream!Reader!ReadLineFails, StreamPosition
  <2>5. CASE op = "line" /\ st = OutOfRange
    <3>1. t = Len(file)
      BY <1>4, <2>1, <2>5
    <3>2. Stream!Reader!Newlines = {}
      <4>1. ASSUME NEW i \in Stream!Reader!Newlines PROVE FALSE
        <5>1. i \in a + 1 .. Len(file) /\ t < i
          BY <2>1
        <5> QED BY <1>4, <3>1, <5>1
      <4> QED BY <4>1
    <3>3. status = IF result = <<>> THEN OutOfRange ELSE OK
      BY <2>5 DEF status, Stream!OfLine
    <3>4. Stream!Reader!Answer("line", 0, t, result, IF result = <<>> THEN OutOfRange ELSE OK)
      BY <1>3, <2>1, <2>5, <3>3
    <3>5. result = Stream!Reader!Printed(Stream!Reader!Slice(a, Len(file))) /\ Stream!Reader!End(a) = t
      BY <2>1, <3>1
    <3> QED BY <2>1, <3>2, <3>4, <3>5 DEF Stream!Reader!ReadLine, StreamPosition
  <2> QED BY <1>4, <1>5, <2>3, <2>4, <2>5
<1>6. ASSUME op = "read"
      PROVE  \E k \in 0 .. MaxAsk : Stream!Reader!Take("read", k) \/ Stream!Reader!TakeFails("read", k)
  <2>1. PICK a \in Nat, t \in Nat :
          /\ a = ask.at /\ t = Stream!Tell /\ StreamPosition = a /\ a <= t /\ t <= Len(file)
          /\ ask.op = "read" /\ ask.n = want /\ want \in 0 .. MaxAsk /\ t - a <= want
          /\ result = Between(file, a, t) /\ Len(result) = t - a
          /\ result = Stream!Reader!Took("read", t)
    BY <1>6, StreamRead
  <2>2. PICK k \in Nat : k = want /\ t < a + k
    <3>1. Len(result) < want
      BY <1>6 DEF Stream!MoreWanted, Stream!OfLine
    <3>2. t - a < want
      BY <2>1, <3>1
    <3> QED BY <3>2, StreamNumbers
  <2>3. status = st /\ op # "string"
    BY <1>6 DEF status, Stream!OfLine
  <2>4. Stream!Reader!Answer("read", k, t, Stream!Reader!Took("read", t), st)
    BY <1>3, <2>1, <2>2, <2>3
  <2>5. a <= t /\ t <= Len(file)
    BY <2>1
  <2>6. CASE st = Failed
    <3>1. t \in a .. Stream!Reader!MinOf(a + k, Stream!Reader!End(a))
      BY <1>4, <2>2, <2>5 DEF Stream!Reader!MinOf, Stream!Reader!MaxOf, Stream!Reader!End
    <3> QED BY <2>1, <2>2, <2>4, <2>6, <3>1 DEF Stream!Reader!TakeFails, StreamPosition
  <2>7. CASE st = OutOfRange
    <3>1. t = Len(file)
      BY <1>4, <2>1, <2>7
    <3>2. Stream!Reader!MaxOf(a, Stream!Reader!MinOf(a + k, Len(file))) = t /\ t # a + k
      BY <1>4, <2>2, <2>5, <3>1 DEF Stream!Reader!MinOf, Stream!Reader!MaxOf
    <3> QED BY <2>1, <2>2, <2>4, <2>7, <3>2 DEF Stream!Reader!Take, StreamPosition
  <2> QED BY <1>4, <2>6, <2>7
<1>7. ASSUME op = "read" PROVE Stream!Reader!Reads(-1 .. MaxAsk)
  <2>1. PICK k \in 0 .. MaxAsk : Stream!Reader!Take("read", k) \/ Stream!Reader!TakeFails("read", k)
    BY <1>6, <1>7
  <2>2. k \in -1 .. MaxAsk /\ k >= 0
    BY ReaderAssumption
  <2> QED BY <2>1, <2>2 DEF Stream!Reader!Reads
<1>8. ASSUME op \in {"line", "string"}
      PROVE  Stream!Reader!Reads(-1 .. MaxAsk) \/ Stream!Reader!ReadString
  BY <1>5, <1>8 DEF Stream!Reader!Reads
<1> QED BY <1>1, <1>3, <1>7, <1>8

LEMMA StreamRefills ==
  ASSUME FailsClean, StreamInv, Stream!Refill \/ Stream!RefillFails
  PROVE  /\ StreamInv'
         /\ \/ Stream!Reader!Reads(-1 .. MaxAsk) \/ Stream!Reader!ReadString
            \/ UNCHANGED Stream!readerVars
<1>1. PICK o : /\ Stream!Refilled(o)
               /\ o = Stream!Outcome(size_) \/ o \in Stream!Failures(size_)
  BY DEF Stream!Refill, Stream!RefillFails
<1>2. /\ Stream!MoreWanted /\ streamPos = Len(streamBuf) /\ file' = file
      /\ streamBuf' = o.data /\ streamPos' = 0 /\ below' = o.to
      /\ IF o.data # <<>>
         THEN s' = o.status /\ UNCHANGED <<op, want, result, ask, reply>>
         ELSE Stream!Return(IF Stream!OfLine /\ o.status = OutOfRange /\ result # <<>>
                            THEN OK ELSE o.status)
  BY <1>1 DEF Stream!Refilled, Stream!FillBuffer
<1>3. op \in {"line", "string", "read"}
  BY <1>2 DEF Stream!MoreWanted, Stream!OfLine
<1>4. Stream!Tell = below
  BY <1>2, StreamNumbers DEF Stream!Tell
<1>5. ASSUME o.data = <<>>, o.to = below,
             o.status = Failed \/ (o.status = OutOfRange /\ Len(file) = below)
      PROVE  StreamInv' /\ (Stream!Reader!Reads(-1 .. MaxAsk) \/ Stream!Reader!ReadString)
  <2>1. below' \in Nat /\ below' <= Len(file) /\ streamBuf' = <<>> /\ streamPos' = 0
    BY <1>2, <1>5, StreamNumbers
  <2>2. StreamBufOK' /\ StreamWindow' /\ Stream!Tell' = Stream!Tell
    BY <1>2, <1>4, <1>5, <2>1, StreamBufEmpties
  <2>3. Stream!Return(IF Stream!OfLine /\ o.status = OutOfRange /\ result # <<>>
                      THEN OK ELSE o.status)
    BY <1>2, <1>5
  <2>4. /\ StreamCallOK' /\ StreamReading' /\ StreamSkipping'
        /\ Stream!Reader!Reads(-1 .. MaxAsk) \/ Stream!Reader!ReadString
    BY <1>2, <1>4, <1>5, <2>2, <2>3, StreamStops
  <2> QED BY <2>2, <2>4 DEF StreamInv
<1>6. CASE o \in Stream!Failures(size_)
  BY <1>5, <1>6, StreamFailure, StreamNumbers
<1>7. CASE o = Stream!Outcome(size_)
  <2>1. size_ \in Nat /\ size_ # 0
    BY ReaderAssumption
  <2>2. PICK k \in 0 .. size_ :
          /\ Stream!Outcome(size_).data = Between(file, below, below + k)
          /\ Stream!Outcome(size_).to = below + k /\ below + k <= Len(file)
          /\ Stream!Outcome(size_).status = IF k < size_ THEN OutOfRange ELSE OK
          /\ k < size_ => below + k = Len(file)
    BY <2>1, StreamOutcome
  <2>3. PICK b \in Nat : b = below
    BY StreamNumbers
  <2>4. k \in Nat /\ file \in Seq(Bytes) /\ b + k \in Nat
    BY <2>1 DEF StreamInv, StreamBufOK
  <2>5. CASE k = 0
    <3>1. Between(file, b, b + 0) = <<>> /\ b + 0 = b
      <4>1. b + 0 = b
        OBVIOUS
      <4> QED BY <4>1, BetweenSame
    <3>2. o.data = <<>> /\ o.to = below /\ o.status = OutOfRange /\ Len(file) = below
      BY <1>7, <2>1, <2>2, <2>3, <2>5, <3>1
    <3> QED BY <1>5, <3>2
  <2>6. CASE k > 0
    <3>1. PICK q : q = Between(file, b, b + k)
      OBVIOUS
    <3>2. q \in Seq(Bytes) /\ Len(q) = k /\ q # <<>>
      <4>1. b <= b + k /\ b + k <= Len(file) /\ (b + k) - b = k
        BY <2>2, <2>3, <2>4
      <4>2. q \in Seq(Bytes) /\ Len(q) = k
        BY <2>4, <3>1, <4>1, BetweenIs
      <4>3. Len(<<>>) = 0
        OBVIOUS
      <4> QED BY <2>6, <4>2, <4>3
    <3>3. /\ streamBuf' = q /\ streamPos' = 0 /\ below' = b + k /\ b + k <= Len(file)
          /\ s' \in {OK, OutOfRange} /\ UNCHANGED <<op, want, result, ask, reply>>
      BY <1>2, <1>7, <2>2, <2>3, <3>1, <3>2
    <3>4. StreamBufOK'
      BY <1>2, <2>4, <3>2, <3>3 DEF StreamBufOK
    <3>5. StreamWindow'
      <4>1. IsWindow(q, file, b)
        BY <3>1, <3>2 DEF IsWindow
      <4>2. (b + k) - k = b /\ k <= b + k
        BY <2>4
      <4> QED BY <1>2, <3>2, <3>3, <4>1, <4>2 DEF StreamWindow
    <3>6. Stream!Tell' = Stream!Tell
      <4>1. Stream!Tell' = (b + k) - (k - 0)
        BY <3>2, <3>3 DEF Stream!Tell
      <4> QED BY <1>4, <2>3, <2>4, <4>1
    <3>7. StreamCallOK' /\ StreamReading' /\ StreamSkipping'
      <4>1. StreamCallOK'
        BY <3>3 DEF StreamInv, StreamCallOK
      <4>2. StreamReading'
        BY <1>2, <3>3, <3>6 DEF StreamInv, StreamReading
      <4>3. StreamSkipping'
        BY <1>3, <3>3 DEF StreamSkipping
      <4> QED BY <4>1, <4>2, <4>3
    <3>8. UNCHANGED Stream!readerVars
      BY <1>2, <3>3, <3>6, StreamStutters DEF StreamPosition
    <3> QED BY <3>4, <3>5, <3>7, <3>8 DEF StreamInv
  <2> QED BY <2>4, <2>5, <2>6
<1> QED BY <1>1, <1>6, <1>7

-----------------------------------------------------------------------------
(* Skipping and seeking.                                                   *)

\* The call c skips k bytes: it is over, or the stream below has to skip the rest.
LEMMA StreamSkips ==
  ASSUME StreamInv, op = "none", NEW k \in Nat, NEW c, c.at = Stream!Tell,
         Stream!Skip(c, k), UNCHANGED file
  PROVE  /\ StreamBufOK' /\ StreamCallOK' /\ StreamWindow' /\ StreamReading'
         /\ \/ /\ Stream!Reader!Answer(c.op, c.n, Stream!Tell + k, <<>>, OK)
               /\ StreamSkipping' /\ Stream!Tell + k <= Len(file)
            \/ /\ op' = "skip" /\ ask' = c /\ UNCHANGED <<below, reply>>
               /\ Stream!Tell <= below /\ below + want' = Stream!Tell + k
<1>1. op # "skip" /\ Stream!Tell \in Nat
  <2>1. op # "skip"
    OBVIOUS
  <2> QED BY <2>1, StreamTell
<1>2. CASE streamPos + k < Len(streamBuf)
  <2>1. /\ streamPos' = streamPos + k /\ Stream!Reply(c, <<>>, OK)
        /\ UNCHANGED <<below, streamBuf>>
    BY <1>2 DEF Stream!Skip
  <2>2. streamPos + k <= Len(streamBuf)
    BY <1>2, StreamNumbers
  <2>3. StreamBufOK' /\ StreamWindow' /\ Stream!Tell' = Stream!Tell + k
    BY <1>1, <2>1, <2>2, StreamAdvances
  <2>4. /\ Stream!Reader!Answer(c.op, c.n, Stream!Tell + k, <<>>, OK)
        /\ StreamCallOK' /\ StreamReading' /\ StreamSkipping'
    BY <2>1, <2>3, StreamAnswers
  <2>5. Stream!Tell + k <= Len(file)
    BY <1>2, StreamNumbers DEF Stream!Tell
  <2> QED BY <2>3, <2>4, <2>5
<1>3. CASE ~ streamPos + k < Len(streamBuf)
  <2>1. /\ op' = "skip" /\ want' = k - (Len(streamBuf) - streamPos) /\ result' = <<>> /\ s' = OK
        /\ ask' = c /\ UNCHANGED <<below, streamBuf, streamPos, reply>>
    BY <1>3 DEF Stream!Skip, Stream!Goes, Stream!stream
  <2>2. want' \in Nat /\ below + want' = Stream!Tell + k /\ Stream!Tell <= below
    BY <1>3, <2>1, StreamNumbers DEF Stream!Tell
  <2>3. StreamBufOK'
    BY <2>1 DEF StreamInv, StreamBufOK
  <2>4. ask'.at \in Nat /\ <<>> \in Seq(Bytes)
    BY <1>1, <2>1
  <2>5. StreamCallOK'
    BY <2>1, <2>2, <2>4 DEF StreamCallOK
  <2>6. StreamWindow' /\ StreamReading'
    BY <2>1 DEF StreamWindow, StreamReading
  <2> QED BY <2>1, <2>2, <2>3, <2>5, <2>6
<1> QED BY <1>2, <1>3

LEMMA StreamBeginsSkipping ==
  ASSUME StreamInv, NEW k \in 0 .. MaxAsk, op = "none",
         Stream!Skip(Stream!Call("skip", k), k), UNCHANGED file
  PROVE  StreamInv' /\ (Stream!Reader!Take("skip", k) \/ UNCHANGED Stream!readerVars)
<1>1. PICK c, t : c = Stream!Call("skip", k) /\ t = Stream!Tell
  OBVIOUS
<1>2. c.op = "skip" /\ c.n = k /\ c.at = t
  BY <1>1 DEF Stream!Call
<1>3. t \in Nat /\ k \in Nat /\ Len(file) \in Nat /\ StreamPosition = t
  <2>1. op # "skip"
    OBVIOUS
  <2> QED BY <1>1, <2>1, StreamTell, StreamNumbers, ReaderAssumption DEF StreamPosition
<1>4. /\ StreamBufOK' /\ StreamCallOK' /\ StreamWindow' /\ StreamReading'
      /\ \/ /\ Stream!Reader!Answer(c.op, c.n, t + k, <<>>, OK)
            /\ StreamSkipping' /\ t + k <= Len(file)
         \/ /\ op' = "skip" /\ ask' = c /\ UNCHANGED <<below, reply>>
            /\ t <= below /\ below + want' = t + k
  BY <1>1, <1>2, <1>3, StreamSkips
<1>5. CASE Stream!Reader!Answer(c.op, c.n, t + k, <<>>, OK) /\ StreamSkipping' /\ t + k <= Len(file)
  <2>1. Stream!Reader!MaxOf(t, Stream!Reader!MinOf(t + k, Len(file))) = t + k
    BY <1>3, <1>5 DEF Stream!Reader!MaxOf, Stream!Reader!MinOf
  <2>2. Stream!Reader!Took("skip", t + k) = <<>>
    BY DEF Stream!Reader!Took
  <2>3. Stream!Reader!Take("skip", k)
    BY <1>2, <1>3, <1>5, <2>1, <2>2 DEF Stream!Reader!Take, StreamPosition
  <2> QED BY <1>4, <1>5, <2>3 DEF StreamInv
<1>6. CASE /\ op' = "skip" /\ ask' = c /\ UNCHANGED <<below, reply>>
           /\ t <= below /\ below + want' = t + k
  <2>1. StreamSkipping'
    BY <1>2, <1>6 DEF StreamSkipping
  <2>2. StreamPosition' = StreamPosition
    BY <1>2, <1>3, <1>6 DEF StreamPosition
  <2>3. UNCHANGED Stream!readerVars
    BY <1>6, <2>2, StreamStutters
  <2> QED BY <1>4, <2>1, <2>3 DEF StreamInv
<1> QED BY <1>4, <1>5, <1>6

LEMMA StreamSeeks ==
  ASSUME StreamInv, NEW p \in -1 .. MaxFile + 1, Stream!Seek(p)
  PROVE  StreamInv' /\ (Stream!Reader!SeekBySkipping(p) \/ UNCHANGED Stream!readerVars)
<1>1. CASE p < 0
  <2>1. StreamInv' /\ Stream!Reader!Answer("seek", p, StreamPosition, <<>>, Invalid)
    BY <1>1, StreamRefuses DEF Stream!Seek
  <2>2. Stream!Reader!SeekBySkipping(p)
    BY <1>1, <2>1 DEF Stream!Reader!SeekBySkipping, Stream!Reader!Reject, StreamPosition
  <2> QED BY <2>1, <2>2
<1>2. CASE ~ p < 0
  <2>1. PICK c, t : c = Stream!Call("seek", p) /\ t = Stream!Tell
    OBVIOUS
  <2>2. c.op = "seek" /\ c.n = p /\ c.at = t
    BY <2>1 DEF Stream!Call
  <2>3. op = "none" /\ file' = file /\ IF p < t THEN Stream!Rewind(c, p) ELSE Stream!Skip(c, p - t)
    BY <1>2, <2>1 DEF Stream!Seek
  <2>4. /\ t \in Nat /\ p \in Nat /\ p \in 0 .. MaxFile + 1 /\ Len(file) \in Nat
        /\ StreamPosition = t
    <3>1. op # "skip"
      BY <2>3
    <3> QED BY <1>2, <2>1, <2>3, <3>1, StreamTell, StreamNumbers, ReaderAssumption DEF StreamPosition
  <2>5. CASE p < t
    <3>1. /\ below' = 0 /\ streamBuf' = <<>> /\ streamPos' = 0 /\ op' = "skip" /\ want' = p
          /\ result' = <<>> /\ s' = OK /\ ask' = c /\ reply' = reply
      BY <2>3, <2>5 DEF Stream!Rewind, Stream!Goes
    <3>2. below' \in Nat /\ below' <= Len(file)
      BY <2>4, <3>1
    <3>3. StreamBufOK' /\ StreamWindow'
      BY <2>3, <3>1, <3>2, StreamBufEmpties
    <3>4. ask'.at \in Nat /\ <<>> \in Seq(Bytes)
      BY <2>2, <2>4, <3>1
    <3>5. StreamCallOK'
      BY <2>4, <3>1, <3>4 DEF StreamCallOK
    <3>6. StreamReading' /\ StreamSkipping'
      <4>1. StreamReading'
        BY <3>1 DEF StreamReading
      <4>2. 0 + p = p
        BY <2>4
      <4>3. ask'.op = "seek" /\ ask'.n \in 0 .. MaxFile + 1 /\ below' + want' = ask'.n
        BY <2>2, <2>4, <3>1, <4>2
      <4> QED BY <4>1, <4>3 DEF StreamSkipping
    <3>7. StreamPosition' = StreamPosition
      BY <2>2, <2>4, <3>1 DEF StreamPosition
    <3>8. UNCHANGED Stream!readerVars
      BY <2>3, <3>1, <3>7, StreamStutters
    <3> QED BY <3>3, <3>5, <3>6, <3>8 DEF StreamInv
  <2>6. CASE ~ p < t
    <3>1. PICK k \in Nat : k = p - t /\ t + k = p
      BY <2>4, <2>6
    <3>2. /\ StreamBufOK' /\ StreamCallOK' /\ StreamWindow' /\ StreamReading'
          /\ \/ /\ Stream!Reader!Answer(c.op, c.n, t + k, <<>>, OK)
                /\ StreamSkipping' /\ t + k <= Len(file)
             \/ /\ op' = "skip" /\ ask' = c /\ UNCHANGED <<below, reply>>
                /\ t <= below /\ below + want' = t + k
      BY <2>1, <2>2, <2>3, <2>6, <3>1, StreamSkips
    <3>3. CASE Stream!Reader!Answer(c.op, c.n, t + k, <<>>, OK) /\ StreamSkipping' /\ t + k <= Len(file)
      <4>1. Stream!Reader!MinOf(p, Len(file)) = p
        BY <2>4, <3>1, <3>3 DEF Stream!Reader!MinOf
      <4>2. Stream!Reader!Answer("seek", p, p, <<>>, OK)
        BY <2>2, <3>1, <3>3
      <4>3. Stream!Reader!SeekBySkipping(p)
        BY <2>4, <4>1, <4>2 DEF Stream!Reader!SeekBySkipping
      <4> QED BY <3>2, <3>3, <4>3 DEF StreamInv
    <3>4. CASE /\ op' = "skip" /\ ask' = c /\ UNCHANGED <<below, reply>>
               /\ t <= below /\ below + want' = t + k
      <4>1. StreamSkipping'
        BY <2>2, <2>4, <3>1, <3>4 DEF StreamSkipping
      <4>2. StreamPosition' = StreamPosition
        BY <2>2, <2>4, <3>4 DEF StreamPosition
      <4>3. UNCHANGED Stream!readerVars
        BY <2>3, <3>4, <4>2, StreamStutters
      <4> QED BY <3>2, <4>1, <4>3 DEF StreamInv
    <3> QED BY <3>2, <3>3, <3>4
  <2> QED BY <2>5, <2>6
<1> QED BY <1>1, <1>2

\* A call that skips ends where the stream below stands.
LEMMA StreamSkipEnds ==
  ASSUME StreamInv, op = "skip", NEW b \in Nat, NEW st,
         Stream!Reply(ask, <<>>, st), UNCHANGED file, Stream!Tell' = b,
         below <= b, b <= Len(file),
         \/ st = OK /\ want = 0 /\ b = below
         \/ st = OutOfRange /\ b = Len(file) /\ b < below + want
         \/ st = Failed /\ b = below
  PROVE  /\ StreamCallOK' /\ StreamReading' /\ StreamSkipping'
         /\ \/ Stream!Reader!Reads(-1 .. MaxAsk)
            \/ \E p \in -1 .. MaxFile + 1 : Stream!Reader!SeekBySkipping(p)
<1>1. /\ Stream!Reader!Answer(ask.op, ask.n, b, <<>>, st)
      /\ StreamCallOK' /\ StreamReading' /\ StreamSkipping'
  BY StreamAnswers
<1>2. Len(file) \in Nat /\ below \in Nat /\ want \in Nat /\ ask.at \in Nat
  BY StreamNumbers
<1>3. StreamPosition = ask.at
  BY DEF StreamPosition
<1>4. \/ /\ ask.op = "skip" /\ ask.n \in 0 .. MaxAsk
         /\ ask.at <= below /\ below + want = ask.at + ask.n
      \/ ask.op = "seek" /\ ask.n \in 0 .. MaxFile + 1 /\ below + want = ask.n
  BY DEF StreamInv, StreamSkipping
<1>5. CASE /\ ask.op = "skip" /\ ask.n \in 0 .. MaxAsk
           /\ ask.at <= below /\ below + want = ask.at + ask.n
  <2>1. PICK a \in Nat, k \in Nat : a = ask.at /\ k = ask.n /\ k \in 0 .. MaxAsk
    BY <1>2, <1>5, ReaderAssumption
  <2>2. a <= b /\ below + want = a + k /\ a <= below
    BY <1>2, <1>5, <2>1
  <2>3. Stream!Reader!Answer("skip", k, b, <<>>, st) /\ Stream!Reader!Took("skip", b) = <<>>
    BY <1>1, <1>5, <2>1 DEF Stream!Reader!Took
  <2>4. ASSUME st = Failed /\ b = below
       PROVE  Stream!Reader!TakeFails("skip", k)
    <3>1. b \in a .. Stream!Reader!MinOf(a + k, Stream!Reader!End(a))
      BY <1>2, <2>2, <2>4 DEF Stream!Reader!MinOf, Stream!Reader!MaxOf, Stream!Reader!End
    <3> QED BY <1>3, <2>1, <2>3, <2>4, <3>1 DEF Stream!Reader!TakeFails, StreamPosition
  <2>5. ASSUME st = OutOfRange /\ b = Len(file) /\ b < below + want
       PROVE  Stream!Reader!Take("skip", k)
    <3>1. Stream!Reader!MaxOf(a, Stream!Reader!MinOf(a + k, Len(file))) = b /\ b # a + k
      BY <1>2, <2>2, <2>5 DEF Stream!Reader!MinOf, Stream!Reader!MaxOf
    <3> QED BY <1>3, <2>1, <2>3, <2>5, <3>1 DEF Stream!Reader!Take, StreamPosition
  <2>6. ASSUME st = OK /\ want = 0 /\ b = below
       PROVE  Stream!Reader!Take("skip", k)
    <3>1. Stream!Reader!MaxOf(a, Stream!Reader!MinOf(a + k, Len(file))) = b /\ b = a + k
      BY <1>2, <2>2, <2>6 DEF Stream!Reader!MinOf, Stream!Reader!MaxOf
    <3> QED BY <1>3, <2>1, <2>3, <2>6, <3>1 DEF Stream!Reader!Take, StreamPosition
  <2>7. Stream!Reader!Take("skip", k) \/ Stream!Reader!TakeFails("skip", k)
    BY <2>4, <2>5, <2>6
  <2>8. k \in -1 .. MaxAsk /\ k >= 0
    BY <2>1, ReaderAssumption
  <2>9. Stream!Reader!Reads(-1 .. MaxAsk)
    BY <2>7, <2>8 DEF Stream!Reader!Reads
  <2> QED BY <1>1, <2>9
<1>6. CASE ask.op = "seek" /\ ask.n \in 0 .. MaxFile + 1 /\ below + want = ask.n
  <2>1. PICK p \in Nat : p = ask.n /\ p \in 0 .. MaxFile + 1 /\ p \in -1 .. MaxFile + 1
    BY <1>6, ReaderAssumption
  <2>2. below + want = p
    BY <1>6, <2>1
  <2>3. Stream!Reader!Answer("seek", p, b, <<>>, st)
    BY <1>1, <1>6, <2>1
  <2>4. ASSUME st = Failed /\ b = below
       PROVE  Stream!Reader!SeekBySkipping(p)
    <3>1. b \in 0 .. p
      BY <1>2, <2>2, <2>4
    <3> QED BY <2>3, <2>4, <3>1 DEF Stream!Reader!SeekBySkipping
  <2>5. ASSUME st = OutOfRange /\ b = Len(file) /\ b < below + want
       PROVE  Stream!Reader!SeekBySkipping(p)
    <3>1. Stream!Reader!MinOf(p, Len(file)) = b /\ b # p
      BY <1>2, <2>2, <2>5 DEF Stream!Reader!MinOf
    <3> QED BY <2>3, <2>5, <3>1 DEF Stream!Reader!SeekBySkipping
  <2>6. ASSUME st = OK /\ want = 0 /\ b = below
       PROVE  Stream!Reader!SeekBySkipping(p)
    <3>1. Stream!Reader!MinOf(p, Len(file)) = b /\ b = p
      BY <1>2, <2>2, <2>6 DEF Stream!Reader!MinOf
    <3> QED BY <2>3, <2>6, <3>1 DEF Stream!Reader!SeekBySkipping
  <2>7. Stream!Reader!SeekBySkipping(p)
    BY <2>4, <2>5, <2>6
  <2> QED BY <1>1, <2>1, <2>7
<1> QED BY <1>4, <1>5, <1>6

LEMMA StreamSkipsChunk ==
  ASSUME FailsClean, StreamInv, Stream!SkipChunk \/ Stream!ChunkFails
  PROVE  /\ StreamInv'
         /\ \/ Stream!Reader!Reads(-1 .. MaxAsk)
            \/ \E p \in -1 .. MaxFile + 1 : Stream!Reader!SeekBySkipping(p)
            \/ UNCHANGED Stream!readerVars
<1>1. PICK c, o : /\ c = Stream!ChunkSize /\ Stream!Skipped(o)
                  /\ o = Stream!Outcome(c) \/ o \in Stream!Failures(c)
  BY DEF Stream!SkipChunk, Stream!ChunkFails
<1>2. /\ op = "skip" /\ want > 0 /\ below' = o.to /\ file' = file
      /\ IF o.status = OK
         THEN want' = want - c /\ UNCHANGED <<streamBuf, streamPos, op, result, s, ask, reply>>
         ELSE streamBuf' = <<>> /\ streamPos' = 0 /\ Stream!Reply(ask, <<>>, o.status)
  BY <1>1 DEF Stream!Skipped
<1>3. c \in Nat /\ 0 < c /\ c <= want
  BY <1>1, <1>2, StreamNumbers, ReaderAssumption DEF Stream!ChunkSize, Stream!MinOf
<1>4. ASSUME NEW b \in Nat, o.to = b, o.status # OK, below <= b, b <= Len(file),
             \/ o.status = OutOfRange /\ b = Len(file) /\ b < below + want
             \/ o.status = Failed /\ b = below
      PROVE  /\ StreamInv'
             /\ \/ Stream!Reader!Reads(-1 .. MaxAsk)
                \/ \E p \in -1 .. MaxFile + 1 : Stream!Reader!SeekBySkipping(p)
  <2>1. streamBuf' = <<>> /\ streamPos' = 0 /\ Stream!Reply(ask, <<>>, o.status) /\ below' = b
    BY <1>2, <1>4
  <2>2. StreamBufOK' /\ StreamWindow' /\ Stream!Tell' = b
    BY <1>2, <1>4, <2>1, StreamBufEmpties
  <2>3. /\ StreamCallOK' /\ StreamReading' /\ StreamSkipping'
        /\ \/ Stream!Reader!Reads(-1 .. MaxAsk)
           \/ \E p \in -1 .. MaxFile + 1 : Stream!Reader!SeekBySkipping(p)
    BY <1>2, <1>4, <2>1, <2>2, StreamSkipEnds
  <2> QED BY <2>2, <2>3 DEF StreamInv
<1>5. CASE o \in Stream!Failures(c)
  <2>1. below \in Nat /\ below <= Len(file) /\ below <= below
    BY StreamNumbers
  <2>2. o.to = below /\ o.status = Failed /\ o.status # OK
    BY <1>5, <2>1, StreamFailure, ReaderAssumption
  <2> QED BY <1>4, <2>1, <2>2
<1>6. CASE o = Stream!Outcome(c)
  <2>1. PICK k \in 0 .. c :
          /\ o.to = below + k /\ below + k <= Len(file)
          /\ o.status = IF k < c THEN OutOfRange ELSE OK
          /\ k < c => below + k = Len(file)
    BY <1>3, <1>6, StreamOutcome
  <2>2. CASE k < c
    <3>1. /\ below + k \in Nat /\ below <= below + k /\ below + k < below + want
      BY <1>3, <2>2, StreamNumbers
    <3>2. o.status = OutOfRange /\ o.status # OK /\ below + k = Len(file)
      BY <2>1, <2>2, ReaderAssumption
    <3> QED BY <1>4, <2>1, <3>1, <3>2
  <2>3. CASE ~ k < c
    <3>1. k = c /\ o.status = OK
      BY <1>3, <2>1, <2>3
    <3>2. /\ want' = want - c /\ below' = below + c /\ below + c <= Len(file)
          /\ UNCHANGED <<streamBuf, streamPos, op, result, s, ask, reply>>
      BY <1>2, <2>1, <3>1
    <3>3. /\ want' \in Nat /\ below' \in Nat /\ below' <= Len(file) /\ below <= below'
          /\ below' + want' = below + want
      BY <1>3, <3>2, StreamNumbers
    <3>4. StreamBufOK'
      BY <1>2, <3>2, <3>3 DEF StreamInv, StreamBufOK
    <3>5. StreamCallOK'
      BY <3>2, <3>3 DEF StreamInv, StreamCallOK
    <3>6. StreamWindow' /\ StreamReading'
      BY <1>2, <3>2 DEF StreamWindow, StreamReading
    <3>7. StreamSkipping'
      <4>1. /\ op' = "skip" /\ ask' = ask /\ below' + want' = below + want
            /\ ask.at <= below => ask.at <= below'
        BY <1>2, <3>2, <3>3, StreamNumbers
      <4> QED BY <1>2, <4>1 DEF StreamInv, StreamSkipping
    <3>8. UNCHANGED Stream!readerVars
      BY <1>2, <3>2, StreamStutters DEF StreamPosition
    <3> QED BY <3>4, <3>5, <3>6, <3>7, <3>8 DEF StreamInv
  <2> QED BY <2>2, <2>3
<1> QED BY <1>1, <1>5, <1>6

LEMMA StreamSkipReturns ==
  ASSUME StreamInv, Stream!SkipReturn
  PROVE  /\ StreamInv'
         /\ \/ Stream!Reader!Reads(-1 .. MaxAsk)
            \/ \E p \in -1 .. MaxFile + 1 : Stream!Reader!SeekBySkipping(p)
<1>1. /\ op = "skip" /\ want = 0 /\ streamBuf' = <<>> /\ streamPos' = 0
      /\ Stream!Reply(ask, <<>>, OK) /\ UNCHANGED <<file, below>>
  BY DEF Stream!SkipReturn
<1>2. below \in Nat /\ below <= Len(file) /\ below <= below
  BY StreamNumbers
<1>3. StreamBufOK' /\ StreamWindow' /\ Stream!Tell' = below
  BY <1>1, <1>2, StreamBufEmpties
<1>4. /\ StreamCallOK' /\ StreamReading' /\ StreamSkipping'
      /\ \/ Stream!Reader!Reads(-1 .. MaxAsk)
         \/ \E p \in -1 .. MaxFile + 1 : Stream!Reader!SeekBySkipping(p)
  BY <1>1, <1>2, <1>3, StreamSkipEnds
<1> QED BY <1>3, <1>4 DEF StreamInv

-----------------------------------------------------------------------------

LEMMA StreamMoves ==
  ASSUME FailsClean, StreamInv, [Stream!Next]_Stream!vars
  PROVE  StreamInv' /\ [Stream!ReaderStep]_Stream!readerVars
<1> SUFFICES StreamInv' /\ (Stream!ReaderStep \/ UNCHANGED Stream!readerVars)
  OBVIOUS
<1>1. CASE UNCHANGED Stream!vars
  <2>1. UNCHANGED <<file, below, streamBuf, streamPos, op, want, result, s, ask, reply>>
    BY <1>1 DEF Stream!vars, Stream!stream, Stream!call
  <2>2. StreamInv'
    BY <2>1 DEF StreamInv, StreamBufOK, StreamCallOK, StreamWindow, StreamReading, StreamSkipping,
                Stream!Tell
  <2>3. StreamPosition' = StreamPosition
    BY <2>1 DEF StreamPosition, Stream!Tell
  <2> QED BY <2>1, <2>2, <2>3, StreamStutters
<1>2. CASE Stream!Grow
  BY <1>2, StreamGrows DEF Stream!ReaderStep
<1>3. CASE Stream!ReadLine \/ Stream!ReadLineAsString
  <2>1. 0 \in 0 .. MaxAsk
    BY ReaderAssumption
  <2> QED BY <1>3, <2>1, StreamBegins DEF Stream!ReadLine, Stream!ReadLineAsString
<1>4. CASE Stream!Reset
  BY <1>4, StreamResets DEF Stream!ReaderStep
<1>5. ASSUME NEW k \in -1 .. MaxAsk, NEW o \in {"read", "skip"}, k < 0, Stream!Refuse(o, k)
      PROVE  StreamInv' /\ Stream!ReaderStep
  <2>1. StreamInv' /\ Stream!Reader!Answer(o, k, StreamPosition, <<>>, Invalid)
    BY <1>5, StreamRefuses
  <2>2. Stream!Reader!Reject(o, k)
    BY <1>5, <2>1 DEF Stream!Reader!Reject, StreamPosition
  <2> QED BY <2>1, <2>2 DEF Stream!ReaderStep, Stream!Reader!Reads
<1>6. ASSUME NEW k \in -1 .. MaxAsk, Stream!ReadNBytes(k)
      PROVE  StreamInv' /\ (Stream!ReaderStep \/ UNCHANGED Stream!readerVars)
  <2>1. CASE k < 0
    BY <1>5, <1>6, <2>1 DEF Stream!ReadNBytes
  <2>2. CASE ~ k < 0
    <3>1. k \in 0 .. MaxAsk
      BY <2>2, ReaderAssumption
    <3> QED BY <1>6, <2>2, <3>1, StreamBegins DEF Stream!ReadNBytes
  <2> QED BY <2>1, <2>2
<1>7. ASSUME NEW k \in -1 .. MaxAsk, Stream!SkipNBytes(k)
      PROVE  StreamInv' /\ (Stream!ReaderStep \/ UNCHANGED Stream!readerVars)
  <2>1. CASE k < 0
    BY <1>5, <1>7, <2>1 DEF Stream!SkipNBytes
  <2>2. CASE ~ k < 0
    <3>1. k \in 0 .. MaxAsk /\ k \in -1 .. MaxAsk /\ k >= 0
      BY <2>2, ReaderAssumption
    <3>2. op = "none" /\ Stream!Skip(Stream!Call("skip", k), k) /\ file' = file
      BY <1>7, <2>2 DEF Stream!SkipNBytes
    <3>3. StreamInv' /\ (Stream!Reader!Take("skip", k) \/ UNCHANGED Stream!readerVars)
      BY <3>1, <3>2, StreamBeginsSkipping
    <3> QED BY <3>1, <3>3 DEF Stream!ReaderStep, Stream!Reader!Reads
  <2> QED BY <2>1, <2>2
<1>8. ASSUME NEW p \in -1 .. MaxFile + 1, Stream!Seek(p)
      PROVE  StreamInv' /\ (Stream!ReaderStep \/ UNCHANGED Stream!readerVars)
  BY <1>8, StreamSeeks DEF Stream!ReaderStep
<1>9. CASE Stream!Refill \/ Stream!RefillFails
  BY <1>9, StreamRefills DEF Stream!ReaderStep
<1>10. CASE Stream!TakeByte
  BY <1>10, StreamTakesByte DEF Stream!ReaderStep, Stream!Reader!Reads
<1>11. CASE Stream!TakeBytes
  BY <1>11, StreamTakesBytes
<1>12. CASE Stream!Finish
  <2>1. StreamInv' /\ \E k \in 0 .. MaxAsk : Stream!Reader!Take("read", k)
    BY <1>12, StreamFinishes
  <2>2. PICK k \in 0 .. MaxAsk : Stream!Reader!Take("read", k)
    BY <2>1
  <2>3. k \in -1 .. MaxAsk /\ k >= 0
    BY ReaderAssumption
  <2> QED BY <2>1, <2>2, <2>3 DEF Stream!ReaderStep, Stream!Reader!Reads
<1>13. CASE Stream!SkipChunk \/ Stream!ChunkFails
  BY <1>13, StreamSkipsChunk DEF Stream!ReaderStep
<1>14. CASE Stream!SkipReturn
  BY <1>14, StreamSkipReturns DEF Stream!ReaderStep
<1> QED BY <1>1, <1>2, <1>3, <1>4, <1>6, <1>7, <1>8, <1>9, <1>10, <1>11, <1>12, <1>13, <1>14
        DEF Stream!Next, Stream!Loop

\* BufferedInputStream implements ByteReader over every file whose failed reads
\* give no bytes: reading ahead, skipping in the stream below and rewinding it
\* change no byte and no position that its callers see.
THEOREM StreamImplementsReader ==
  ASSUME FailsClean
  PROVE  Stream!Spec => Stream!IsReader
<1>1. Stream!Init => Stream!Reader!Init /\ StreamInv
  BY StreamStart
<1>2. StreamInv /\ [Stream!Next]_Stream!vars => StreamInv' /\ [Stream!ReaderStep]_Stream!readerVars
  BY StreamMoves
<1> QED BY <1>1, <1>2, PTL DEF Stream!Spec, Stream!IsReader

MCStreamInv == Is("BufferedInputStream") => StreamInv

LEMMA MCStreamMoves ==
  ASSUME FailsClean, MCStreamInv, [MCNext]_MCvars
  PROVE  MCStreamInv' /\ [Is("BufferedInputStream") => Stream!ReaderStep]_Stream!readerVars
<1>1. which' = which
  BY DEF MCNext, Only, MCvars
<1>2. CASE Is("BufferedInputStream")
  <2>1. [Stream!Next]_Stream!vars
    <3>1. CASE MCNext
      BY <1>2, <3>1 DEF MCNext, Only, Is
    <3>2. CASE UNCHANGED MCvars
      BY <3>2 DEF MCvars, vars, call, stream, Stream!vars, Stream!stream, Stream!call
    <3> QED BY <3>1, <3>2
  <2>2. StreamInv' /\ [Stream!ReaderStep]_Stream!readerVars
    BY <1>2, <2>1, StreamMoves DEF MCStreamInv
  <2> QED BY <2>2 DEF MCStreamInv
<1>3. CASE ~ Is("BufferedInputStream")
  BY <1>1, <1>3 DEF MCStreamInv, Is
<1> QED BY <1>2, <1>3

\* The same of the stream that the run drives.
THEOREM StreamReads ==
  ASSUME FailsClean
  PROVE  MCSpec => StreamIsReader
<1>1. MCInit => (Is("BufferedInputStream") => Stream!Reader!Init) /\ MCStreamInv
  BY StreamStart DEF MCStreamInv, MCInit
<1>2. /\ MCStreamInv /\ [MCNext]_MCvars
      => MCStreamInv' /\ [Is("BufferedInputStream") => Stream!ReaderStep]_Stream!readerVars
  BY MCStreamMoves
<1> QED BY <1>1, <1>2, PTL DEF MCSpec, StreamIsReader
=============================================================================
