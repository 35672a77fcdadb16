-------------------------------- MODULE Codecs --------------------------------
(***************************************************************************)
(* The codecs: varints (src/base/coding.cc), and the keys and entries that *)
(* BinLogger writes (src/storage/bin_logger.cc:172-251).  A byte is a      *)
(* number, and one that says that more follow is kMore or greater; texts   *)
(* and fixed-width numbers within an entry are one item each.              *)
(***************************************************************************)
EXTENDS Integers, Sequences, SequencesExt

CONSTANTS
  kMore,        \* 128 in the source: a byte holds a number below it
  kVarintBytes, \* kMaxVarint32Bytes, 5
  kRange,       \* 2^32: a result is taken modulo it
  kDigit,       \* digits of a key: 16
  kDigits,      \* digits of a key, two for each byte of an index: 16
  Texts,        \* texts in an entry, sequences
  MaxEncoded      \* bound: bytes that are decoded

CodecsAssumption ==
  /\ {kMore, kVarintBytes, kDigit, kDigits} \subseteq Nat \ {0, 1}
  /\ kRange \in 1 .. kMore ^ kVarintBytes /\ kMore ^ (kVarintBytes - 1) < kRange

VARIABLE reply  \* the last call and what it gave

vars == <<reply>>

-----------------------------------------------------------------------------
(* Varints.                                                                *)

\* EncodeVarint32, and EncodeVarint64 of the same number.
EncodeVarint(v) ==
  LET bytes[n \in 0 .. v] ==
        IF n < kMore THEN <<n>> ELSE <<(n % kMore) + kMore>> \o bytes[n \div kMore]
  IN  bytes[v]

VarintLength(v) == CHOOSE len \in 1 .. v + 1 :
                     v < kMore ^ len /\ (len > 1 => v >= kMore ^ (len - 1))

Failure == [ok |-> FALSE]

\* The number of bytes up to one that says that no more follow, 0 if there is
\* none among the first ones.
BytesUsed(p) ==
  LET ends == {i \in 1 .. Len(p) : i <= kVarintBytes /\ p[i] < kMore}
  IN  IF ends = {} THEN 0 ELSE CHOOSE i \in ends : \A j \in ends : i <= j

\* Mutant: the next byte is shifted as far as the one before it needs bits.
PlaceOverlapping(i) == (kMore * 2) ^ (i - 1)

\* What a number in the i-th byte counts.
Place(i) == kMore ^ (i - 1)

\* GetVarint32, with what is left of the input.
GetVarint(p) ==
  LET n == BytesUsed(p)
      places == [i \in 1 .. n |-> (p[i] % kMore) * Place(i)]
  IN  IF n = 0 THEN Failure
      ELSE [ok |-> TRUE, value |-> FoldSeq(+, 0, places) % kRange,
            rest |-> SubSeq(p, n + 1, Len(p))]

-----------------------------------------------------------------------------
(* Keys and entries of the log.                                            *)

\* Mutant: the digits are filled in from the left.
DigitPlaceReversed(i) == kDigit ^ (i - 1)

\* What a digit at the i-th place counts.
DigitPlace(i) == kDigit ^ (kDigits - i)

\* An index that is not positive leaves every digit 0.
IndexToKey(index) ==
  [i \in 1 .. kDigits |-> IF index <= 0 THEN 0 ELSE (index \div DigitPlace(i)) % kDigit]

\* HexDecode and the shifts after it.
KeyToIndex(key) == FoldLeft(LAMBDA index, digit : index * kDigit + digit, 0, key)

LogEntryToString(e) ==
  <<e.log_operation>>
    \o <<Len(e.user)>>  \o e.user
    \o <<Len(e.key)>>   \o e.key
    \o <<Len(e.value)>> \o e.value
    \o <<e.term>>

\* Mutant: the length of a text is not skipped with it.
AfterLengthOnly(buf) == Tail(buf)

\* What follows a text, which is behind its length.
After(buf) == SubSeq(buf, Head(buf) + 2, Len(buf))

TextAt(buf) == SubSeq(buf, 2, Head(buf) + 1)

StringToLogEntry(buf) ==
  LET user == Tail(buf)
      key  == After(user)
  IN  [log_operation |-> Head(buf),
       user |-> TextAt(user), key |-> TextAt(key), value |-> TextAt(After(key)),
       term |-> Head(After(After(key)))]

-----------------------------------------------------------------------------
Numbers == 0 .. kRange - 1
Indexes == 0 .. kDigit ^ kDigits \div 2 - 1   \* of a signed number
Inputs  == BoundedSeq(0 .. 2 * kMore - 1, MaxEncoded)
Entries == [log_operation : {0, 1}, user : Texts, key : Texts, value : Texts, term : {0, 1}]

Reply(o, in, out) == reply' = [op |-> o, in |-> in, out |-> out]

Init == reply = [op |-> "none", out |-> <<>>]

\* No call leaves anything for the next: a behaviour is one call.
Next ==
  /\ reply.op = "none"
  /\ \/ \E v \in Numbers : Reply("put", v, EncodeVarint(v))
     \/ \E p \in Inputs : Reply("get", p, GetVarint(p))
     \/ \E index \in Indexes \cup {- index : index \in Indexes} :
          Reply("key", index, IndexToKey(index))
     \/ \E e \in Entries : Reply("entry", e, LogEntryToString(e))

Spec == Init /\ [][Next]_vars

-----------------------------------------------------------------------------
(* Property.                                                               *)

\* The first difference decides.
Before(k, l) == \E i \in 1 .. kDigits :
                  k[i] < l[i] /\ \A j \in 1 .. i - 1 : k[j] = l[j]

\* What was encoded is decoded, with what follows it untouched, and no less of it
\* is; what is decoded is the encoding or a longer one of its value, but for the
\* bits that a last byte has too many; keys are in the order of the indexes, which
\* is what finds the last entry of the log; and entries come back as they were.
CodecsAgree ==
  CASE reply.op = "put" ->
         /\ Len(reply.out) = VarintLength(reply.in) /\ Len(reply.out) <= kVarintBytes
         /\ \A tail \in {<<>>, reply.out} :
              GetVarint(reply.out \o tail) = [ok |-> TRUE, value |-> reply.in, rest |-> tail]
         /\ ~ GetVarint(Front(reply.out)).ok
    [] reply.op = "get" /\ reply.out.ok ->
         Len(EncodeVarint(reply.out.value)) <= Len(reply.in) - Len(reply.out.rest)
    [] reply.op = "key" /\ reply.in >= 0 ->
         /\ KeyToIndex(reply.out) = reply.in
         /\ \A index \in Indexes : index < reply.in <=> Before(IndexToKey(index), reply.out)
    [] reply.op = "entry" -> StringToLogEntry(reply.out) = reply.in
    [] OTHER -> TRUE
=============================================================================
