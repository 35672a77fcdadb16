------------------------------- MODULE Block --------------------------------
(***************************************************************************)
(* One block of a table (src/base/io/table/block_builder.cc, block.cc):    *)
(* the builder that compresses keys against their predecessors, and the    *)
(* iterator that finds them again, as operators on records.                *)
(*                                                                         *)
(* Offsets inside a block are entry numbers: a restart point is the number *)
(* of entries before it.  restart_index_ of the iterator, which is         *)
(* computed and never read, is left out.                                   *)
(***************************************************************************)
EXTENDS ByteKeys

-----------------------------------------------------------------------------
(* BlockBuilder.                                                           *)

\* Bytes of a number below 2^35 in base 128.
Varint(n) == 1 + Cardinality({k \in 1..4 : n >= 128 ^ k})

EmptyBuilder ==
  [entries |-> <<>>, restarts |-> <<0>>, counter |-> 0, last_key |-> <<>>,
   bytes |-> 0]

\* CurrentSizeEstimate: exactly what Finish returns the size of.
BlockSize(b) == b.bytes + 4 * (Len(b.restarts) + 1)

\* Mutant: notes a restart point and compresses the key all the same.
BlockAddShared(b, key, value, size, interval) ==
  LET full   == b.counter >= interval
      shared == Shared(b.last_key, key)
  IN  [entries  |-> Append(b.entries,
                           [shared |-> shared,
                            delta  |-> SubSeq(key, shared + 1, Len(key)),
                            value  |-> value]),
       restarts |-> IF full THEN Append(b.restarts, Len(b.entries))
                    ELSE b.restarts,
       counter  |-> (IF full THEN 0 ELSE b.counter) + 1,
       last_key |-> key,
       bytes    |-> b.bytes + Varint(shared) + Varint(Len(key) - shared)
                      + Varint(size) + Len(key) - shared + size]

\* BlockBuilder::Add of a value of size bytes.
BlockAdd(b, key, value, size, interval) ==
  LET full   == b.counter >= interval
      shared == IF full THEN 0 ELSE Shared(b.last_key, key)
  IN  [entries  |-> Append(b.entries,
                           [shared |-> shared,
                            delta  |-> SubSeq(key, shared + 1, Len(key)),
                            value  |-> value]),
       restarts |-> IF full THEN Append(b.restarts, Len(b.entries))
                    ELSE b.restarts,
       counter  |-> (IF full THEN 0 ELSE b.counter) + 1,
       last_key |-> key,
       bytes    |-> b.bytes + Varint(shared) + Varint(Len(key) - shared)
                      + Varint(size) + Len(key) - shared + size]

\* What Finish leaves in the buffer.
Contents(b) == [entries |-> b.entries, restarts |-> b.restarts]

-----------------------------------------------------------------------------
(* Block::Iter.                                                            *)

\* A new iterator is past the last entry.
NewBlockIter(block) ==
  [block |-> block, at |-> Len(block.entries) + 1, key |-> <<>>, ok |-> TRUE]

\* NewErrorIterator: never valid, with a status that is not OK.
ErrorIter ==
  [NewBlockIter(Contents(EmptyBuilder)) EXCEPT !.ok = FALSE]

End(it)       == Len(it.block.entries) + 1
IterValid(it) == it.at < End(it)
IterValue(it) == it.block.entries[it.at].value

Corrupt(it) == [it EXCEPT !.at = End(it), !.key = <<>>, !.ok = FALSE]

\* The key of an entry, given the key before it: what is shared is kept.
Sharable(key, e) == e.shared <= Len(key)
NextKey(key, e)  == IF Sharable(key, e)
                    THEN SubSeq(key, 1, e.shared) \o e.delta ELSE <<>>

\* ParseNextKey, when entry i is the next one.
ParseEntry(it, i) ==
  IF i >= End(it) THEN [it EXCEPT !.at = End(it)]
  ELSE LET e == it.block.entries[i]
       IN  IF Sharable(it.key, e)
           THEN [it EXCEPT !.at = i, !.key = NextKey(it.key, e)]
           ELSE Corrupt(it)

BlockNext(it) == ParseEntry(it, it.at + 1)

BlockSeekToFirst(it) ==
  ParseEntry([it EXCEPT !.key = <<>>], it.block.restarts[1] + 1)

\* One round of the binary search of Seek; a restart point that holds no whole
\* key ends it.
NoRestart == [left |-> -1, right |-> -1]
Narrow(block, target, w) ==
  LET mid == (w.left + w.right + 1) \div 2
      i   == block.restarts[mid + 1] + 1
  IN  IF w.left >= w.right THEN w
      ELSE IF i > Len(block.entries) \/ block.entries[i].shared # 0 THEN NoRestart
      ELSE IF Less(block.entries[i].delta, target) THEN [w EXCEPT !.left = mid]
      ELSE [w EXCEPT !.right = mid - 1]

\* The last restart point whose key is below the target, 0 if there is none; -1
\* if a restart point holds no whole key.
RestartBefore(block, target) ==
  LET n == Len(block.restarts)
      search[k \in 0 .. n] == IF k = 0 THEN [left |-> 0, right |-> n - 1]
                              ELSE Narrow(block, target, search[k - 1])
  IN  search[n].left

\* The keys that ParseNextKey reconstructs from entry first on.
KeysFrom(block, first) ==
  LET key[i \in first - 1 .. Len(block.entries)] ==
        IF i < first THEN <<>> ELSE NextKey(key[i - 1], block.entries[i])
  IN  key

\* Seek: from that restart point on, the first entry at or past the target.
BlockSeek(it, target) ==
  LET r     == RestartBefore(it.block, target)
      first == it.block.restarts[r + 1] + 1
      key   == KeysFrom(it.block, first)
      good(i) == Sharable(key[i - 1], it.block.entries[i])
      stops == {i \in first .. End(it) - 1 : good(i) => ~Less(key[i], target)}
      i     == Least(stops)
  IN  IF r < 0 THEN Corrupt(it)
      ELSE IF stops = {}
           THEN [it EXCEPT !.at = End(it), !.key = key[End(it) - 1]]
      ELSE IF good(i) THEN [it EXCEPT !.at = i, !.key = key[i]]
      ELSE Corrupt(it)

=============================================================================
