------------------------------- MODULE Table --------------------------------
(***************************************************************************)
(* A table that was built, read through Table::NewIterator                 *)
(* (src/base/io/table/table.cc, two_level_iterator.cc): an iterator over   *)
(* the index block leads to an iterator over one data block at a time.     *)
(* A call is its first part (Seek, SeekToFirst or Next) and rounds of      *)
(* SkipEmptyDataBlocksForward.  Each read of a block may fail.             *)
(***************************************************************************)
EXTENDS TableBuilder

EntryT    == [shared : Nat, delta : Seq(Nat), value : Nat \cup HandleT]
BlockT    == [entries : Seq(EntryT), restarts : Seq(Nat)]
IterT     == [block : BlockT, at : Nat, key : Seq(Nat), ok : BOOLEAN]
TwoLevelT == [index : IterT, data : IterT \cup {None}, handle : HandleT \cup {None},
              ok : BOOLEAN]

ASSUME IteratorAssumption == None \notin IterT \cup TwoLevelT

VARIABLES
  it,       \* the TwoLevelIterator, or None
  pc,       \* "idle", or "skipping" inside a call
  wanted,   \* history: the entry the call in progress asks for
  at,       \* history: where the iterator was at the end of the last call
  faulted   \* history: a block could not be read

reader == <<it, pc, wanted, at, faulted>>
vars   == <<builder, reader>>

Init ==
  /\ BuilderInit
  /\ it = None
  /\ pc = "idle"
  /\ wanted = 1 /\ at = 1
  /\ faulted = FALSE

-----------------------------------------------------------------------------
(* Reading blocks.                                                         *)

\* ReadBlock of an intact block.
BlockAt(h) ==
  (CHOOSE b \in {rep.file[i] : i \in 1..Len(rep.file)} : b.handle = h).contents

\* BlockReader: readable says whether ReadBlock gets at the block.
BlockReader(h, readable) ==
  IF readable THEN NewBlockIter(BlockAt(h)) ELSE ErrorIter

\* ApproximateOffsetOf: where the block begins that would hold the key.
ApproximateOffsetOf(key) ==
  LET i == BlockSeek(NewBlockIter(BlockAt(rep.footer.index)), key)
  IN  IF IterValid(i) THEN IterValue(i).offset ELSE rep.footer.metaindex.offset

\* InternalGet: the entry passed to the saver, or None.
InternalGet(key) ==
  LET i == BlockSeek(NewBlockIter(BlockAt(rep.footer.index)), key)
      b == BlockSeek(BlockReader(IterValue(i), TRUE), key)
  IN  IF IterValid(i) /\ IterValid(b)
      THEN [key |-> b.key, value |-> IterValue(b)] ELSE None

-----------------------------------------------------------------------------
(* TwoLevelIterator.                                                       *)

Valid(t) == t.data # None /\ IterValid(t.data)
StatusOK(t) == t.index.ok /\ (t.data = None \/ t.data.ok) /\ t.ok

\* Mutant: does not save the status of the iterator it deletes.
SetDataIteratorForget(t, d) == [t EXCEPT !.data = d]

SetDataIterator(t, d) ==
  [t EXCEPT !.ok = @ /\ (t.data = None \/ t.data.ok), !.data = d]

\* The block is read unless the iterator is on it already.
MustRead(t) ==
  IterValid(t.index) /\ (t.data = None \/ IterValue(t.index) # t.handle)

\* Mutant: remembers no handle of a block that could be read.
InitDataBlockStale(t, readable) ==
  IF ~IterValid(t.index) THEN SetDataIterator(t, None)
  ELSE IF t.data # None THEN t
  ELSE [SetDataIterator(t, BlockReader(IterValue(t.index), readable))
          EXCEPT !.handle = IterValue(t.index)]

InitDataBlock(t, readable) ==
  IF ~IterValid(t.index) THEN SetDataIterator(t, None)
  ELSE IF MustRead(t)
       THEN [SetDataIterator(t, BlockReader(IterValue(t.index), readable))
               EXCEPT !.handle = IterValue(t.index)]
  ELSE t

\* Table::Open and NewIterator, the index block being readable.
Open ==
  /\ rep.footer # None
  /\ it = None
  /\ it' = [index |-> NewBlockIter(BlockAt(rep.footer.index)), data |-> None,
            handle |-> None, ok |-> TRUE]
  /\ at' = Len(contents) + 1
  /\ UNCHANGED <<builder, pc, wanted, faulted>>

\* The first entry at or past a key.
Past(key) ==
  Least({i \in 1..Len(contents) : ~Less(contents[i].key, key)}
          \cup {Len(contents) + 1})

\* A call moves the index iterator, takes the block it leads to and moves the
\* iterator over that, which makes it next.
Begin(index, next, i, readable) ==
  /\ it' = next
  /\ faulted' = (faulted \/ (MustRead([it EXCEPT !.index = index]) /\ ~readable))
  /\ pc' = "skipping"
  /\ wanted' = i
  /\ UNCHANGED <<builder, at>>

LedBy(index, readable) == InitDataBlock([it EXCEPT !.index = index], readable)

Seek(key, readable) ==
  /\ it # None /\ pc = "idle"
  /\ LET index == BlockSeek(it.index, key)
         t     == LedBy(index, readable)
         next  == IF t.data = None THEN t
                  ELSE [t EXCEPT !.data = BlockSeek(@, key)]
     IN  Begin(index, next, Past(key), readable)

SeekToFirst(readable) ==
  /\ it # None /\ pc = "idle"
  /\ LET index == BlockSeekToFirst(it.index)
         t     == LedBy(index, readable)
         next  == IF t.data = None THEN t
                  ELSE [t EXCEPT !.data = BlockSeekToFirst(@)]
     IN  Begin(index, next, 1, readable)

\* REQUIRES: Valid()
Advance ==
  /\ it # None /\ pc = "idle"
  /\ Valid(it)
  /\ it' = [it EXCEPT !.data = BlockNext(@)]
  /\ pc' = "skipping"
  /\ wanted' = at + 1
  /\ UNCHANGED <<builder, at, faulted>>

\* Where the iterator is among the entries that were added: 0 if it shows
\* something else.
Position(t) ==
  IF ~Valid(t) THEN Len(contents) + 1
  ELSE Least({i \in 1..Len(contents) :
                contents[i] = [key |-> t.data.key, value |-> IterValue(t.data)]}
               \cup {Len(contents) + 2}) % (Len(contents) + 2)

SkipReturn ==
  /\ pc = "skipping"
  /\ Valid(it)
  /\ pc' = "idle"
  /\ at' = Position(it)
  /\ UNCHANGED <<builder, it, wanted, faulted>>

SkipEnd ==
  /\ pc = "skipping"
  /\ ~Valid(it) /\ ~IterValid(it.index)
  /\ it' = SetDataIterator(it, None)
  /\ pc' = "idle"
  /\ at' = Position(it')
  /\ UNCHANGED <<builder, wanted, faulted>>

SkipBlock(readable) ==
  /\ pc = "skipping"
  /\ ~Valid(it) /\ IterValid(it.index)
  /\ LET t == [it EXCEPT !.index = BlockNext(@)]
         u == InitDataBlock(t, readable)
     IN  /\ it' = IF u.data = None THEN u
                  ELSE [u EXCEPT !.data = BlockSeekToFirst(@)]
         /\ faulted' = (faulted \/ (MustRead(t) /\ ~readable))
  /\ UNCHANGED <<builder, pc, wanted, at>>

Skip == SkipReturn \/ SkipEnd \/ \E readable \in BOOLEAN : SkipBlock(readable)

Read ==
  \/ Open
  \/ \E readable \in BOOLEAN :
       \/ \E key \in Keys : Seek(key, readable)
       \/ SeekToFirst(readable)
  \/ Advance
  \/ Skip

Next == (Build /\ UNCHANGED reader) \/ Read

\* A call that was begun goes on; nobody is obliged to make one.
Spec == Init /\ [][Next]_vars /\ WF_vars(Skip)

-----------------------------------------------------------------------------
(* Properties.                                                             *)

Handles == {rep.file[i].handle : i \in 1..Len(rep.file)}

\* The index: of the finished table, or as far as it is built.
Index == IF rep.footer = None THEN Contents(rep.index_block)
         ELSE BlockAt(rep.footer.index)

KeysOf(block) == [i \in 1..Len(block.entries) |-> KeysFrom(block, 1)[i]]

\* The entries of the data block that index entry i leads to.
EntriesOf(i) ==
  LET b == BlockAt(Index.entries[i].value)
  IN  [j \in 1..Len(b.entries) |->
         [key |-> KeysOf(b)[j], value |-> b.entries[j].value]]

\* The index leads to blocks that were written, also when the disk became
\* full in between, and neither blocks nor trailers overlap in the file.
IndexedBlocksExist ==
  /\ \A i \in 1..Len(Index.entries) : Index.entries[i].value \in Handles
  /\ \A g, h \in Handles :
       g # h => \/ g.offset + g.size + TrailerSize <= h.offset
                \/ h.offset + h.size + TrailerSize <= g.offset

\* InternalGet finds every key that was added and ApproximateOffsetOf the
\* block it is in; for another key InternalGet passes on the next entry or none.
LookupsAgree ==
  rep.footer # None =>
    \A key \in Keys :
      LET i == Past(key)
          e == IF i > Len(contents) THEN None ELSE contents[i]
      IN  /\ InternalGet(key) \in {e, None}
          /\ e # None /\ e.key = key =>
               /\ InternalGet(key) = e
               /\ \E j \in 1..Len(Index.entries) :
                    /\ Index.entries[j].value.offset = ApproximateOffsetOf(key)
                    /\ \E k \in 1..Len(EntriesOf(j)) : EntriesOf(j)[k] = e

\* The iterator implements what Iterator promises.  In particular its status is
\* an error only if a block could not be read: no restart point and no entry of
\* a block the builder wrote is taken for corrupt.
Iterator ==
  INSTANCE SortedIterator
    WITH open   <- it # None,
         source <- IF it = None THEN <<>>
                   ELSE [i \in 1..Len(contents) |-> contents[i].key],
         busy   <- pc = "skipping",
         failed <- it # None /\ ~StatusOK(it)
ImplementsIterator == Iterator!Spec

=============================================================================
