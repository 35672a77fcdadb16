# A verification project for mpr_chubby

`src/src` is the beginning of a Chubby-like coordination service in C++: a
utility library (`base/`, much of it taken over from TensorFlow, leveldb and
Chromium), a storage layer (`storage/`) on leveldb, and message definitions for
the service (`proto/`). No server exists yet: `server/` holds flags and an empty
user manager, and no code runs an election. What can be verified is the machinery
the service will stand on, and that is what this project models: threads and
their synchronisation, shared ownership, metrics, the persistent log and the other
stores, the streams that read and write their files, directories, the sorted
tables, the containers, and the utilities whose arithmetic is easy to get wrong.

Every module is a translation of the source. `PROJECT.json` gives, for each
definition, the lines it stands for. Paths below are relative to `src/src`.

## 1. The system

### Components that are modelled

| component | state | operations | how it meets the others |
|---|---|---|---|
| thread pool (`base/thread/simple_thread_pool.h`, `base/threadpool.cc`) | `waiters_` (stack of idle workers), `pending_` (queue), `exiting_`, `mu_`, `empty_`, per worker `ready`, `cv`, `task` | constructor, `Schedule`, `WorkerLoop`, destructor | `ThreadPool` hands closures to it; `DeviceThreadPool` schedules ranges in it |
| ParallelFor (`base/thread/device_thread_pool.h`, `cost_model.h`) | block size and count, the `Barrier` (`state_`, `notified_`, `mu_`, `cv_`), closures that refer to the caller's frame | sizing, `HandleRange`, `Notify`, `Wait` | called by `ThreadPool::ParallelFor`, runs in the pool |
| notification (`base/notification.h`) | `notified_`, `mu_`, `cv_` | `Notify`, `HasBeenNotified`, both waits | used between any threads |
| reference counting (`base/ref_counted.h`) | `ref_`, the pointers that refer to an object | `Ref`, `Unref`, copy, move, assignment and destruction of `scoped_refptr` | shared objects of any component |
| binary log (`storage/bin_logger.cc`) | in leveldb: entries by index and the length; in memory: `length_`, `last_log_term_`, `mu_` | constructor, `AppendEntry`, `AppendEntryList`, `Truncate`, `ReadSlot`, `RemoveSlot` | the log of a consensus module; leveldb below |
| database (`storage/database.cc`) | `db_map_` under `mu_`; per iterator the instance and snapshot it reads | constructor, destructor, `Open`, `Close`, `Put`, `Delete`, `NewIterator`; `Seek` and `Next` of an iterator, without the lock | leveldb below; the store of a server's users |
| meta file (`storage/meta_file.cc`) | bytes in the stdio buffer and in the file, the position of the reader | `WriteLine`, `ReadLine`, `ReadLastLine` | reads with an `InputBuffer` |
| buffered readers (`base/io/inputbuffer.cc`, `buffered_inputstream.cc`, `random_inputstream.cc`, `inputstream_interface.cc`) | a buffer, the position in it, the position in the file | `ReadLine`, `ReadLineAsString`, `ReadNBytes`, `SkipNBytes`, `Seek`, `Tell`, `Reset` | `MetaFile` reads its lines with `InputBuffer` |
| zlib streams (`base/io/zlib_inputstream.cc`, `zlib_outputbuffer.cc`) | two buffers each, `next_in`, `avail_in`, `avail_out`, the next unread byte; inside zlib what it has taken and not given yet | `ReadNBytes`, `SkipNBytes`, `Tell`, `Reset`; `Append`, `Flush`, `Sync`, `Close` | read any input stream, write a `WritableFile` |
| directories (`base/platform/file_system.cc`) | the queue and the list of `DeleteDirectoryRecursively`, the path and the parts to make of `CreateDirectoryRecursively` | both, call by call | the operating system and other processes below |
| event metrics (`base/monitoring/`) | `values_` of two counters per metric, its `mutex_`, the set of the registry, what an export has read | `RecordEvent`, `GetMetrics`, `CurrentValues` | recorded by any thread, read by the exporter |
| `TopN` (`base/gtl/top_n.h`) | `elements_`, `limit_`, `state_` | `push`, `peek_bottom`, the extractions, `Reset` | |
| `InlinedVector` (`base/gtl/inlined_vector.h`) | inline or allocated slots, raw, live or moved from, and the size | construction, growth, append, insert, erase, resize, copy, swap | |
| `Arena` (`base/arena.cc`) | the blocks it has, the free space of the latest | `Alloc`, `Reset`, destructor | |
| `Histogram` (`base/histogram.cc`) | bucket counts, least and greatest value | `Add`, `Clear`, `Percentile` | |
| `WeightedPicker`, `DistributionSampler` (`base/random/`) | a tree of sums; tables of probabilities and alternatives | `set_weight`, `SetAllWeights`, `SetWeightsFromArray`, `Append`, `Resize`, `PickAt`; construction and `Sample` | |
| `Bitmap`, `LevenshteinDistance`, varints and the codecs of the log (`base/bitmap.cc`, `base/gtl/edit_distance.h`, `base/coding.cc`, `storage/bin_logger.cc:172-251`) | the bits; else none | `Reset`, `set`, `clear`, `FirstUnset`; functions | the log writes keys and entries with its codecs |
| sorted tables (`base/io/table/`) | `TableBuilder::Rep` (file offset, status, the data and the index block being built, the last key, the pending index entry); of a reader the index iterator, the iterator over one data block with its handle, the saved status | `Add`, `Flush`, `Finish`, `Abandon`; `Open`, `NewIterator` with `Seek`, `SeekToFirst`, `Next`, `InternalGet`, `ApproximateOffsetOf` | writes through a `WritableFile`, reads through a `RandomAccessFile` |

What makes them hard, and what makes them correct:

* **Thread pool.** Two kinds of waits (idle workers, and the destructor on
  `empty_`), hand-over through an object on the worker's stack, closures that
  schedule closures while the pool is being destroyed. Correct: no closure is
  lost, run twice or left in the queue beside an idle worker, and the destructor
  returns when all of them have returned.
* **ParallelFor.** Integer arithmetic decides how many notifications the barrier
  expects, and lock-free steps decide who wakes the caller, whose frame holds
  everything the closures use. Correct: every index once, nobody uses the frame
  after the return, and the caller returns.
* **Notification.** A waiter may destroy the object as soon as it learnt of the
  event; a deadline may pass at the moment of the event. Correct: no lost
  wakeup, no wrong answer, nobody inside the object when a waiter has returned.
* **Reference counting.** A shortcut in `Unref` reads the count and skips the
  decrement when it was 1. Correct: one deletion, by the last owner, never early
  and never left out.
* **Binary log.** The process may end, or the machine lose power, between any
  two database operations; `ReadSlot` and `RemoveSlot` do not lock. Correct: the
  database is always one complete log and the members report it.
* **Readers.** Two positions and a buffer must agree through short reads, the
  end of a file that grows later, seeks and errors. Correct: each call does what
  it would do on the bare file.
* **Database.** Iterators are used without the lock and die with their instance, not
  with their name. Correct: an iterator ends only by a close of its own name.
* **Zlib streams.** zlib takes and gives any amounts, keeps some back, and the file
  may fail or end anywhere; a large piece is deflated where the caller has it. Correct: nothing is lost
  or repeated, a flush puts all of it on the file, a read is one of the plain text,
  and no loop runs for ever.
* **Directories.** Other processes create and delete meanwhile, and a call in the
  middle may fail. Correct: success means that all is gone, and of two that create
  the same path one succeeds.
* **Event metrics.** Sum and count are separate counters. Correct: an export is not
  older than its beginning.
* **Containers.** A heap with a slot beside it; memory that is raw, live or moved from.
  Correct: they answer as a sorted list and a sequence do, and no slot is used dead.
* **Arena, Histogram, WeightedPicker and the functions.** Boundaries: the last byte of a
  block, an empty bucket, a leaf that no longer has an element, the bits behind the last. Correct: they
  compute what a plain definition says, after any calls (the edit distance does not, section 5).
* **Sorted tables.** The index entry of a block is written only when the next key
  is known, under a key shortened between the two; keys are stored as
  differences, and seeks search restart points; the disk may become full after
  any block; a block may turn out unreadable in the middle of a call. Correct:
  the index leads to every entry and to nothing that was not written, lookups and
  the iterator agree with the entries that were added, and an iterator skips
  something only if its status says so.

### Not modelled

The map covers the components above. Most of the repository's lines are elsewhere:
generated code (`proto/*.pb.*`, `metrics.pb.*`: 30000 lines), copies of other projects
(`base/http`, `base/media`, `base/ini`), unit tests, and text and number utilities.

* **Meta and server** (`storage/meta.cc`, `server/`): declarations. Nothing to model.
* **RPC messages** (`proto/`): definitions and generated code; nothing serves them.
* **The other encodings** (`raw_coding.h`, `string_encode.cc`, `strings/base64.cc`,
  `strings/numbers.cc`): byte tables and library calls. `InputBuffer::ReadVarint32` is
  left out of `InputBuffer`; what it decodes is in `Codecs`.
* **Random generators and hashes** (`base/random/`, `base/hash/`): bit-level arithmetic with published
  test vectors.
* **Strings, paths, status, logging**: formatting and values, no state.
* **The rest of the platform** (`base/platform/`): single system calls. What files do when they fail is
  part of the models of the components that use them. Symbolic links are left out.
* **Registration of metrics** (`base/monitoring/metric.h:74`): a call through a vtable
  under construction has no outcome to enumerate. Gauges, `Latency` and the text of
  the export add nothing to the counters.
* **Encryptor, http_parser, ini, the programs under `media/` and `libevent/`**: calls
  of other libraries or copies of other projects. `base/sql` holds empty files.

## 2. Modules

| module | role |
|---|---|
| `TaskExecutor` | abstract: closures are submitted, started once, finish; closed when all have that were submitted before it began to close |
| `ThreadPool` | the pool; implements `TaskExecutor` (`ImplementsExecutor`) |
| `BlockSizing` | the first half of `DeviceThreadPool::ParallelFor`: how large the blocks are |
| `ParallelFor` | the second half: `HandleRange` and `Barrier` over a pool seen as `TaskExecutor` describes it |
| `Notification`, `RefCounted` | the two synchronisation classes |
| `ReplicatedLog` | abstract: one sequence, extended, cut, with entries discarded, taken back by a power loss |
| `BinLogger` | the log on leveldb; implements `ReplicatedLog` (`ImplementsLog`) |
| `Database` | named leveldb instances and the iterators over them |
| `MetaFile` | a file of lines, over `ByteReader` |
| `FileSystem` | the two recursive operations on directories, against each other |
| `ByteReader` | abstract: one position in a growing file |
| `ReaderParameters` | constants of the two readers |
| `InputBuffer`, `BufferedStream` | the readers; both implement `ByteReader` |
| `InflateStream` | reading compressed text; implements `ByteReader` on the text |
| `DeflateBuffer` | writing compressed text |
| `Monitoring` | event metrics and their export |
| `TopN`, `InlinedVector` | the containers |
| `Arena`, `Histogram`, `WeightedPicker`, `DistributionSampler` | utilities with state, and what they answer |
| `Bitmap`, `EditDistance`, `Codecs` | functions against their definitions |
| `ByteKeys` | the order of keys, and what two of them share |
| `Block` | `BlockBuilder` and `Block::Iter`, as operators on records |
| `TableBuilder` | building a table on a disk that may become full |
| `SortedIterator` | abstract: one position among sorted keys, and a status |
| `Table` | reading it; implements `SortedIterator` (`ImplementsIterator`) |
| `MCTable`, `MCBinLogger` | values of constants for TLC |
| `MCThreads` | `ThreadPool`, `RefCounted`, `ParallelFor`, `Notification` or `Monitoring`, one of them in each behaviour |
| `MCStorage` | `BinLogger`, `Database` or `FileSystem` |
| `MCSequential` | `InputBuffer`, `BufferedStream`, `InflateStream`, `DeflateBuffer`, `BlockSizing`, `TopN`, `InlinedVector` or one of the utilities |
| `ThreadPoolProofs`, `ParallelForProofs`, `TableProofs` | theorems on one component |
| `ThreadsProofs`, `StorageProofs`, `SequentialProofs`, `ReaderProofs`, `UtilityProofs` | theorems on the specifications of the runs `threads`, `storage` and `sequential`, component by component |

Next to each definition of code that a mutation is tried on stands the mutated
form, marked as such and used by nothing: it documents which slip each property
would catch.

### How state and actions correspond to the code

**ThreadPool.** One action is one critical section of `mu_`: `Schedule`
(`ClientSchedule` by a thread that owns the pool, `TaskSchedule` by a running
closure), one round of `WorkerLoop` up to the next wait or unlock (`Enter`, which
is `ExitLoop`, `GoIdle` or `TakePending`), the return of `cv.wait` (`Wake`), the end
of a closure (`Return`), the destructor up to and after its wait (`DtorEnter`,
`DtorWake`, sharing `Shutdown`) and its joins (`DtorJoin`). `ready`, `slot` and
`signalled` are the fields of the worker's `Waiter`. `waiters_` keeps its contents
at shutdown as in the code, so a late `Schedule` can pick the `Waiter` of a thread
that has ended; the write to it is recorded in `dangling`. A wake-up with
`ready` unset goes straight back to the wait and is no step.

**BlockSizing.** `FirstSize` is the code before the loop, `Coarsen` one round of it,
`StopCoarsening` its exit, `Inline` the shortcut for little work. Costs are whole
cycles, as `ThreadPool::ParallelFor` passes them. The code computes in `double`;
the model keeps the quotients exact: the number of threads in tenths, efficiencies
as fractions compared crosswise. `block_align` is a rounding up to a multiple, or
`Null`, a function object that holds none.

**ParallelFor.** A thread is a stack of frames, since the body of a call may call
`ParallelFor` again; a frame is in `HandleRange` (`range`, `lower`, `body`), in
`Barrier::Notify` (`notify`, `signal`) or, in the caller, in `Barrier::Wait` (`wait`,
`check`, `asleep`). Each atomic operation is an action, `fetch_sub(2)` with the test
of its own result, and so is each critical section of the barrier's mutex.
`Return` destroys the frame. A wait that returns without notification tests
`notified_` again and waits again; it changes nothing and is left out.

**Notification.** Each member function is one critical section, cut at the waits;
`Notify` has a second step, `Unlock`, because it uses the object after it has set
`notified_`. Deadlines (`Timeout`) and spurious wake-ups (`Spurious`) are actions. A
second `Notify` fails its assertion and ends the program.

**RefCounted.** A load, addition, subtraction or store of `ref_` is one action
(`Add`, `Test`, `Sub`, `Zero`), and `Delete` is the destructor. Handles are
`scoped_refptr`s: each is used by one thread at a time; `Copy` goes through `Ref`,
`Drop` through `Unref`, `Move` passes the pointer on, also to another thread.
An assignment is a copy or a move and a drop.

**BinLogger.** `slots` and `lengthTag` are the database; `onDisk` is what the
operating system has written back of it. Methods that hold `mu_` are two actions,
the database write and the update of the members (`WriteBatch`/`AppendReturn`,
`Truncate`/`TruncateReturn`); `RemoveSlot` is two actions without the lock. `Open`
is the constructor with its assertion, `Die` the end of the process anywhere.
The logger writes with `WriteOptions()` (no sync), so `LosePower` takes the database
back to `onDisk`, and `WriteBack` may happen at any time. `Key` keeps the quirk of
`IndexToKey` that a negative index has the key of slot 0. Entries are a term and an
identity; the codecs are taken to be injective, which `Codecs` checks.

**InputBuffer, BufferedStream.** One round of a reading loop is one action:
`Refill` (one read of the file), `TakeByte` (a byte of a line), `TakeBytes`,
`SkipChunk`; `RefillFails` and `ChunkFails` are the same when the device fails; `Finish` and `Reply` are the return. A read of the file gives all that
was asked for, or what there is with `OutOfRange`, or a part with an error, as
`LinuxRandomAccessFile::Read` does (`base/platform/linux/linux_file_system.cc:33-53`).
`Grow` appends to the file between two calls. `ask` and `reply` are history: the call
in progress with its argument and the position at which it began, and the last
call with its answer; the refinement compares them with those of `ByteReader`.
With `FailsClean` a failing read gives no bytes (see the finding below);
`InputBuffer` is checked with failures after any number of bytes.

**InflateStream.** The file is a sequence of zlib's own bytes: `Sources` holds what a
writer may have left, whole, cut short, damaged, with bytes behind the end, with or
without a trailer (`Raw`). A byte gives one of `Bursts` bytes of text, of which zlib
keeps what it has no room for (`Inflate`). `Begin` is the part of `ReadNBytes` before its loop, `Round` one
round of it with `ReadFromStream`, `SkipNBytes` reads and throws away as its base class
does. The refinement compares each call with the same call on the bare text; what comes
after an end that is missing or damaged is an error, after any part of the text.

**DeflateBuffer.** Bytes are numbered as they are appended. `AppendPiece` is `Append`
up to its first call of `deflate`; `Round` is one round of a loop over `deflate` and a write,
in the buffer (`DeflateBuffered`) or in the caller's data; `Buffered`, `Restored` and
`Written` are what follows. `deflate` takes any amount and keeps any part of it back
(`Deflated`), or all of it with a mark when it flushes (`Completed`). Every write and the
sync may fail (`RoundFails`, `NotWritten`), and calls go on after that. Not modelled: `Init` called again, calls after
`Close`, a write that fails after some bytes.

**Database.** Each method is one action of any thread; an instance is a number.
`Directory` is where `JoinPath` puts a name, and names are assumed to have one each. leveldb may
fail to open one, which the assertion at `storage/database.cc:169` turns into the end of the process
(`Abort`), as it may come at any time. An iterator holds its instance and the entries it was made over.

**MetaFile.** stdio passes on any part of what it holds (`WriteLine`). The reader is
the one `InputBuffer` was shown to implement.

**FileSystem.** The tree is a function on paths. `Scan`, `Visit` and `DeleteNext` are the
rounds of the three loops of `DeleteDirectoryRecursively`; `Look` and `Make` those of
`CreateDirectoryRecursively`. Each step makes the system calls of one round; one of all
may fail although it need not (`Fail`). `there`, `gone` and `phase` are history.

**Monitoring.** `RecordEvent` and `CountEvent` are the two critical sections of the
counters inside the one of the metric, which the exporter does not take. `begun` and
`finished` count events; `floor` is what had finished when an export began.

**TopN.** The heap is kept as a sorted sequence, one of the orders a heap may have;
what is extracted unsorted is compared as a set. A displaced element may be moved
from (`PushInternal` with `dropped`), which leaves `MovedFrom` in the slot.

**InlinedVector.** A slot is raw, live, or moved from, and a step that reads, assigns to
or destroys a slot that is raw, or constructs in one that is not, gives `Broken`.
`emplace_back` may be given an element of the vector itself, as the comment
at `base/gtl/inlined_vector.h:413` allows; `insert` and `resize` may not: they move the
elements before they read their argument (`:560`), and no caller does it.

**Arena.** `Alloc` has a disjunct for each way through `GetMemory` and its fallback: the free
space, its last bytes, a new block, a block of its own. `malloc` gives the first free block. Alignment
is left out: `Alloc` asks for none, and what `malloc` gives has the one `Reset` wants.

**Histogram.** Values lie below the last custom limit. Percentiles are exact fractions, compared
crosswise with the value that stands at that rank among those added (`added` is history).

**WeightedPicker.** `level_` is the tree as in the code, root first, and stays as large as it was when
elements are dropped. `Accepted` are the random numbers that `UnbiasedUniform` does not draw again, of
`kRandomBits` bits; so `PicksByWeight` counts which numbers lead to which element.

**DistributionSampler.** `Pair` is one round of the loop. Probabilities are parts of the sum of all
weights, hence exact: the comment on rounding errors (`base/random/distribution_sampler.cc:63`) is out of scope.

**Bitmap, EditDistance, Codecs.** Words, bytes, digits and lengths are smaller than in the code, by
constants (`kBits`, `kMore`, `kRange`, `kDigits`), with the same proportions: the last byte of a varint has more
bits than the number has left. Edit distances are compared with the edits themselves, made one after the other. `Scratch` are the two
work vectors of `LevenshteinDistance` before its loop; a round makes `current` the row above and writes
over the other, the first round too. So the numbers that `std::iota` puts in one vector are never read, and the row above
the first is all zeroes. `DistanceIsLeast` is what the comment in front of the function promises, and fails (see
section 5); `DistanceIsOfAnEnd` is what the rows come to: the least number of edits between the longer
sequence and an end of the shorter one, which is the distance only for equal and for empty sequences and by chance.

**Tables.** A block is a sequence of entries that keep what they share with the
key before them; a place in it is the number of an entry, and a value is
its length. Sizes and offsets in the file are those of the code, down to the
varints, because they decide when a block is written and what a handle says.
`room` is how many writes (a block with its trailer, or the footer) succeed
before the disk is full. Each operation of the builder is one action. A call of
the iterator is its first part (`Seek`, `SeekToFirst`, `Advance`) and one action per
round of `SkipEmptyDataBlocksForward` (`SkipBlock`, ended by `SkipReturn` or `SkipEnd`);
at each read of a block `readable` is chosen. `contents`, `wanted`, `at` and `faulted` are
history. Left out: compression and checksums (a damaged block is one that
cannot be read), `restart_index_` of `Block::Iter` (computed and never read), and an `Open`
that fails, which only reports its error. The block cache is commented out in the source.

## 3. Runs

| run | instance | what it asks |
|---|---|---|
| `threads` | thread pool: 3 workers, 3 closures, running closures may schedule at any time, also during destruction. Reference counts: 3 threads, 4 handles. ParallelFor: 2 workers, one call from outside, two nested in its body, loops of one, two and three blocks. Notification: 1 notifier, 2 waiters, 2 with a timeout, 1 poller. Metrics: 2 threads, 2 labels, 2 events of each | `ImplementsExecutor` (with fairness: every closure that is not late is started and ends), `WorkConserving`, `WaitersDistinct`, `OnlyLateIsLost`, `DtorTerminates`; `SafeDeletion`, `ChecksHold`, `NoLeak`; `FrameOutlivesUse`, `BarrierAssertions`, `EachIndexOnce`, `StuckOnlyIfAllWait`; `SafeToDestroy`, `TruthfulAnswers`, `AllReturn`; `ExportIsCurrent` |
| `storage` | binary log: 2 callers, 3 entries of 2 terms, 4 slots, batches of up to 2, 2 discardable slots, process crashes and power losses. Database: 2 names, 2 keys, 1 iterator, 3 instances. Directories: any tree of depth 3, 1 deletion, 2 creators, 1 failing call | `ImplementsLog`, `ReportsTheDatabase`, `NoGap`, `NeverAborts`; `IteratorsOutliveOthers`; `DeletesAll`, `OneCreates` |
| `table` | 5 keys of up to 2 bytes, values of length 1 or 42, tables of up to 4 entries, two choices of block size and restart interval, a disk full after 1, 4 or 7 writes, any block unreadable at any time | `IndexedBlocksExist`, `LookupsAgree`, `ImplementsIterator` |
| `sequential` | readers: buffer of 2, file of up to 3 bytes of 3 kinds, requests of -1..3, seeks to -1..4. Zlib: buffers of 2, sources of 2 bytes with a trailer, pieces of up to 3 of 5 bytes. Sizing: lengths 0..40, 12 costs, 1..8 threads, alignments 1, 3, 4 and none. `TopN`: 3 elements, limits 0..2, 4 pushes. `InlinedVector`: 2 vectors, 1 inline slot, up to 4 elements. `Arena`: blocks of 12 bytes, 2 first blocks, 5 pieces. `Histogram`: 4 limits, 4 of 5 values. `WeightedPicker`, `DistributionSampler`: 4 elements, weights 0..2, 4 random bits. `Bitmap`: 7 bits in words of 3. Words of up to 3 letters; varints of 5 bits in bytes of 2, inputs of up to 4 bytes; keys of 3 digits | `WindowIsFile`, `BufferIsReader`; `StreamIsReader`; `InflateIsReader`; `NothingLost`, `FlushedIsOnFile`; `CountMatchesSize`, `SharesTheWork`; `TopNAnswers`; `MemoryHolds`; `PercentilesOrdered`; `DrawnByWeight`; `AgreesWithDefinition`; of all loops `LoopsEnd` |
| `sizing_no_align` | sizing, no alignment function | finding: `NeverThrows` fails |
| `binlog_reopen` | 1 caller, 2 slots, any index | finding: `OpenFindsLastSlot` fails |
| `readers_failing` | `BufferedStream`, a failing read may give some bytes | finding: `ReadAheadIsFile` fails |
| `inflate_raw` | data without a trailer | finding: `IsReader` fails |
| `inflate_trailing` | bytes behind the end | finding: `ReadsReturn` fails |
| `deflate_failing` | a write fails | finding: `NextInOwned` fails |
| `meta_file` | lines of one byte | finding: `ReadsBack` fails |
| `edit_distance` | two words of up to 3 letters | finding: `DistanceIsLeast` fails |

`threads`, `storage` and `sequential` each hold several components that share no
state. A variable `which` chooses one component in the initial state, the variables of the others keep
one value, and the next-state relation is that of the chosen one. So the states are the sum of those
of the components, not their product, and what a property says of one component is
untouched by the others. Properties of a component are stated in its module; the MC
module passes them on (`X == Component!X`), restricts them to the behaviours
in which the component is the one chosen, or names together those of components that promise
the same (`MemoryHolds`, `DrawnByWeight`, `AgreesWithDefinition`).

### Why the bounds are enough to be interesting

* Pool: with three workers and three closures there are states with a worker
  idle, one just handed a closure and one running while the destructor waits, and
  queues of length two or more while all workers are busy.
* Sizing: 40 elements on up to 8 threads give every pattern of remainders; the
  costs lie on both sides of each threshold of the cost model (100000 cycles to
  start, 100000 per thread, 40000 per block).
* ParallelFor: three blocks of which the last is short exercise both halves of
  `HandleRange` and a count that is not a power of two; two workers with two nested
  calls can all be occupied by waiting callers.
* Notification: two threads of each waiting kind can wait, be woken and time out in
  any order around one event.
* Reference counting: three threads are enough for one in the shortcut, one in a
  decrement and one in a copy; four handles let each hold one and copy another.
* Database: two names, one of which is closed and opened again while an iterator
  of the other or of its first instance exists; that takes three instances.
* Directories: depth three gives a directory in a directory below the one deleted, and a
  path of which nothing, a part or all exists.
* Metrics: two events of each label by two threads fall before, into and after an export.
* Log: four slots hold two discardable ones and a batch of two after them; two
  callers race on the lock and around it.
* Readers: a buffer of two bytes is smaller than the file and than the requests,
  so each call may need no, one or two refills, with the end of the file at the
  end, in the middle or in front of a buffer.
* Zlib: buffers of two bytes are smaller than what one byte can give (3), than a piece (3) and
  than what a flush puts out, so each loop goes through none, one and several rounds; a
  source ends inside, at and behind a full buffer.
* Containers: limits and capacities are reached, passed and reached again after a reset,
  erase or swap, with equal and with different elements.
* Utilities: an arena fills a block to the last byte, gives up the rest of one and runs out of first
  blocks; buckets are empty before, between and behind those that are not; a tree of up to three levels
  is grown, shrunk and grown again; totals are powers of two and others; a bitmap ends inside a word, at its end and with it;
  varints have one to three bytes, are cut short, too long, and have bits too many.
* Table: the keys are empty, prefixes of one another, neighbours, far apart
  and of greatest bytes only, so separators are shortened, kept and equal to the
  key; blocks hold one entry or several, with one restart point or more, and a
  large value forces a flush before it is added; of the disk, the first write, the
  last block or the footer may be the one that does not fit.

### Deadlock

TLC's deadlock check is on where the program always has something to do: the log of `binlog_reopen` (the process can
always restart). It is off in the other runs: threads may all have
finished, or, in `ParallelFor`, all wait for nested calls (`threads`; that the pool does not get stuck
is `DtorTerminates` and the liveness in `ImplementsExecutor`); a directory is deleted once and paths
are created once (`storage`); an algorithm ends and no call need be made
(`sequential`); a table was built or abandoned and is not read (`table`). There the liveness
properties say what must have happened by then.

### Fairness, and why the code justifies it

* `ThreadPool`: weak fairness of each worker's next critical section, of a wake-up
  that was notified, of the end of a closure, and of the destructor's steps.
  Threads that can run do; closures end. No fairness of `Schedule`, of the
  destruction, or of wake-ups nobody notified: a lost notification would therefore
  be found.
* `ParallelFor`: weak fairness of each thread and of a worker taking a closure, which
  is what `TaskExecutor` guarantees.
* `Notification`: weak fairness of the next step of each thread and of the passing of a
  deadline. Nobody holds `mu_` between two steps but a notifier, and each notifier once,
  so a step that waits for `mu_` stays enabled from some point on. None of spurious wake-ups.
* `RefCounted`, readers, zlib streams: a thread finishes the call it is in; nobody is obliged to
  begin one. A read or a write that fails is an action of its own, without fairness: a loop may not count
  on a failure to end it.
* `BlockSizing`, `DistributionSampler`: the algorithm runs.
* `Table`: a call that was begun goes on (weak fairness of `Skip`); nobody is obliged
  to begin one, to finish a table, or to be able to read a block.
* `BinLogger`, `Database`, `FileSystem`, `Monitoring`, the containers and the other utilities: none; only safety is claimed.

## 4. What is proved

TLAPS checks the theorems for every value of the constants that satisfies the
assumptions of the modules: any number of workers, closures, threads, calls, entries
and slots, files, buffers and tables of any length. Almost every safety property of the
runs is proved, in eight modules. Each proof goes the same way: an inductive invariant of
the component, which TLC checked on a run before it was proved, the lemmas on the
operators it needs, one step for each action, and the theorem. Where a run drives one of several
components (`threads`, `storage`, `sequential`) the theorem is about the specification of the run, whose
steps are steps of the component or leave it alone.

**Threads** (`ThreadPoolProofs`, `ParallelForProofs`, `ThreadsProofs`).

* **ThreadPool** (`PoolAssumption`: there is a worker, and the null task is no
  closure). `PoolInv` says that every closure that was scheduled is in one place
  only (the queue, the `Waiter` of a worker that is about to wake, a running worker,
  among the finished) or came late, and what the fields of each waiter mean.
  The properties alone are not inductive: that no closure is started twice needs
  that none is in two places, and that the destructor loses nothing needs that a
  worker with a closure in its slot is off the stack of waiters, so that
  `Shutdown` does not clear it. Theorems: `Typing`, `NoIdleBesideWork`, `StackHoldsOnce`,
  `StartedOnce`, `OnlyLateLost` and `PoolIsExecutor` (each step is a step of
  `TaskExecutor` or a stutter). `StartedOnce` is not repeated as a property of the run: it
  follows from `ImplementsExecutor`. `PoolSteps` carries them over to the run `threads`.
* **ParallelFor** (`CallsAssumption`). `ParInv` is about debts, the ranges that are scheduled or that a frame on
  some thread still has to run or report (`Owed`): they do not overlap, each has one owner, and
  each goes from one block edge to another, which the halving of `HandleRange` keeps. `state_` of a
  barrier is twice the number of blocks with a debt, plus one when its caller waits; a thread is about to wake a
  caller only when that call owes nothing; an index has run when nothing that is still to be run covers it.
  `FramesInv` says this frame by frame, `CallsInv` call by call. Theorems: `InvHolds`, `FrameHolds`,
  `AssertionsHold`, `OnceHolds`, and as the run `threads` checks them `FramesOutlive`,
  `AssertionsNeverFail`, `IndicesOnce`.
* **RefCounted** (`HandlesAssumption`: finitely many handles). `RefInv` adds to the
  properties what a thread in the middle of `Ref` or `Unref` relies on: the handle it
  copies into is nobody's, it holds another one meanwhile, and the one it gives up
  is still its own. From it: a thread that reads 1 is the only one inside the
  object. Theorems: `Typing`, `CountRight`, `LastDeletes` (which is `SafeDeletion`), `ChecksNeverFail`.
* **Notification** (`DisjointThreads`: the kinds of threads are disjoint). `EventInv`
  adds that a notifier between its two steps holds `mu_`, and that whoever knows of
  the event knows what `notified_` says; without the second, an answer given before
  a later `Notify` could become unsafe. Theorems: `DestroyedSafely` and, of the action
  property `TruthfulAnswers`, `AnswersTrue`.
* **Event metrics** (`MonitoringAssumption`). `MetricInv` says that the sum of a label has the events that have begun and the
  count those that are finished, one less while a thread holds the mutex between the two. Theorem: `ExportsCurrent`.

**Storage** (`StorageProofs`).

* **BinLogger** (`LoggerAssumption`, and for the invariants callers that keep to the
  log, `~ FreeUse`: they truncate to an index of the log and discard only slots below
  `KeepFrom` when there are slots above). `LoggerInv` says that the database, and what
  was written back of it, are complete logs, and how the members relate to the
  database inside each method: after the write of an append, `length_` is behind
  by the batch; after that of a truncation it is not. Theorems: `Typing`,
  `MembersMatchDatabase`, `LogIsComplete`, `AssertionsHold` and `LoggerIsLog`
  (the refinement, power losses included). That callers must keep to the log is what
  `binlog_reopen` shows.
* **Database** (`DatabaseAssumption`). `UsersInv` says that an instance belongs to one name, and that one that an iterator
  reads is open under some name or was closed, for nothing else ends it. Theorem: `IteratorsOutlive`.
* **Directories** (`FileSystemAssumption`). For processes that create the same path, `RaceInv` says that what exists of a path beyond the part
  where a creator is was made by another creator that got there, and that one that failed did so on such a
  part or on a file: the one that got furthest has not failed (`CreatorSucceeds`). For the recursive deletion `TreeInv`
  says that the tree is closed (a parent is a directory) and that the answer tells whether something was left;
  `RemovedInv` that while nothing has failed all that was there is gone, or in the queue or the list, or below a
  directory the search has not come to; `OrderInv` that in an undisturbed removal each entry comes before the directory
  it is in. Theorem: `DeletionAnswers`.

**Streams and sizes** (`ReaderProofs`, `SequentialProofs`).

* **InputBuffer** (`ReaderAssumption`; the newline is not the carriage return). `BufferInv` is the type invariant with
  `WindowIsFile`: that `Tell()` is never negative needs that the buffer is not longer
  than the file position, and that a seek inside the buffer is right needs the
  window. `CallInv` says of a call in progress that what it has collected is the part of the file between
  where it began and `Tell()`. Theorems: `Typing`, `WindowStays`, `BufferImplementsReader` (each
  step is one of `ByteReader`, which does the whole call at once, or a stutter), and `BufferReads` for the run.
* **BufferedInputStream**. `StreamInv` is the same for two positions and a call that skips. Theorems:
  `StreamImplementsReader` and `StreamReads`, on files whose failing reads give no bytes (`FailsClean`): without
  that it is false, as `readers_failing` shows.
* **ZlibInputStream**. `InflateInv` says where each byte of the source is (given out,
  held inside zlib, in the input buffer, in the file) and that in the middle of a call
  what it has is the text between its beginning and the position. Theorem: `InflateReads`, for
  formats with a trailer and nothing behind it; `inflate_raw` and `inflate_trailing`
  show what happens otherwise.
* **ZlibOutputBuffer**. `PackerInv` says the same of the file, the output buffer, zlib and the input
  buffer together, in their order, and what each loop may count on. Theorems: `DeflatesAll`, `FlushesAll`.
* **BlockSizing** (`SizingAssumption`). `SizingInv` says that the block count is the quotient of length and size, rounded
  up, in every round of the search, and that the size kept is nearly the best of those seen. Theorems: `CountsMatch`, `WorkIsShared`.

**Utilities** (`UtilityProofs`).

* **Arena** and **InlinedVector**: `ArenaInv` says that the pieces given out lie in blocks that the arena has, below the free
  space, and apart; `VecInv` which slots are raw, live or moved from, and that the live ones hold the sequence. Theorem: `MemoryKept`.
* **Bitmap**: `UnsetFound`, the first half of `AgreesWithDefinition`, for every size of words.
* **DistributionSampler**: `SamplerInv` says that what an item has left and what others give to it
  add up to its weight, that the high items have a whole share or more and the low ones less, and that
  what is above a share is, in all, what is missing below. So when one of the lists has run
  out the other holds whole shares only. Theorem: `SamplesTrue`, the sampler's half of `DrawnByWeight`.

**Tables** (`TableProofs`; `TableAssumption`: keys are sequences of bytes, restart intervals are positive,
the value that stands for nothing is no record; `IteratorAssumption`).

* `Sound` says that the blocks in the file lie apart, trailers included,
  and before `offset`; that the pending handle and every value of the index, in memory or
  in the file, is the handle of a written block; and that a footer leads to the
  index as it was when it was written. The property alone is not inductive since the
  index entry of a block waits for the next key, and a failed write may come
  between. Theorem: `SpecIndexedBlocksExist`. On the operators:
  `SeparatorSeparates` and `SuccessorIsPast`: the shortened keys lie where the index needs
  them, for all keys.
* `Recorded` says what the block being built, the blocks written and the index hold in terms of the entries that were added: each entry in one block,
  blocks in the order of their entries, and between neighbours the key of the index. It rests on two facts about `Block`: that
  decoding the differences that `BlockBuilder` writes gives the keys back, at each restart point and from
  there on, and that the binary search over restart points with the walk that follows finds the first entry at or past the target.
  Theorem: `LookupsHold`.
* `Reads`, `Follows`, `Leads` and `Ahead` say of an iterator that its data iterator is on the block of its saved handle, where it is in terms of
  the entries, and that a skip in progress has only empty blocks behind it, or blocks whose failure the status tells. Theorem: `TableIsIterator`, the
  refinement of `SortedIterator`.

Every function of this code that is written by recursion is used in these proofs through lemmas about
it: that it exists, and what it says one step on. The theorems of the library that do this take an operator as
argument and cannot be used; here the function is built as the union of its finite parts, and an induction
is the choice of a least counterexample (`WFMin` on the naturals).

What is proved for every instance needs no check on one: `Typing` and `CountRight` are not repeated in the runs.

Only model-checked:

* everything about liveness and fairness, which the proof system does not treat: `LoopsEnd`, `AllReturn`, `NoLeak`,
  `StuckOnlyIfAllWait`, `DtorTerminates`, and the fair halves of `ImplementsExecutor` and `ImplementsIterator`;
* `TopNAnswers` and `PercentilesOrdered`: what they compare with is sorted by `SortSeq` of the TLC module, of which
  the prover sees no definition;
* the half of `DrawnByWeight` on `WeightedPicker`: counting the random numbers that lead to an element
  needs the arithmetic of powers of two, which none of the provers has;
* of `AgreesWithDefinition`, `EditDistance` and `Codecs`: their definitions recur over the data they are
  given, and the reference definitions do too;
* the meta file, whose run shows that what it is documented to do is not what it does.

## 5. What was found

* `sizing_no_align`: `ParallelFor` calls `block_align` without the test that guards
  its second call, and `ThreadPool::ParallelFor` passes none: every loop worth more
  than one thread throws (`base/thread/device_thread_pool.h:164`; the test that
  would show it is disabled by `#if 0`).
* `binlog_reopen`: `Truncate` stores the new length before it checks that its last
  entry exists. One call with an index past the end stops the process and leaves a
  database whose constructor stops on every start (`storage/bin_logger.cc:156`).
* `readers_failing`: a read that fails after some bytes leaves them in the
  buffer of a `BufferedInputStream` but does not move the stream below: the bytes
  are delivered twice, and `Tell()` may be negative
  (`base/io/random_inputstream.cc:34`).

* `inflate_raw`: `ReadNBytes` asks the file for more before it asks zlib whether it has text
  left. Without a trailer the last byte may give more than the output buffer
  holds; the rest is never returned (`base/io/zlib_inputstream.cc:141`).
* `inflate_trailing`: when anything follows the end of the compressed data, a read past
  the text runs for ever (`base/io/zlib_inputstream.cc:130`).
* `deflate_failing`: after a failed write inside `Append` of a large piece the stream
  keeps the address of the caller's data and goes on to use it (`base/io/zlib_outputbuffer.cc:166`).
* `meta_file`: what `WriteLine` was given is not what `ReadLine` returns, because the line
  sits in the buffer of the output stream and is read without its newline
  (`storage/meta_file.cc:24`; the test at `storage/meta_unittest.cc:48` expects it).

* `edit_distance`: `LevenshteinDistance` exchanges its work vectors before the first row instead of after each
  (`base/gtl/edit_distance.h:54`), so that the row above the first is all zeroes. `ab` and `ba` are 1 apart and not 2, and
  `aab` and `aba` 2 or 1, depending on which comes first, of a distance documented as symmetric.

Noted while modelling, without a run of their own:

* `ReadLastLine` returns what the last, failed read left: always an empty line.
* A `MetaFile` on a file that exists has no streams, and any call stops it. The constructor's calls
  are inside `DCHECK`, so a build with `NDEBUG` makes none of them.
* `Database`: the names `a` and `/a` share a directory, so the second `Open` fails its `DCHECK`; the
  anonymous user can be closed like any other.
* `CreateDirectoryRecursively` fails when another process creates a parent
  after it was looked for (`OneCreates` says that somebody succeeds), and returns OK
  when a file stands at the path. `DeleteDirectoryRecursively` counts a directory twice
  that it can neither list nor remove.
* `Histogram::Add` counts a value at or above the last custom limit in a bucket that does not exist
  (`base/histogram.cc:68`), which neither a check nor the requirements in `histogram.h` exclude.
* `Arena::GetMemory` asserts that `remaining_ <= block_size_`; a derived class that asks for an
  alignment gets blocks rounded up to it, which may be larger (`base/arena.cc:159`). No class derives from it.
* `InputBuffer::ReadVarint32` of more than five bytes is `OutOfRange` and stays where it is when they are
  in the buffer, and `DataLoss` behind five of them when they are not (`base/io/inputbuffer.h:86`).
* `IndexToKey` gives every negative index the key of index 0, so that `ReadSlot(-1)` and `RemoveSlot(-1)` name slot 0.
  No comment says what they should do; `Key` keeps it, and no property is about it.
* The comment of `Table::InternalGet` (`base/io/table/table.h:57`) lets it pass on nothing if a filter policy says so. There
  is none, and yet it may pass on nothing for an absent key: when the key lies before the separator of a block but behind
  the block's last entry, the entry it looks for is in the next block. `LookupsAgree` allows this for absent keys only.
* An iterator that is used after a `Close` of its own name reads an instance that is gone. `Usable` leaves such calls out;
  `IteratorsOutliveOthers` says when they begin to be wrong.
* An export may read the sum of an event without its count. `ExportIsCurrent` tolerates it; no comment
  promises that the two belong together.
* With flush mode `Z_NO_FLUSH`, `Flush` of a `ZlibOutputBuffer` leaves text in zlib, as
  documented. With `Z_SYNC_FLUSH` and an output buffer smaller than the six bytes that zlib asks for,
  a flush may not end: its marker fills the buffer again and again.

* A closure scheduled by a running closure after the destructor has set
  `exiting_` may be lost (`OnlyLateIsLost` shows that nothing else is), and may be
  written to the `Waiter` of a thread that has ended.
* `ParallelFor` inside the pool can occupy every worker with a waiting caller
  (`StuckOnlyIfAllWait` shows that this is the only way to get stuck).
* After `Truncate(-1)` `last_log_term_` keeps the term of an entry that is gone,
  while a restarted logger reports -1. `ReportsTheDatabase` leaves the term of an empty
  log out.
* A failed `ReadLine` uses up the part of the line it had read; a caller that tries
  again gets the rest (`ReadLineFails` of `ByteReader` allows it).
* `TableBuilder::NumEntries` is documented as the number of calls to `Add()` so far
  (`base/io/table/table_builder.h`), but `Add` returns early after a failed write and
  does not count the call.

## 6. Plan

Every component with state, and the functions whose arithmetic the others rely on, have a
module, and the safety properties of the runs are proved except for those named at the end of section 4. What is
left:

* `TopN` and `Histogram`: say what they answer by counting instead of sorting (an answer has so many before it), and prove
  it; the invariant is that the heap holds the best of what was pushed, with the slot behind it the worst.
* `WeightedPicker`: that each level of the tree holds the sums of the one below, which `DrawnByWeight` needs, is
  provable; the counting of random numbers is not.
* `EditDistance` and `Codecs`, whose references recur over data, stay with TLC.
* The service itself, once it exists.
