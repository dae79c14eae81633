# A TLA+ model of the external-memory primitives

The repository is a C++ library of sequence primitives (map, filter, reduce,
scan, find-if, shuffle, sort) over files that are spread over many SSDs. Data
moves between the SSDs and memory through io_uring; reader and writer threads,
blocking queues and buffer pools sit between the primitives and the ring.

## Inventory

### I/O layer (`utils/`)

| Component | State it keeps | Operations | What is hard | What makes it correct |
|---|---|---|---|---|
| `simple_queue.h` `SimpleQueue` | `queue`, `open`, `size_limit`, two condition variables | `Push`, `Poll` (no timeout, zero, positive), `Close`, `Reopen`, `SetSizeLimit`, unlocked `IsEmptyUnsafe` | woken threads race newcomers for the mutex; close races with waiters | FIFO, each item once, no lost wakeup, FINISH only when closed and drained |
| `unordered_file_reader.h` `UnorderedFileReader` | per worker: files with issue and completion counts, free and outstanding requests, the ring; shared: buffer queue, `active_threads`, `is_open` | `Start`, worker loop, `Poll`, `Wait`, `Reset`, destructor | completions arrive in any order, `Push` blocks on the consumer, the last worker closes the queue | each active chunk delivered once, the stream ends exactly when all are delivered |
| `ReaderAllocator` (same file) | free list, two locks | `Alloc`, `Free`, `AllocateMoreMemory` | the size test is a data race | a buffer has one owner |
| `unordered_file_reader_modified.h` `UnorderedChunkReader` | as above for a list of chunk headers | as above | zero-length chunks bypass the ring | as above |
| `unordered_file_writer.h` `UnorderedFileWriter` | queue of requests; per worker: ring, outstanding count, phase; per file: append cursor | `Push`, `Poll`, `Wait`, `ExpandFiles`, worker loop | batches held until full, drain at close, append cursor shared by workers | every pushed block written once, appended blocks do not overlap |
| `unordered_file_writer_modified.h` `UnorderedChunkWriter` | as above, atomic cursors | as above | explicit offsets next to appends | as above |
| `ordered_file_writer.h` `OrderedFileWriter` | one open request per bucket, request pool, pending queue | `Write`, `ReapResult`, `CleanUp`, I/O thread | pool exhaustion while a bucket lock is held, close with work in flight | writes of a bucket tile its file, requests are recycled once |
| `random_read.h` `RandomBatchRead` | ring, request array | one call | CQE used after it was returned | each element read from the file that holds it |
| `file_utils.cpp` | none | `FindFiles`, `GetFileInfo`, `ReadFileOnce`, end marker, alignment | sizes at block boundaries | marker and true size agree |

### Scatter-gather (`scatter_gather_algorithms/`)

`scatter_gather.h` assigns every element to a bucket (phase 1, through
`OrderedFileWriter`), then processes each bucket in memory (phase 2, a
three-stage read, process, write pipeline per worker). `sample_sort.h` supplies
pivots and a bucket assigner, `permutation.h` a random assigner. Correct when
the output is a permutation of the input, sorted within and across buckets.

### Sequence primitives (`sequence_algorithms/`, `Plaidlay/`)

`external_engine/external_engine.h` `ExternalTransform` is the loop behind the
Plaidlay primitives: poll a batch of chunks, transform them in parallel, emit
chunks through `ChunkEmitter` (an atomic output slot, an SSD chosen by hash, an
atomic offset per file), wait for the writer, sort by index and renumber.
`ExternalFilter.h`, `ExternalMap.h`, `ExternalReduce.h`, `ExternalBoolean.h`,
`ExternalIota.h`, `extern_find_if.h` and the examples (shuffle, primes) are built
on it or repeat it.

`sequence_algorithms/` has map, reduce and filter over the files of a prefix, and
`NaiveExternalScan.h` a scan. Filter and scan keep a heap per file, since chunks
arrive in any order; what they write is padded and ends in a marker.
`externalSeq.h` keeps the files of a sequence and finds those a call wrote. What
is hard is order within and between files, and the sizes: on disk, true, and in
the marker.

The drivers (`external_main.cpp`, `find_if_benchmark.cpp`, `primes_benchmark.cpp`,
`sequence.cpp`, `scan_verify.cpp`, `sample-sort.cpp`, `permutation.cpp`) build
inputs, make calls and check what these left. Their checks are the tests of the
repository, so they are modelled with the primitives.

Some files are left aside as a whole: benchmarks of plain transfers, plots and
scripts (`speed-test.cpp`, most of `benchmarks/`, `scripts/`), distributions of
random numbers, command line and logging, parlay itself, and code that is
unfinished or that nothing includes (`externalScan.h`, `kth_smallest.h`,
`block_iterable.h`, `bitvector.h`, `Plaidlay/filter.h`, `documented_filter.h`,
`old_filter.h`).

## How the parts interact

```
 sample_sort.h,   map.h, filter.h, reduce.h,      Plaidlay primitives
 permutation.h    scan, externalSeq.h                      |
   |    |             |        |                   external_engine.h
   |  scatter_gather.h|        |                     |            |
   |    |         |   |        |                     |            |
 random_|     ordered_|    unordered_         unordered_file_  unordered_file_
 read.h |     file_   |    file_writer        reader_modified  writer_modified
   |    |     writer  |        |                     |            |
   |  unordered_file_reader    |                     |            |
   |    |   \  |               |                     |            |
   |    | ReaderAllocator      |                     |            |
   |    +---- SimpleQueue -----+---------------------+------------+
   +------------------- io_uring, files, file_utils.cpp
```

Calls go down; the only way up is through queues (`Poll`) and joins (`Wait`,
`CleanUp`). Each layer is verified against what the layer above may rely on,
and the layer above is then modelled over that promise:

| Abstract specification | What it promises | Implemented by (checked) | Relied on in |
|---|---|---|---|
| `ClosableQueue` | FIFO; each item once; end of queue only when closed and drained; blocked calls complete | `SimpleQueue` (also proved, without the liveness part) | readers and writers |
| `ChunkStream` | each wanted chunk handed out once, the end told only after that | `UnorderedFileReader`, `UnorderedChunkReader` (both also proved, without the liveness part) | `ScatterGather`, `ExternalPrimitives`, `FileSequences`, `SampleSort` |
| `BlockStore` | each block stored once, where it was asked to or on a place of its own, before `Wait` returns, and `Wait` returns | `UnorderedFileWriter` (also proved, without the liveness part) | `ExternalPrimitives`, `FileSequences` |
| `SequenceOps` | each call of a job ends with the value that its elements determine, however they are cut into chunks and files; the next call gets that value | `ExternalMain`, `FileMain` | the jobs of both: `filter` then `find_if`, `bool` then `sieve`, `map` then `scan` |

## The modules

A module's variables have the names of the code's members and locals where they
correspond to one; `pc` is where a thread is. A step is what a thread does
between two accesses to something shared: a mutex-protected queue, a ring, an
atomic. Each module starts with a comment on what it leaves out.

* **`SimpleQueue`** (`utils/simple_queue.h`). One action per critical section:
  a call runs until it returns or waits. `"reader_wait"` and `"writer_wait"` are
  the wait sets of the two condition variables; `notify_one` moves one thread of
  the set to `"reader_woken"` or `"writer_woken"`, from where it competes for the
  mutex with newcomers. Spurious wakeups and deadlines are actions of their own.
  `Close` wakes readers only and `Push` never looks at `open`, as in the code.
* **`UnorderedFileReader`** (`utils/unordered_file_reader.h`), without its
  allocator. The owner calls `Start`, `Reset` and the destructor; a worker goes
  through the parts of its loop (`"test"`, `"reap"`, `"submit"`, `"cleanup"`,
  `"last"`). `Ahead` is `advance_to_active`. `Complete` is the kernel. Each call
  of `Start` chooses the bitmap of active chunks.
* **`ReaderAllocator`** (same file): the free list, the two mutexes and the size
  test that reads the list without its mutex. That read is a data race; while
  another thread is changing the list the test may come out either way.
* **`UnorderedChunkReader`** (`utils/unordered_file_reader_modified.h`). The
  request structs have an identity, since the label of a buffer is taken from the
  struct when its completion is seen.
* **`UnorderedFileWriter`** (`utils/unordered_file_writer.h` and
  `unordered_file_writer_modified.h`). A worker alternates between reaping and
  filling a batch. The two files differ in the append cursor: `ReadCursor` and
  `AdvanceCursor` are the plain one, `PlaceAtomic` is the atomic one of the
  modified file. `Init` chooses which kind of callers use the writer.
* **`OrderedFileWriter`** (`utils/ordered_file_writer.h`). A request is a record
  with the buffers in its vector; it moves between pool, bucket, writer, pending
  queue and ring. `CleanUp` goes over the buckets, closes the queue and joins.
* **`ScatterGather`** (`scatter_gather_algorithms/scatter_gather.h`). Elements
  have a bucket chosen in `Init`, so every assigner function is covered, those of
  sample sort and permutation included. Phase 2 keeps `previous`, `current`,
  `next` and the five `need_` flags of `WorkerOnlyPhase2`.
* **`ExternalPrimitives`** (`Plaidlay/`). The batch loop with its parallel tasks;
  what a primitive does with a chunk depends on the first call of `job`. `map` and
  the engine emit while tasks run (slot, place, header and push, each a step);
  `iota`, its copies, `filter` and the sieve fill slots in parallel and push after
  the join; `find_if` collects one answer per task; `reduce` has one accumulator
  per worker. `shuffle` has workers that scatter into buckets (`Scatter`, `Flush`,
  `FlushRest`) and then a task per bucket (`Gather`, `WriteBlock`). Input headers
  are taken to be numbered 0, 1, 2, ... in order, as all primitives return them.
* **`ExternalMain`**: `ExternalPrimitives` on the inputs of the tests in
  `external_main.cpp` and the two benchmarks (`TestBatchBoundaries`, `RunIotaCase`,
  `RunPrimes`, ...), scaled down, and on every sequence of a few small chunks; and
  what the tests check (`CheckOutputInvariants`, `VerifyIotaData`, ...).
* **`FileUtils`** (`utils/file_utils.cpp`): operators over `ssd_list` and `disk`,
  which maps the name of a file to what it holds. A marker is an element that
  cannot be data. `TrueSize` is what `GetFileInfo` makes of the marker.
* **`FileSequences`** (`sequence_algorithms/`, `NaiveExternalScan.h`,
  `externalSeq.h`). `tasks` are the workers that share one reader in map and
  reduce, and the files in filter and scan. `Ready` is the loop that takes chunks
  off the heap. Scan goes through `"totals"`, a join, and `"scans"`.
* **`SampleSort`** (`random_read.h`, `sample_sort.h`, `permutation.h`). A segment
  of `RandomBatchRead` has buffers with the page they hold, a ring and a completion queue
  with its entries, so that reading an entry after giving it back (`SeenRead`, `TakeRead`)
  shows.
  `PivotIndex` is the index walk of `GetPivots`. The assigners and
  `ProcessBucket` use scatter-gather as `ScatterGather` shows it.
* **`FileMain`**: the two modules above on what `sequence.cpp`,
  `scan_verify.cpp`, `sample-sort.cpp`, `permutation.cpp`, the benchmark of random
  reads and `externalSeq` call them with, and on every list of a few small files;
  and the checks of these programs.
* **`SimpleQueueProofs`**, **`UnorderedFileReaderProofs`**, **`ReaderAllocatorProofs`**,
  **`UnorderedChunkReaderProofs`**, **`UnorderedFileWriterProofs`**,
  **`OrderedFileWriterProofs`**, **`ScatterGatherProofs`**, **`ExternalMainProofs`**: the
  inductive invariants and the theorems of the module each is named after; see "What is
  proved".

`MCUnorderedFileReader`, `MCExternalMain` and `MCFileMain` give values to constants
that a configuration cannot write down. The other modules are checked as they are.

## What is checked

| Run | Configuration | Question | Result |
|---|---|---|---|
| `queue` | `MCSimpleQueue` | is anything lost, doubled, reordered or overfilled, or somebody left asleep, with all kinds of timeout; and with those that callers use, does a blocked call complete? | no; yes |
| `reader` | `MCUnorderedFileReader` | is the reader a stream, for every bitmap, over two uses, and can a check of its own fail? | yes; no |
| `reader_destroyed_early` | `MCUnorderedFileReaderEarly` | may a reader be destroyed before it is drained? | **no**, see Findings |
| `allocator` | `MCReaderAllocator` | does a buffer have one owner, does some `Alloc` always succeed? | yes |
| `chunk_reader` | `MCUnorderedChunkReader` | does a chunk arrive under its own header, is the reader a stream? | yes |
| `writer` | `MCUnorderedFileWriter` | is the writer a store, whoever places the blocks; are ring and data respected? | yes |
| `ordered_writer` | `MCOrderedFileWriter` | is a request ever in two places, a vector or ring overrun, a file incomplete; with a nearly empty pool, do `Write` and `CleanUp` return? | no; yes |
| `scatter_gather` | `MCScatterGather` | is an element lost or doubled, does the pipeline mix up files, does `Run` return? | no; no; yes |
| `external_primitives` | `MCExternalPrimitives` | do the calls of the Plaidlay tests, and those on every small sequence, end with the right value and within their output array and files; do the tests pass? | yes |
| `find_if_partial_chunks` | `MCFindIf` | is `find_if`'s answer the position of the first hit, whatever the chunks? | **no**, see Findings |
| `file_programs` | `MCFileMain` | do the calls of the programs over files, and those on every list of small files, end with the right value; do their checks pass; is each read at a random position submitted and counted once, and do up to as many as the completion queue holds get what they asked for? | yes |
| `pivots_of_small_inputs` | `MCPivots` | is every pivot a sample? | **no**, see Findings |

Deadlock is checked in all runs but `reader_destroyed_early`, where the process
stops by design; elsewhere the end of a run is a named stuttering step.

### Bounds, and why they are enough

* Queue: four threads (two sleepers of one kind against two of the other; a
  sleeper, a newcomer and a third to wake them) and two values to see the order.
  `deadlines` is chosen at the start: with it `Poll` may be given a timeout, as
  only safety allows; without it progress is claimed too. Limits 0, 1 and 2 cover
  unbounded, always-full and in between; `MaxLength` cuts an unbounded queue at 3.
* Reader: two workers and three files make one worker rotate; files of 2, 1 and 2
  chunks with every bitmap give empty files and gaps at the front, middle and
  end; two requests per worker let completions overtake each other; a buffer
  queue of one makes workers block in `Push`; two uses (`MaxRounds`) show what
  one leaves to the next. The race for the last decrement needs two workers.
* Allocator: three threads, growth by two, at most five buffers (`MaxBuffers`):
  one thread grows, two steal.
* Chunk reader: lists of up to four chunks, any of them empty, two workers.
* Writer: rings of two, so that batches fill, stay partial and end; three files
  for two workers; three blocks (`MaxBlocks`), of one or two pages (`MaxSize`);
  explicit blocks and blocks that share a cursor go to one file, the worst case.
* Ordered writer: one bucket, as buckets share nothing but the pool and the queue;
  it has one request to spare for two writers, so that they wait for it with the
  bucket locked. Vectors of exactly two buffers; odd sizes of one page less one
  (the marker does not fit behind) and one; five buffers (`MaxBlocks`) fill two
  requests and a tail, or leave an odd one for it.
* Scatter-gather: four elements in two chunks over three buckets, every
  assignment: full, partial and empty buffers and buckets. A worker of phase 2
  can get all three files, or none: the pipeline has three stages.
* Primitives: batches of two; every sequence of up to two chunks (`MaxChunks`) of up
  to two elements with every predicate, and the test inputs of up to five chunks:
  no chunk, one batch, several and a partial one; full, partial and empty chunks.
  `map` writes elements twice as large, so a chunk makes two blocks. `shuffle` gets
  up to three elements (`MaxShuffled`) for buckets of one, with every outcome of the
  random numbers.
* Files: pages of two elements, reads and blocks of two pages. Every list of up to
  two files (`MaxFiles`) of up to three pages (`MaxPages`) has empty files, a chunk
  that is not full, and two chunks that may overtake each other; filtered by
  predicates that keep nothing, all, every other or all but the first, so that the
  end marker finds an empty, a partial and a full block. The programs' inputs are
  up to sixteen elements long. Of the orders of a permutation of more than four
  numbers there are two (`Orders`), of a shuffle two (`Shuffled`), and of the
  random numbers three sequences (`MCRandoms`): all equal, all different, and
  repeating. The order of chunks, files and tasks is unrestricted.
* Random reads: constants in the relation that the code has: more buffers (five; 16384 in
  the code) than the completion queue has entries (four; 1024), and that twice the ring
  (two; 512). The draws (`MCDraws`) make segments of three and four positions, equal, different and
  repeating: the queue can be full, but an entry is not reused too early, and
  `RandomReadExact` claims that each position gets its element. Thirteen positions make segments
  of seven and six: the buffers run out in the middle of a ring, reads stay
  prepared, and entries are reused as soon as the kernel may; there `RandomReadExact`
  claims only that no read is lost, waited for too early or counted twice. These positions are all
  the same, since for such segments only the number of reads matters. Segments are
  taken one after the other: they share only files that nobody writes.
* Pivots: `size_t` has a range of 2^16 for elements of 8 bytes (`SizeRange`,
  `ElementBytes`), so differences and addresses wrap as with 2^64. Just behind the
  samples some number is read (`BehindSamples`); an index farther away stops the
  program, which happens with three pivots. No input has three: they have one, two
  and four.

### Fairness

Weak fairness on each thread's own steps: the operating system runs every thread
that is ready. Weak fairness on completions: the kernel finishes what was
submitted. Consumers of a reader poll until they are told the end, as every
caller in the repository does. A woken thread of the queue gets the mutex in the
end. Nobody is obliged to call an operation, and spurious wakeups are not fair.
`FileMain` assumes only that the program as a whole goes on (`WF` of `Next`): each
call takes finitely many steps, so whichever task runs, it ends.
`ReaderAllocator` assumes strong fairness for taking a mutex, that is a mutex
that does not starve one thread forever; `AllocProgress` claims progress of
somebody, not of everybody, since with a plain mutex the latter is not true.

### Mutants

Operators marked `Mutant` are variants with a plausible mistake (a dropped
notify, a loop that became an `if`, a counter not advanced, a request recycled too
early). No specification uses them; each property of each run is violated when
its mutant takes the place of the operator below it.

## Findings

* **Destroying a reader that is not drained aborts the process.** The destructor
  clears `is_open` so that workers leave their loop, and the worker loop says it
  goes on "if we haven't finished all the files and the reader is still open",
  but the worker then checks that all files were completed
  (`unordered_file_reader.h:400`). Run `reader_destroyed_early`. The one caller
  that stops before the end, the read benchmark on its time limit, leaves through
  `exit(0)` to "skip sanity checker in the reader" (`io_benchmarks.cpp:107-110`); the others
  drain their readers. Run `reader` shows that this is safe, also in the window
  between the last `Poll` and the worker's own bookkeeping.
* **One pivot is read from behind the samples.** `GetPivots` takes
  `max(1, ...)` as its first step (`sample_sort.h:66`), so a single pivot is
  `samples[1]`, and there is only `samples[0]`; its comment promises "a vector of
  num_pivots samples". With two or three pivots an unsigned difference wraps. With two
  the index is 2^63 + 1, but so far away the address of an element of 8 bytes wraps too and is
  that of `samples[1]`; with three it is an address far away. Inputs below 512 MB ask
  for so few. Run `pivots_of_small_inputs`. With one pivot or two the elements are sorted
  whatever was read (`file_programs`); from four pivots on the walk stays within the
  samples.
* **`find_if` answers a wrong position after a partial chunk.** It computes
  `index * buffer_size + j`, which is the position only if all earlier chunks are
  full (`extern_find_if.h:262`); `ExternalFilter` leaves them partly filled. The
  answer is too large, and since it is capped by the number of elements it may
  also say "not found". Run `find_if_partial_chunks`; on full chunks
  `external_primitives` shows the answer to be right.

Two more observations come without a run, since nothing in the repository says
otherwise or its tests avoid the case:

* Reads at random positions can mix up their buffers. `RandomBatchRead` gives a
  completion back with `io_uring_cqe_seen` and only then reads its user data
  (`random_read.h:111-113`); the readers of files and chunks do it the other way
  round. Up to 16384 reads are in flight and the completion queue has 1024 entries,
  so it can be full, and then the entry given back is the one the kernel fills
  next. The model has these steps. `RandomReadExact` promises exact results
  only for segments of no more positions than the queue has entries; with thirteen positions that are
  not all the same and that bound removed, TLC finds one buffer taken twice and another
  lost, so that one element comes twice and another never. Sorting survives it, as any elements do
  as pivots. (`OrderedFileWriter` has the same order of the two calls,
  `ordered_file_writer.h:79-81`, but at most 128 requests in its ring and a queue of 256.)
* `ExternalReduce` asks for an associative operation with a unit
  (`ExternalReduce.h:30`), but workers fold the chunks they happen to poll, in the
  order these complete, so the operation must be commutative, too. The tests use commutative ones, as
  they say (`external_main.cpp:910`). `external_primitives` shows that the value is that of the
  elements in some order.

Other observations are listed as hazards in `PROJECT.json`; those that no property
covers have a note that says why.

## What is proved

A run shows a property for the sizes above; a theorem shows it for every value of
the constants that satisfies the module's assumptions. Each proof module first says
what is known of a reachable state (the inductive invariant, in named parts), then
has a lemma per part, with a step per action, and ends with the theorems.

### The queue (`SimpleQueueProofs`)

* `TypeCorrect`: the types, and that a blocked call keeps its arguments.
* `NoReaderLosesWakeup`: while a reader sleeps there are as many woken readers as
  items. (For callers without deadlines: a reader that was notified and times out
  takes the wakeup along.)
* `NoWriterLosesWakeup`: while a writer sleeps the woken writers make up for the room.
* `CloseReachesAllReaders`: no reader sleeps on a closed queue.
* `LimitRespected`: a limited queue never outgrows its limit.
* `QueueImplemented`: every behaviour satisfies the safety part of `ClosableQueue`.

The types alone are not inductive, since a woken writer pushes the value it kept:
`TypeInv` adds `ArgumentsKept`. `SleepInv` is the conjunction of the three statements
about sleepers with `WithinLimit`; they need each other and `TypeInv`. A `Push` adds
an item and moves a sleeping reader, if there is one, to the woken, so both sides of
the inequality grow; a `Poll` that succeeds takes one item and at most one woken
reader away. The lemmas `LoseOne` and `GainOne` say what that does to the
cardinalities. For the refinement, waiting and woken threads both map to a pending
call, so waits and wakeups are stuttering.

### The reader of files (`UnorderedFileReaderProofs`)

* `TypeCorrect`: the types, and that `active_threads` is the number of workers before
  their decrement.
* `ChunkIsInOnePlace` (`OnePlace`): no chunk is read twice, pushed twice or forgotten.
* `EndIsTheEnd` (`EndMeansAll`): whoever is told the end is told it after the last chunk
  was handed out.
* `DrainedNeverAborts` (`NoAbort`): the worker's check of its files cannot fail. Its
  hypotheses are what run `reader` has and run `reader_destroyed_early` has not: a reader
  is destroyed only after its last chunk was polled (`EarlyDestroy = FALSE`), and somebody
  polls (`Consumers # {}`).
* `ReaderIsAStream`: every step is a step of `ChunkStream` or a stutter.

The invariant is `ReaderInv`. `PlaceInv` says where a chunk is: still to be issued (at or
behind the issue counter of its file), outstanding with the worker of its file, or pushed.
`CompleteInv` ties the workers' counters to what was pushed, `EndInv` the queue's
closing to the last decrement, `OwnerInv` what one use leaves to the next. Why the end is
the end: a worker leaves its loop only with all its files complete, the queue is closed
only when `active_threads` is 0, and that counts the workers still in the loop; so the
counter must be part of the type invariant. `DrainedInv` adds that a closed reader has
nothing active left, which is what a destroyed reader's workers need.

### The pool (`ReaderAllocatorProofs`)

* `TypeCorrect`: the types, in which a mutex has one holder.
* `BufferHasOneOwner` (`OneOwner`): every buffer carved out is in the free list once, held
  by one thread, or on its way back, whatever the racy size test answers.

`LockInv` is mutual exclusion of both mutexes; `RoomInv` says that the room a thread saw
under `allocation_lock` is there when it gets the list, which is what keeps two threads
from carving out the same buffers. `OwnerInv` is `OneOwner` without its cardinalities
(`KnownBuffers`, `ApartInv`, `SomewhereInv`), which is what the steps preserve; the theorem
then counts.

### The reader of chunk lists (`UnorderedChunkReaderProofs`)

* `LabelsAreRight` (`LabelsMatch`): a buffer is handed out under the header of the chunk it
  holds, however request structs are recycled.
* `ReaderIsAStream`: every step is a step of `ChunkStream` or a stutter.

`LabelInv` says that a struct in use is not free and names the chunk that is being read;
`PlaceInv`, `CountInv`, `EndInv` and `OwnerInv` do what they do for the reader of files.

### The writer (`UnorderedFileWriterProofs`)

* `TypeCorrect`: the types.
* `RingIsNeverOverfull` (`FitsRing`): a batch finds the submission entries it asks for, and
  completions not yet seen fit into the completion queue.
* `DataIsKept` (`WrittenIntact`): data is freed only after it was written.
* `WriterIsAStore`: every step is a step of `BlockStore` or a stutter.

`StepInv` is where a worker is in its loop, `CloseInv` what stays closed, `PlaceInv` that
a request is in the queue, in hand, in one batch or in one ring, `RingInv` that
`outstanding` counts the ring, `SettledInv` what was written, reported or is still to
do. The hard part is `ExtentInv`: two writes that were given a place in the same file do not
overlap, though appended ones take theirs from a cursor that others move, and explicit
ones name theirs. It holds since a cursor is ahead of all that was placed with it and,
with the plain cursor, only the worker of the file uses it. `BoundInv` bounds the cursor
by the blocks started, so that the places are those that `BlockStore` has; the abstract store is
the instance whose space is as large as all blocks one after the other.

### The writer of buckets (`OrderedFileWriterProofs`)

* `RequestHasOneHolder` (`OneHolder`): a request is in the pool, in a bucket, with a writer, in
  the queue or in one ring.
* `VectorsAndRingsHold` (`FitsVectorAndRing`): a vector is not filled past its end, nor a ring.
* `FilesAreComplete` (`DoneMeansComplete`): when everybody is done, the file of a bucket has the
  reported size without hole or overlap, each buffer given to `Write` for the bucket is in it once,
  and the end marker fits behind the data.

`HolderInv` is `OneHolder` with finiteness; `VectorInv` says that a free request is empty and
that a bucket nobody has locked has room for one more buffer, so the tail of `CleanUp` fits.
`EndInv` is how the end comes about: the queue is closed after the last bucket, an I/O thread
has no more only then, and leaves with an empty ring.

`LayoutInv` is about the files while they grow. The idea is to count what requests still carry
as laid out already: `AllPieces` are the pieces on disk and those that the requests will
become, so that submitting, completing, reaping and recycling leave them alone, in whatever order
they happen, and only `Write` and `CleanUp` add one, at the `End` of the bucket. The pieces of
a bucket are whole pages that lie one behind the other up to there (`TilesUpTo`), and with the
odd buffers kept aside they hold each block once (`HoldsAll`). `CursorInv` is why a new request
begins at the end: `file_size` is the offset of the current request until it is found full, and
its end while the bucket is locked. `RequestInv` has that a request seen to be complete is on disk, so
emptying it loses nothing; `NumberInv` that the block of a `Write` is a new one; `SizesInv` what
`CleanUp` reports, and before, what it will have to report. At the end every request is empty, so
the pieces are those on disk.

The sizes are sums over finite sets. That `MapThenSumSet` adds the size of one element more
(`SumTakes`, `SumAdds`) is proved by induction on the subsets, from the library's theorem that the
subsets of a finite set are well-founded (`SmallestSet`): of the subsets for which it fails one
would be smallest.

### Scatter-gather (`ScatterGatherProofs`)

* `TypeCorrect`: the types.
* `EachElementInOnePlace` (`NothingLostOrTwice`): each element is in one chunk, buffer, write or
  file during phase 1.
* `FilesAreInStep` (`PipelineInStep`): a file is read before it is processed and processed before
  it is written, and a ring serves one file at a time.
* `ReturnedMeansProcessed` (`ReturnMeansAllProcessed`): when `Run` returns, every bucket
  was read, processed and written with all the elements assigned to it.

`AssignInv` is phase 1: one place per element (`PlaceInv`), the right bucket (`BucketInv`), and an
assigner that is done has nothing left, so that nothing is on its way when phase 2 begins
(`PhaseInv`). `PipelineInv` is phase 2: a file that was taken is in the hands of one worker or
in the result (`JobsInv`), what the five `need_` flags say of the three stages between two
steps (`FlagsInv`), and in which state the data of each stage is (`DataInv`). `ReturnedMeansProcessed`
needs all of it: the buckets are full because of phase 1 and processed because of phase 2.

### The primitives over chunks (`ExternalMainProofs`)

* `OutputAlwaysFits` (`OutputFits`): whichever primitive is called, on whatever sequence, with
  any number of disks, tasks and buckets, no task gets a slot outside of the output array; the
  headers with a place and the blocks pushed are equally many; and no two headers, hence no two
  blocks, have the same place.

The invariant is `OutputInv`. The array is sized when a call begins, from the number of chunks
alone, so each primitive has a reason of its own why the slots it hands out are enough:

* `iota`, its copies, `filter` and the sieve number slots within a batch (`SlotOfBatch`). `BatchInv`
  says that the slots of a batch lie one behind the other, in a range that earlier batches
  did not use. That they end within the array is `FillInv`: a task that generates has one
  of the chunks left, and of the tasks that poll, none is sent away before the input is
  empty, so all batches but the last are full.
* `map` and the engine count slots through the whole call, before the blocks are written. `RoomInv` is
  the argument: the slots taken, the blocks in the hands of tasks that still need
  one (`Pending`), and the most that the chunks not yet read can make never exceed the capacity.
  A poll trades a chunk for its blocks, a slot taken trades a pending block for a counted one.
  `EmitInv` keeps the slots and the places of tasks apart in between.
* `shuffle` sizes its array after the first pass. `GatherInv` has that the ranges of the
  buckets do not overlap and that a bucket has as many slots as blocks left to write, which needs
  that reading the blocks of a bucket gives as many elements as were put in (`BucketBlocks`).

`MatchInv` is the other half: headers with a place and blocks of the output correspond one to
one, and every place used is behind the counter of its file. After a batch several
tasks get their places at once; `Places` shows by counting that these differ. Sorting the headers
permutes the slots in use, for it takes the header with k before it (`SortedOrder`), so nothing is
lost or doubled when the array is cut down (`ReturnStep`). `JobInv` and `SizedInv` carry what one
call guarantees to the next of its job, and `GivenTest` and `GivenSmall` show that the jobs of the
programs start with it.

Totals and concatenations over sequences of any length come in here (`TotalIs`, `TotalGrows`,
`ConcatLength`): each is proved by looking at the least number for which it fails (`LeastNat`).

### Assumptions

The named `ASSUME`s of the modules, which every run evaluates, and no others: threads,
assigners, workers and request structs are finite sets; limits and bounds are naturals; sizes of
rings, queues, buffers and pools are naturals other than 0; a writer has at least one file and
one thread; the pool of `OrderedFileWriter` has at least two requests per bucket, as its
constructor makes it, and there is an I/O thread; `Nobody` is not a thread. For the primitives:
sizes are naturals other than 0, an output element of `map` is a whole number of times as large as
an input element and divides the block, the flags of the sieve fill a block in pairs; and the
jobs given every small sequence are not empty and call what takes elements (`JobsAssumption`).

### Only model-checked

* All liveness: `BlockedCallsEnd` and the liveness parts of `ClosableQueue`, `ChunkStream` and
  `BlockStore`, `RoundEnds`, `AllocProgress`, `PushEnds`, `WriteEnds`, `CleanUpEnds`, `RunEnds`. The
  prover has neither fairness nor `ENABLED`.
* What the primitives compute (`ImplementsCall`, `ChecksPass`, `VerifiersPass`): values defined by
  folds and recursive functions over sequences of any length. The library's induction theorems take
  an operator as parameter, which no installed prover can instantiate; an induction by way of a
  smallest number or subset is the way around, as for the sums of `OrderedFileWriter` and the
  lengths above, and has not been attempted for these values.
* `RandomReadExact`, about the reads at random positions: no proof was attempted. Without its
  bound on the size of a segment it is false, see Findings.

## What is not modelled

* Failing and short transfers, except for failed writes in
  `UnorderedFileWriter`: a failed read or `writev` is only logged (`SYSCALL`), and its buffer
  handed out or recycled as if it had succeeded. For the readers the control is the same, but what
  a buffer holds is then not what its label says (`LabelsMatch` takes reads to succeed). Short
  transfers are not noticed by the code.
* `allow_expand`, `skip_write` and the phase-2 alternatives `SimplePhase2` and
  `QueuePhase2`: switches and functions that no caller uses.
* parlay's scheduler: a `parallel_for` is a set of fair threads that are joined.
* Freeing memory, except where a buffer's owner matters (`ReaderAllocator`, the
  writers' data, the pipeline of phase 2).
* Map in place, which `sequence.cpp` uses: it hands pointers into the reader's pool
  to `free` (`map.h:35`, `map.h:43`; `externalSeq.h:81` says "I get a crash in place"),
  which has no defined behaviour to model. Map out of place is modelled.
* Calls on the files that filter and scan wrote: `externalSeq` finds them again
  without their markers and the next call would read the padding. The only program that makes such
  a call, `legacyDemo` (`external_main.cpp:1029-1030`), is compiled out.
* Output files that are there before: the writers open them without truncating.
* The `ReadFileOnce` with a size (`file_utils.cpp:180`), which nothing calls and which
  reads one page whatever it is asked for.
* The order of completion within one parallel read of a file's blocks is in
  `UnorderedFileReader`; `FileSequences` takes any order.
* Scans and flatten in memory, arrays and bit vectors (`Plaidlay/flatten.h`,
  `plaidlay.h`, the first part of `NaiveExternalScan.h`): loops over disjoint blocks,
  without state to be in a wrong order.
* Earlier versions (`externalScan.h`, `filter.h`, `documented_filter.h`, `old_filter.h`,
  `plaidlay_main.cpp`, the shuffle directly in `Plaidlay/`) and drafts
  (`kth_smallest.h`): they do not compile, are commented out, or are replaced by
  modelled files.
* The ray tracer, the vendored STREAM benchmark, the scripts, and benchmarks that
  time plain transfers: no logic of the library's own.

## Plan

Done: the queue with its proofs; readers, allocator and writers with their
abstract specifications; scatter-gather; the primitives over chunks with their
tests; the primitives over files, sample sort and permutation with their programs.

Nothing else in the repository is both built and concurrent. What could still be
added: the block scan and flatten in memory, as operators checked against their
definitions.

Proved: the safety properties of the seven modules of the I/O layer and of
scatter-gather, the safety part of their refinements, and that the primitives over
chunks stay within their output. To prove next, as sizes and lengths are known: that
what was pushed for a header are the elements it stands for, the first step
towards `ImplementsCall`.
