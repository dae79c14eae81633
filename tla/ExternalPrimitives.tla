------------------------- MODULE ExternalPrimitives --------------------------
(***************************************************************************)
(* The Plaidlay primitives over an External_Sequence, a list of headers of *)
(* chunks on disk: ExternalIota and its copies BoolCreate and the one of   *)
(* the find_if benchmark, ExternalFilter and ExternalMap, each by hand and *)
(* on the engine ExternalTransform, ExternalReduce, find_if, the sieve of  *)
(* primes and the random shuffle.  A job is a list of calls, each of the   *)
(* sequence that the one before returned.                                  *)
(*                                                                         *)
(* All but reduce and shuffle go through the chunks in batches: NUM_SSDS   *)
(* parallel tasks make or poll a chunk each and are joined.  A task of map *)
(* and of the engine takes slots of the output and places in files as it   *)
(* goes; the others take a slot, and places are taken and blocks pushed    *)
(* after the join.  In the end the writer is waited for and the headers    *)
(* are sorted by their index.                                              *)
(*                                                                         *)
(* The reader is taken as ChunkStream specifies it, and the writer as      *)
(* BlockStore does: what was pushed is on disk when Wait returns.  Writes  *)
(* are taken to succeed.  Sizes and places count elements and blocks.      *)
(***************************************************************************)
EXTENDS Integers, Sequences, FiniteSets, SequencesExt, Functions, TLC

CONSTANTS
    NumSSDs,        \* NUM_SSDS: tasks in a batch, and files
    ChunkSize,      \* elements of type T in a block
    FlagsPerChunk,  \* flags of the sieve in a block
    Fanout,         \* sizeof(R) / sizeof(T) of map
    PageSize,       \* elements in O_DIRECT_MULTIPLE
    BucketSize,     \* elements in the 128 MB a bucket of shuffle is to have
    MainMemory,     \* elements in MAIN_MEMORY_SIZE
    ScatterBudget   \* elements in SHUFFLE_SCATTER_BUDGET

ASSUME SizesAssumption ==
    /\ NumSSDs \in Nat \ {0} /\ Fanout \in Nat \ {0}
    /\ ChunkSize \in Nat \ {0} /\ ChunkSize % Fanout = 0
    /\ {PageSize, BucketSize, MainMemory, ScatterBudget} \subseteq Nat \ {0}
    /\ FlagsPerChunk \in Nat /\ FlagsPerChunk > 2 /\ FlagsPerChunk % 2 = 0

Tasks == 0..(NumSSDs - 1)
Files == 0..(NumSSDs - 1)
OutCap == ChunkSize \div Fanout
CeilDiv(a, b) == (a + b - 1) \div b
MinOf(set) == CHOOSE x \in set : \A y \in set : x <= y
Total(counts) ==
    LET sum[k \in 0..Len(counts)] == IF k = 0 THEN 0 ELSE sum[k - 1] + counts[k]
    IN  sum[Len(counts)]
MaxOf(set) == CHOOSE x \in set : \A y \in set : x >= y

\* The number in place k of a set of numbers.
Kth(set, k) == CHOOSE x \in set : Cardinality({y \in set : y < x}) = k - 1

VARIABLES
    job,            \* the calls still to make, the one under way first
    source,         \* the sequence it is called with: header and block of a chunk
    kept,           \* the elements that satisfy the predicate
    phase,          \* "begins", "parallel", "joined" or "returned"
    unread,         \* the chunks the reader has not handed out
    batch,          \* read_count or write_count
    pc,             \* per task
    chunk,          \* per task: the chunk in hand
    blocks,         \* per task of map: the blocks still to emit
    slot_for,       \* per task: its slot, or -1
    base,           \* per task of map: the place it reserved, or -1
    buffer,         \* per task of the others: the block it will push
    counter,        \* the slots taken in this batch, or by map in all
    file_offsets,
    headers,        \* the output array
    pushed,         \* the blocks given to the writer
    flags,          \* per task of find_if: a hit, or the length
    least,          \* find_if: a
    buf,            \* shuffle, per worker: the elements it holds for each bucket
    produced,       \* shuffle, per worker: the headers of its blocks of each bucket
    data,           \* shuffle, per bucket: its next slot, the blocks and elements left
    acc,            \* per worker of reduce
    value           \* what the call returned

arguments == <<job, source, kept>>
task == <<pc, chunk, blocks, slot_for, base, buffer>>
output == <<counter, file_offsets, headers, pushed>>
search == <<flags, least>>
shuffling == <<buf, produced, data>>
vars == <<arguments, phase, unread, batch, task, output, search, shuffling, acc,
          value>>

Op == job[1]
NumChunks == Len(source)
Chunks == 1..NumChunks
Concat(seqs) == FlattenSeq(seqs)

\* What the reader hands out of a chunk: ptr and size.
ElementsOf(ch) == SubSeq(source[ch].block, 1, source[ch].used)
Input == Concat([ch \in Chunks |-> ElementsOf(ch)])
Length == Len(Input)

\* The elements in a block, of what a call reads or generates.
PerChunk == IF Op \in {"bool", "sieve"} THEN FlagsPerChunk ELSE ChunkSize
Whole == \A ch \in 1..(NumChunks - 1) : source[ch].used = PerChunk

\* ceil(number of chunks / NUM_SSDS)
ExpectedReads == CeilDiv(NumChunks, NumSSDs)

\* What memory that was not written holds.
Pad == -99
Padded(seq, size) == [j \in 1..size |-> IF j <= Len(seq) THEN seq[j] ELSE Pad]

NoHeader == [index |-> 0, file |-> -1, at |-> -1, used |-> 0]
PerTask(x) == [i \in Tasks |-> x]

Init ==
    /\ phase = "begins"
    /\ unread = {} /\ batch = 0
    /\ pc = PerTask("polls") /\ chunk = PerTask(0)
    /\ blocks = PerTask(<<>>) /\ slot_for = PerTask(-1)
    /\ base = PerTask(NoHeader) /\ buffer = PerTask(<<>>)
    /\ counter = 0 /\ file_offsets = [f \in Files |-> 0]
    /\ headers = <<>> /\ pushed = {}
    /\ flags = PerTask(0) /\ least = 0
    /\ buf = PerTask(<<>>) /\ produced = PerTask(<<>>) /\ data = <<>>
    /\ acc = PerTask(<<>>) /\ value = <<>>

-----------------------------------------------------------------------------
(* The start of a call: its reader, its writer and its output array.       *)

Begin(capacity, polled) ==
    /\ phase = "begins"
    /\ phase' = "parallel"
    /\ unread' = polled
    /\ headers' = [s \in 0..(capacity - 1) |-> NoHeader]
    /\ UNCHANGED <<arguments, batch, task, counter, file_offsets, pushed, acc, value>>

\* The array is passed to iota, of the size its comment asks for.
ChunksFor(n) == CeilDiv(n, PerChunk)
BeginAll == Begin(ChunksFor(Length), {}) /\ UNCHANGED <<search, shuffling>>
BeginIota == Op = "iota" /\ BeginAll
BeginFlags == Op = "bool" /\ BeginAll
BeginWriteIota == Op = "write_iota" /\ BeginAll

BeginFilter == Op = "filter" /\ Begin(NumChunks, Chunks) /\ UNCHANGED <<search, shuffling>>
BeginSieve == Op = "sieve" /\ Begin(NumChunks, Chunks) /\ UNCHANGED <<search, shuffling>>

\* Map's output array is sized for the most blocks a chunk can make.
BeginMap == Op = "map" /\ Begin(NumChunks * Fanout, Chunks) /\ UNCHANGED <<search, shuffling>>
MaxOutPerInput == IF Op = "engine_map" THEN Fanout ELSE 1
BeginTransform ==
    /\ Op \in {"engine_map", "engine_filter"}
    /\ Begin(NumChunks * MaxOutPerInput, Chunks)
    /\ UNCHANGED <<search, shuffling>>

BeginReduce == Op = "reduce" /\ Begin(0, Chunks) /\ UNCHANGED <<search, shuffling>>

\* The length stands for "not found".
BeginFind ==
    /\ Op = "find_if"
    /\ Begin(0, Chunks)
    /\ flags' = PerTask(Length)
    /\ least' = Length
    /\ UNCHANGED shuffling

-----------------------------------------------------------------------------
(* One batch                                                               *)

Goto(i, place) == pc' = [pc EXCEPT ![i] = place]

\* The batch loop looks at its counter before each batch.
InBatch == phase = "parallel" /\ batch < ExpectedReads

\* Poll, which may return any chunk that was not returned yet.
Poll(i) ==
    /\ InBatch
    /\ Op \in {"filter", "sieve", "find_if"}
    /\ pc[i] = "polls"
    /\ \E ch \in unread :
         /\ unread' = unread \ {ch}
         /\ chunk' = [chunk EXCEPT ![i] = ch]
    /\ Goto(i, Op)
    /\ UNCHANGED <<arguments, phase, batch, blocks, slot_for, base, buffer, output,
                   search, shuffling, acc, value>>

\* The reader has no chunk left for this task.
PollEnd(i) ==
    /\ InBatch
    /\ Op \notin {"iota", "bool", "write_iota", "reduce"}
    /\ pc[i] = "polls"
    /\ unread = {}
    /\ Goto(i, "done")
    /\ UNCHANGED <<arguments, phase, unread, batch, chunk, blocks, slot_for, base,
                   buffer, output, search, shuffling, acc, value>>

\* The output array is filled batch by batch.
SlotOfBatch(slot) == batch * NumSSDs + slot

\* A block for the output, a random file for it, and a slot for its header,
\* whose begin_address stays open.
FillSlot(i, index, block, used) ==
    /\ buffer' = [buffer EXCEPT ![i] = block]
    /\ slot_for' = [slot_for EXCEPT ![i] = SlotOfBatch(counter)]
    /\ counter' = counter + 1
    /\ \E f \in Files :
         headers' = [headers EXCEPT ![SlotOfBatch(counter)] =
                        [index |-> index, file |-> f, at |-> -1, used |-> used]]
    /\ Goto(i, "done")
    /\ UNCHANGED <<arguments, phase, unread, batch, chunk, blocks, base, file_offsets,
                   pushed, search, shuffling, acc, value>>

\* Mutant: the last chunk is taken to be full.
ValidFull(global_chunk) == PerChunk

\* Of n elements, those in a chunk: min(buffer_size, n - begin_val).
Valid(global_chunk) == MinOf({PerChunk, Length - global_chunk * PerChunk})

\* A sequence of numbers, or of flags that are all set.
ValueAt(position) == IF Op = "bool" THEN 1 ELSE position

\* Without a reader: the task makes chunk number batch * NUM_SSDS + i, which in
\* the last batch may be one too many.
Generate(i, call) ==
    LET global_chunk == batch * NumSSDs + i
        begin_val == global_chunk * PerChunk
    IN  /\ Op = call
        /\ InBatch
        /\ pc[i] = "polls"
        /\ IF global_chunk >= NumChunks
           THEN /\ Goto(i, "done")
                /\ UNCHANGED <<arguments, phase, unread, batch, chunk, blocks, slot_for,
                               base, buffer, output, search, shuffling, acc, value>>
           ELSE FillSlot(i, global_chunk,
                         [k \in 1..PerChunk |-> ValueAt(begin_val + k - 1)],
                         Valid(global_chunk))

Iota(i) == Generate(i, "iota")
BoolCreate(i) == Generate(i, "bool")
WriteIota(i) == Generate(i, "write_iota")

Hits(ch) == {j \in 1..source[ch].used : source[ch].block[j] \in kept}
Survivors(ch) == [k \in 1..Cardinality(Hits(ch)) |-> source[ch].block[Kth(Hits(ch), k)]]

Filter(i) ==
    LET survivors == Survivors(chunk[i])
    IN  /\ pc[i] = "filter"
        /\ FillSlot(i, source[chunk[i]].index, Padded(survivors, ChunkSize), Len(survivors))

-----------------------------------------------------------------------------
(* The sieve: element k of the flags says whether k is prime, up to n.     *)

MaxNumber == Length - 1
SqrtN == CHOOSE s \in 0..MaxNumber : s * s <= MaxNumber /\ (s + 1) * (s + 1) > MaxNumber

\* The primes up to m, by crossing off the multiples of each.
BaseSieve(m) ==
    LET Cross(is_prime, p) ==
            IF p * p <= m /\ p \in is_prime
            THEN {k \in is_prime : ~(k >= p * p /\ k % p = 0)} ELSE is_prime
    IN  FoldLeft(Cross, 2..m, [j \in 1..(m - 1) |-> j + 1])

\* The numbers of chunk ch that prime p crosses off: from p * p, or the first
\* multiple in the chunk, on; of an odd prime, odd multiples only.
CrossedBy(p, ch) ==
    LET chunk_start == source[ch].index * PerChunk
        first == CeilDiv(chunk_start, p) * p
        from == IF first < p * p THEN p * p ELSE first
        start == IF p # 2 /\ from % 2 = 0 THEN from + p ELSE from
        step == IF p = 2 THEN 2 ELSE 2 * p
    IN  {n \in chunk_start..(chunk_start + source[ch].used - 1) :
            n >= start /\ (n - start) % step = 0}

\* Number 2, then what odd numbers are left.
PrimesIn(ch) ==
    LET chunk_start == source[ch].index * PerChunk
        crossed == {0, 1} \cup UNION {CrossedBy(p, ch) : p \in BaseSieve(SqrtN)}
        Flag(n) == source[ch].block[n - chunk_start + 1] = 1 /\ n \notin crossed
        numbers == [k \in 1..source[ch].used |-> chunk_start + k - 1]
    IN  (IF chunk_start = 0 /\ source[ch].used > 2 /\ Flag(2) THEN <<2>> ELSE <<>>)
        \o SelectSeq(numbers, LAMBDA n : n % 2 = 1 /\ Flag(n))

Sieve(i) ==
    LET out == PrimesIn(chunk[i])
    IN  /\ pc[i] = "sieve"
        /\ FillSlot(i, source[chunk[i]].index, Padded(out, ChunkSize), Len(out))

-----------------------------------------------------------------------------
(* find_if: the first hit in the chunk, placed as if all chunks were full. *)

Search(i) ==
    LET ch == chunk[i]
    IN  /\ pc[i] = "find_if"
        /\ flags' = [flags EXCEPT
                        ![i] = IF Hits(ch) = {} THEN @
                               ELSE source[ch].index * ChunkSize + MinOf(Hits(ch)) - 1]
        /\ Goto(i, "done")
        /\ UNCHANGED <<arguments, phase, unread, batch, chunk, blocks, slot_for,
                       base, buffer, output, least, shuffling, acc, value>>

-----------------------------------------------------------------------------
(* Map: a chunk makes up to Fanout blocks of OutCap elements, an empty one *)
(* an empty block.                                                         *)

NumSub(size) == IF size = 0 THEN 1 ELSE CeilDiv(size, OutCap)

\* Mutant: sub-blocks of neighbouring chunks share an index.
SubIndexUnscaled(index, s) == index + s

SubIndex(index, s) == index * Fanout + s

\* Sub-block s: the images of the elements from lo to hi.
BlockOf(ch, s) ==
    LET lo == s * OutCap
        hi == MinOf({source[ch].used, (s + 1) * OutCap})
    IN  [index |-> SubIndex(source[ch].index, s),
         content |-> [j \in 1..(hi - lo) |-> -(source[ch].block[lo + j] + 1)]]

MapBody(ch) == [s \in 1..NumSub(source[ch].used) |-> BlockOf(ch, s - 1)]

FilterBody(ch) == <<[index |-> source[ch].index, content |-> Survivors(ch)]>>

\* The slots and the places of a file are counters that tasks increment.
TakeSlot(i, next) ==
    /\ slot_for' = [slot_for EXCEPT ![i] = counter]
    /\ counter' = counter + 1
    /\ Goto(i, next)
    /\ UNCHANGED <<arguments, phase, unread, batch, chunk, blocks, base, buffer,
                   file_offsets, headers, pushed, search, shuffling, acc, value>>

\* Mutant: the place is read and not reserved.
AdvanceNot(f) == UNCHANGED file_offsets

\* fetch_add
Advance(f) == file_offsets' = [file_offsets EXCEPT ![f] = @ + 1]

\* A place in the file that a hash says, any file.
TakePlace(i, next) ==
    /\ \E f \in Files :
         /\ base' = [base EXCEPT
                        ![i] = [index |-> Head(blocks[i]).index, file |-> f,
                                at |-> file_offsets[f],
                                used |-> Len(Head(blocks[i]).content)]]
         /\ Advance(f)
    /\ Goto(i, next)
    /\ UNCHANGED <<arguments, phase, unread, batch, chunk, blocks, slot_for, buffer,
                   counter, headers, pushed, search, shuffling, acc, value>>

\* The elements of type R in a block of the output.
OutBlock ==
    CASE Op \in {"map", "engine_map"} -> OutCap
      [] Op = "bool" -> FlagsPerChunk
      [] OTHER -> ChunkSize

Block(h, content) == [file |-> h.file, at |-> h.at, content |-> content]

\* The header goes to the slot and the block, of full size, to the writer.
PushBlock(i) ==
    /\ headers' = IF slot_for[i] \in DOMAIN headers
                  THEN [headers EXCEPT ![slot_for[i]] = base[i]]
                  ELSE headers
    /\ pushed' = pushed \cup {Block(base[i], Padded(Head(blocks[i]).content, OutBlock))}
    /\ blocks' = [blocks EXCEPT ![i] = Tail(@)]
    /\ Goto(i, IF Len(blocks[i]) = 1 THEN "done" ELSE "emits")
    /\ UNCHANGED <<arguments, phase, unread, batch, chunk, slot_for, base, buffer,
                   counter, file_offsets, search, shuffling, acc, value>>

Body(ch) == IF Op = "engine_filter" THEN FilterBody(ch) ELSE MapBody(ch)

PollBody(i, call) ==
    /\ Op = call
    /\ InBatch
    /\ pc[i] = "polls"
    /\ \E ch \in unread :
         /\ unread' = unread \ {ch}
         /\ chunk' = [chunk EXCEPT ![i] = ch]
         /\ blocks' = [blocks EXCEPT ![i] = Body(ch)]
    /\ Goto(i, "emits")
    /\ UNCHANGED <<arguments, phase, batch, slot_for, base, buffer, output, search, shuffling,
                   acc, value>>

\* By hand: a place, then a slot.
MapPoll(i) == PollBody(i, "map")
MapPlace(i) == Op = "map" /\ pc[i] = "emits" /\ TakePlace(i, "slot")
MapSlot(i) == Op = "map" /\ pc[i] = "slot" /\ TakeSlot(i, "pushes")
MapPush(i) == Op = "map" /\ pc[i] = "pushes" /\ PushBlock(i)

\* The engine: emit takes a slot, then a place.
EngineMap(i) == PollBody(i, "engine_map")
EngineFilter(i) == PollBody(i, "engine_filter")
EmitSlot(i) == Op # "map" /\ pc[i] = "emits" /\ TakeSlot(i, "place")
EmitPlace(i) == Op # "map" /\ pc[i] = "place" /\ TakePlace(i, "pushes")
EmitPush(i) == Op # "map" /\ pc[i] = "pushes" /\ PushBlock(i)

-----------------------------------------------------------------------------
(* Between the batches                                                     *)

\* The end of parallel_for.
Join ==
    /\ InBatch
    /\ Op # "reduce"
    /\ \A i \in Tasks : pc[i] = "done"
    /\ phase' = "joined"
    /\ UNCHANGED <<arguments, unread, batch, task, output, search, shuffling, acc, value>>

FileOf(i) == headers[slot_for[i]].file
Filled == {i \in Tasks : slot_for[i] # -1}

\* The place of task i's buffer when tasks before it have taken theirs.
PlaceFor(i) ==
    file_offsets[FileOf(i)] + Cardinality({k \in Filled : k < i /\ FileOf(k) = FileOf(i)})

PlacesTaken ==
    file_offsets' = [f \in Files |->
                        file_offsets[f] + Cardinality({i \in Filled : FileOf(i) = f})]

NextBatch ==
    /\ phase = "joined"
    /\ phase' = "parallel"
    /\ batch' = batch + 1
    /\ pc' = PerTask("polls")
    /\ chunk' = PerTask(0)
    /\ slot_for' = PerTask(-1)
    /\ buffer' = PerTask(<<>>)

\* The buffers that were filled get their places and go to the writer; the
\* slots are counted anew.
PushBatch ==
    LET placed == [i \in Filled |-> [headers[slot_for[i]] EXCEPT !.at = PlaceFor(i)]]
    IN  /\ NextBatch
        /\ headers' = [s \in DOMAIN headers |->
                          IF \E i \in Filled : slot_for[i] = s
                          THEN placed[CHOOSE i \in Filled : slot_for[i] = s]
                          ELSE headers[s]]
        /\ pushed' = pushed \cup {Block(placed[i], buffer[i]) : i \in Filled}
        /\ PlacesTaken
        /\ counter' = 0
        /\ UNCHANGED <<arguments, unread, blocks, base, search, shuffling, acc, value>>

PushIota == Op = "iota" /\ PushBatch
PushFlags == Op = "bool" /\ PushBatch
PushWrittenIota == Op = "write_iota" /\ PushBatch
PushFiltered == Op = "filter" /\ PushBatch
PushPrimes == Op = "sieve" /\ PushBatch

BatchMapped ==
    /\ Op \in {"map", "engine_map", "engine_filter"}
    /\ NextBatch
    /\ UNCHANGED <<arguments, unread, blocks, base, output, search, shuffling, acc, value>>

BatchSearched ==
    /\ Op = "find_if"
    /\ NextBatch
    /\ least' = MinOf({least} \cup {flags[i] : i \in Tasks})
    /\ flags' = PerTask(Length)
    /\ UNCHANGED <<arguments, unread, blocks, base, output, shuffling, acc, value>>

-----------------------------------------------------------------------------
(* The end of a call                                                       *)

\* The full block that header h leads to.
BlockAt(h) ==
    LET found == {b \in pushed : b.file = h.file /\ b.at = h.at}
    IN  IF Cardinality(found) = 1 THEN (CHOOSE b \in found : TRUE).content
        ELSE Padded(<<>>, OutBlock)

ContentAt(h) == SubSeq(BlockAt(h), 1, h.used)

\* Place k has the header with k - 1 before it; equal ones stay in order.
SortedHeaders(size) ==
    LET slots == 0..(size - 1)
        Before(s) == {t \in slots : \/ headers[t].index < headers[s].index
                                    \/ headers[t].index = headers[s].index /\ t < s}
    IN  [k \in 1..size |-> headers[CHOOSE s \in slots : Cardinality(Before(s)) = k - 1]]

\* What is returned are the headers, and with them the elements they lead to.
ReturnSequence(result) ==
    /\ phase = "parallel"
    /\ ~InBatch
    /\ headers' = [s \in 0..(Len(result) - 1) |-> result[s + 1]]
    /\ value' = Concat([k \in DOMAIN result |-> ContentAt(result[k])])
    /\ phase' = "returned"
    /\ UNCHANGED <<arguments, unread, batch, task, counter, file_offsets, pushed, search,
                   shuffling, acc>>

ReturnIota == Op = "iota" /\ ReturnSequence(SortedHeaders(NumChunks))
ReturnFlags == Op = "bool" /\ ReturnSequence(SortedHeaders(NumChunks))
ReturnWrittenIota == Op = "write_iota" /\ ReturnSequence(SortedHeaders(NumChunks))
ReturnPrimes == Op = "sieve" /\ ReturnSequence(SortedHeaders(NumChunks))

\* The array is cut down to the chunks of all batches but the last, and those
\* of the last.
LastBatch == IF NumChunks % NumSSDs = 0 THEN NumSSDs ELSE NumChunks % NumSSDs
ReturnFiltered ==
    /\ Op = "filter"
    /\ ReturnSequence(SortedHeaders((ExpectedReads - 1) * NumSSDs + LastBatch))

\* The indexes have gaps: they are renumbered.
Renumbered(sorted) == [k \in DOMAIN sorted |-> [sorted[k] EXCEPT !.index = k - 1]]
ReturnMapped == Op = "map" /\ ReturnSequence(Renumbered(SortedHeaders(counter)))
ReturnTransformed ==
    /\ Op \in {"engine_map", "engine_filter"}
    /\ ReturnSequence(Renumbered(SortedHeaders(counter)))

ReturnPosition ==
    /\ phase = "parallel"
    /\ Op = "find_if"
    /\ ~InBatch
    /\ value' = <<least>>
    /\ phase' = "returned"
    /\ UNCHANGED <<arguments, unread, batch, task, output, search, shuffling, acc>>

\* The sequence a call returned is what the next call of the job is made with.
NextCall ==
    /\ phase = "returned"
    /\ Len(job) > 1
    /\ job' = Tail(job)
    /\ source' = [k \in 1..Cardinality(DOMAIN headers) |->
                    [index |-> headers[k - 1].index, used |-> headers[k - 1].used,
                     block |-> BlockAt(headers[k - 1])]]
    /\ UNCHANGED kept
    /\ phase' = "begins"
    /\ unread' = {} /\ batch' = 0
    /\ pc' = PerTask("polls") /\ chunk' = PerTask(0)
    /\ blocks' = PerTask(<<>>) /\ slot_for' = PerTask(-1)
    /\ base' = PerTask(NoHeader) /\ buffer' = PerTask(<<>>)
    /\ counter' = 0 /\ file_offsets' = [f \in Files |-> 0]
    /\ headers' = <<>> /\ pushed' = {}
    /\ value' = <<>>
    /\ UNCHANGED <<search, shuffling, acc>>

-----------------------------------------------------------------------------
(* Reduce: every worker drains the reader into an accumulator of its own;  *)
(* these are then combined in the order of the workers.  The operation is  *)
(* taken to be concatenation: any other is an image of it.                 *)

ReduceChunk(i) ==
    /\ phase = "parallel"
    /\ Op = "reduce"
    /\ pc[i] = "polls"
    /\ \E ch \in unread :
         /\ unread' = unread \ {ch}
         /\ acc' = [acc EXCEPT ![i] = @ \o ElementsOf(ch)]
    /\ UNCHANGED <<arguments, phase, batch, task, output, search, shuffling, value>>

ReduceEnd(i) ==
    /\ phase = "parallel"
    /\ Op = "reduce"
    /\ pc[i] = "polls"
    /\ unread = {}
    /\ Goto(i, "done")
    /\ UNCHANGED <<arguments, phase, unread, batch, chunk, blocks, slot_for, base,
                   buffer, output, search, shuffling, acc, value>>

ReturnReduced ==
    /\ phase = "parallel"
    /\ Op = "reduce"
    /\ \A i \in Tasks : pc[i] = "done"
    /\ value' = Concat([k \in 1..NumSSDs |-> acc[k - 1]])
    /\ phase' = "returned"
    /\ UNCHANGED <<arguments, unread, batch, task, output, search, shuffling, acc>>

-----------------------------------------------------------------------------
(* Shuffle: the workers route every element to a random bucket and write   *)
(* the buckets, in blocks of mixed origin, to files of their own; then     *)
(* each bucket is read, shuffled and written to its range of the output.   *)

\* Each bucket should fit in memory, and the buffers of all workers.
ShuffleBucketCount(total) ==
    LET min_buckets == MaxOf({1, (4 * NumSSDs * total) \div MainMemory})
        max_buckets == MaxOf({1, MinOf({total, total \div PageSize})})
        desired == MaxOf({MinOf({total \div BucketSize, max_buckets}), min_buckets})
        mem_cap == MaxOf({1, ScatterBudget \div (NumSSDs * ChunkSize)})
    IN  MaxOf({1, MinOf({desired, mem_cap})})

Buckets == DOMAIN buf[0]
TmpFile(f) == NumSSDs + f
EmptyBuckets == [b \in 0..(ShuffleBucketCount(Length) - 1) |-> <<>>]

BeginShuffle ==
    /\ phase = "begins"
    /\ Op = "shuffle"
    /\ \A ch \in Chunks : source[ch].index < NumChunks
    /\ phase' = IF Length = 0 THEN "returned" ELSE "scatters"
    /\ unread' = Chunks
    /\ buf' = PerTask(EmptyBuckets)
    /\ produced' = PerTask(EmptyBuckets)
    /\ UNCHANGED <<arguments, batch, task, output, search, data, acc, value>>

ScatterPoll(i) ==
    /\ phase = "scatters"
    /\ pc[i] = "polls"
    /\ IF unread = {}
       THEN Goto(i, "flushes") /\ UNCHANGED <<unread, buffer>>
       ELSE /\ \E ch \in unread :
                 /\ unread' = unread \ {ch}
                 /\ buffer' = [buffer EXCEPT ![i] = ElementsOf(ch)]
            /\ Goto(i, "scatters")
    /\ UNCHANGED <<arguments, phase, batch, chunk, blocks, slot_for, base, output, search,
                   shuffling, acc, value>>

\* A block of bucket b, tagged with the bucket, in a place of its own.
Flush(i, b, content) ==
    /\ \E f \in Files :
         LET h == [index |-> b, file |-> TmpFile(f), at |-> file_offsets[f],
                   used |-> Len(content)]
         IN  /\ produced' = [produced EXCEPT ![i][b] = Append(@, h)]
             /\ pushed' = pushed \cup {Block(h, Padded(content, ChunkSize))}
             /\ Advance(f)
    /\ buf' = [buf EXCEPT ![i][b] = <<>>]

\* The next element goes to any bucket, whose buffer is flushed when full.
Scatter(i) ==
    /\ pc[i] = "scatters"
    /\ IF buffer[i] = <<>>
       THEN Goto(i, "polls") /\ UNCHANGED <<buffer, buf, produced, pushed, file_offsets>>
       ELSE /\ \E b \in Buckets :
                 LET filled == Append(buf[i][b], Head(buffer[i]))
                 IN  IF Len(filled) = ChunkSize
                     THEN Flush(i, b, filled)
                     ELSE /\ buf' = [buf EXCEPT ![i][b] = filled]
                          /\ UNCHANGED <<produced, pushed, file_offsets>>
            /\ buffer' = [buffer EXCEPT ![i] = Tail(@)]
            /\ UNCHANGED pc
    /\ UNCHANGED <<arguments, phase, unread, batch, chunk, blocks, slot_for, base, counter,
                   headers, search, data, acc, value>>

FlushRest(i) ==
    /\ pc[i] = "flushes"
    /\ LET rest == {b \in Buckets : buf[i][b] # <<>>}
       IN  IF rest = {}
           THEN Goto(i, "done") /\ UNCHANGED <<buf, produced, pushed, file_offsets>>
           ELSE Flush(i, MinOf(rest), buf[i][MinOf(rest)]) /\ UNCHANGED pc
    /\ UNCHANGED <<arguments, phase, unread, batch, chunk, blocks, slot_for, base, buffer,
                   counter, headers, search, data, acc, value>>

BlocksOf(b) == Concat([k \in 1..NumSSDs |-> produced[k - 1][b]])

\* What is in a bucket is known once the writer is done; each has a range of
\* the output.
JoinScatter ==
    /\ phase = "scatters"
    /\ \A i \in Tasks : pc[i] = "done"
    /\ phase' = "gathers"
    /\ LET nb == [b \in Buckets |-> Total([k \in DOMAIN BlocksOf(b) |-> BlocksOf(b)[k].used])]
           ocount == [b \in Buckets |-> CeilDiv(nb[b], ChunkSize)]
           start == [b \in Buckets |-> Total([k \in 1..b |-> ocount[k - 1]])]
       IN  /\ headers' = [s \in 0..(Total([k \in 1..Cardinality(Buckets) |-> ocount[k - 1]]) - 1)
                            |-> NoHeader]
           /\ data' = [b \in Buckets |-> [slot |-> start[b], blocks |-> ocount[b],
                                          seq |-> <<>>]]
    /\ file_offsets' = [f \in Files |-> 0]
    /\ UNCHANGED <<arguments, unread, batch, task, counter, pushed, search, buf, produced,
                   acc, value>>

Shuffles(seq) == {[k \in DOMAIN seq |-> seq[p[k]]] : p \in Bijection(DOMAIN seq, DOMAIN seq)}

\* A bucket is read block by block and shuffled.
Gather(b) ==
    /\ data[b].blocks > 0 /\ data[b].seq = <<>>
    /\ \E seq \in Shuffles(Concat([k \in DOMAIN BlocksOf(b) |-> ContentAt(BlocksOf(b)[k])])) :
         data' = [data EXCEPT ![b].seq = seq]
    /\ UNCHANGED <<arguments, phase, unread, batch, task, output, search, buf, produced, acc,
                   value>>

\* Its blocks go to the slots of the bucket, one after another.
WriteBlock(b) ==
    /\ data[b].seq # <<>>
    /\ LET seq == data[b].seq
           cnt == MinOf({ChunkSize, Len(seq)})
       IN  /\ \E f \in Files :
                LET h == [index |-> data[b].slot, file |-> f, at |-> file_offsets[f],
                          used |-> cnt]
                IN  /\ headers' = [headers EXCEPT ![h.index] = h]
                    /\ pushed' = pushed \cup {Block(h, Padded(SubSeq(seq, 1, cnt), ChunkSize))}
                    /\ Advance(f)
           /\ data' = [data EXCEPT ![b] = [slot |-> @.slot + 1, blocks |-> @.blocks - 1,
                                          seq |-> SubSeq(seq, cnt + 1, Len(seq))]]
    /\ UNCHANGED <<arguments, phase, unread, batch, task, counter, search, buf, produced, acc,
                   value>>

\* The files of the buckets are removed; the headers are in order.
ReturnShuffled ==
    /\ phase = "gathers"
    /\ \A b \in Buckets : data[b].blocks = 0
    /\ value' = Concat([k \in 1..Cardinality(DOMAIN headers) |-> ContentAt(headers[k - 1])])
    /\ pushed' = {b \in pushed : b.file \in Files}
    /\ phase' = "returned"
    /\ UNCHANGED <<arguments, unread, batch, task, counter, file_offsets, headers, search,
                   shuffling, acc>>

-----------------------------------------------------------------------------
Task(i) ==
    \/ Iota(i) \/ BoolCreate(i) \/ WriteIota(i)
    \/ Poll(i) \/ PollEnd(i) \/ Filter(i) \/ Sieve(i) \/ Search(i)
    \/ MapPoll(i) \/ MapPlace(i) \/ MapSlot(i) \/ MapPush(i)
    \/ EngineMap(i) \/ EngineFilter(i) \/ EmitSlot(i) \/ EmitPlace(i) \/ EmitPush(i)
    \/ ReduceChunk(i) \/ ReduceEnd(i)
    \/ ScatterPoll(i) \/ Scatter(i) \/ FlushRest(i)

BucketTask == phase = "gathers" /\ \E b \in Buckets : Gather(b) \/ WriteBlock(b)

Caller ==
    \/ BeginIota \/ BeginFlags \/ BeginWriteIota \/ BeginFilter \/ BeginSieve
    \/ BeginMap \/ BeginTransform \/ BeginReduce \/ BeginFind \/ BeginShuffle
    \/ Join \/ BatchMapped \/ BatchSearched
    \/ PushIota \/ PushFlags \/ PushWrittenIota \/ PushFiltered \/ PushPrimes
    \/ ReturnIota \/ ReturnFlags \/ ReturnWrittenIota \/ ReturnPrimes
    \/ ReturnFiltered \/ ReturnMapped \/ ReturnTransformed
    \/ ReturnPosition \/ ReturnReduced \/ JoinScatter \/ ReturnShuffled
    \/ NextCall

Next ==
    \/ \E i \in Tasks : Task(i)
    \/ BucketTask
    \/ Caller
    \/ phase = "returned" /\ Len(job) = 1 /\ UNCHANGED vars

\* Tasks and caller run.
Fairness ==
    /\ WF_vars(Caller)
    /\ WF_vars(BucketTask)
    /\ \A i \in Tasks : WF_vars(Task(i))

-----------------------------------------------------------------------------
(* Properties                                                              *)

\* The output array, sized before anything is known of the output, is never
\* overrun, and no two blocks are pushed to one place
\* (external_engine.h lines 51-64 and 99, ExternalMap.h lines 72 and 108-116,
\* externalFilter.h lines 47, 178 and 213-215, primes.h lines 149 and 152-156,
\* Extern_random_shuffle.h lines 206-221 and 262-272).
OutputFits ==
    /\ \A i \in Tasks : slot_for[i] # -1 => slot_for[i] \in DOMAIN headers
    /\ LET used == {s \in DOMAIN headers : headers[s].at # -1}
       IN  /\ Cardinality(used) = Cardinality({b \in pushed : b.file \in Files})
           /\ Cardinality({<<headers[s].file, headers[s].at>> : s \in used})
                = Cardinality(used)

Call ==
    INSTANCE SequenceOps
        WITH input <- Input,
             whole <- Whole,
             done <- phase = "returned",
             value <- value

\* Whatever chunks the elements are in, and however tasks, slots, places and
\* files interleave, every call of a job ends and its value is that of the
\* elements in order: of reduce and shuffle, that of the elements in some order; of
\* find_if, if the chunks are full; of the sieve, the primes.  And what a call
\* returned the next one reads back.
ImplementsCall == Call!Spec

\* What the comment on find_if says: the logical index of the first occurrence
\* (extern_find_if.h line 37).
FindsFirst ==
    phase = "returned" /\ Op = "find_if" => value = <<Call!FirstIn(Input, kept)>>

=============================================================================
