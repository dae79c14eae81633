----------------------------- MODULE SampleSort ------------------------------
(***************************************************************************)
(* Sample sort and the random permutation, as calls on the files of a      *)
(* prefix: samples are read at random positions, the pivots among them     *)
(* split the elements into buckets, and each bucket is sorted into a file  *)
(* of the result.  The permutation assigns the elements to buckets at      *)
(* random and shuffles each.                                               *)
(*                                                                         *)
(* The reads at random positions are modelled down to the ring of each     *)
(* segment.  The scatter-gather is taken as ScatterGather and              *)
(* OrderedFileWriter show it: each element reaches its bucket once, and a  *)
(* bucket's file is padded to hold an end marker.                          *)
(***************************************************************************)
EXTENDS FileSequences

CONSTANTS
    NumBuffers,     \* NUM_BUFFERS
    RingEntries,    \* IO_URING_ENTRIES
    BucketSize,     \* elements in a bucket of sensible size, 128 MB
    MainMemory,     \* MAIN_MEMORY_SIZE
    Draws           \* outcomes of the random numbers that the benchmark draws

ASSUME SampleAssumption ==
    /\ RingEntries \in Nat \ {0} /\ NumBuffers \in Nat /\ NumBuffers >= RingEntries
    /\ BucketSize \in Nat \ {0} /\ MainMemory \in Nat \ {0}

VARIABLES
    rand,           \* the random number for each index
    requests,       \* the positions to read
    pivots,
    buckets         \* the elements assigned to each bucket

sampleVars == <<requests, pivots, buckets>>
sortVars == <<fileVars, rand, sampleVars>>

Length == Total([i \in DOMAIN infos |-> infos[i].true])

-----------------------------------------------------------------------------
(* RandomBatchRead: a segment of the positions for each worker             *)

SegmentSize == CeilDiv(Len(requests), Workers)
SegmentStart(s) == SegmentSize * (s - 1)
SegmentEnd(s) == Smaller(SegmentSize * s, Len(requests))

\* io_uring_queue_init makes a completion queue of twice the entries of the ring.
CQSize == 2 * RingEntries

\* prepared: reads not submitted yet; reading: those the kernel has; cq: the buffers
\* that the completions name, the one at position p in entry p % CQSize.
NewSegment(s) ==
    [pc |-> IF SegmentEnd(s) <= SegmentStart(s) THEN "done" ELSE "submits",
     i |-> SegmentStart(s), in_ring |-> 0, prepared |-> <<>>, reading |-> {},
     free |-> [b \in 1..NumBuffers |-> b],
     buffers |-> [b \in 1..NumBuffers |-> [offset |-> 0, page |-> <<>>]],
     cq |-> [c \in 0..(CQSize - 1) |-> 0], head |-> 0, tail |-> 0, results |-> <<>>]

\* Mutant: the position in the page is forgotten.
LocatePage(position) ==
    LET start == AlignDown(position)
        file == CHOOSE i \in DOMAIN infos :
                    /\ infos[i].before + infos[i].true > start
                    /\ \A j \in 1..(i - 1) : infos[j].before + infos[j].true <= start
    IN  [file |-> infos[file].name, at |-> start - infos[file].before, offset |-> 0]

\* The first file that ends behind the page of the position, and where to read it.
Locate(position) ==
    LET start == AlignDown(position)
        file == CHOOSE i \in DOMAIN infos :
                    /\ infos[i].before + infos[i].true > start
                    /\ \A j \in 1..(i - 1) : infos[j].before + infos[j].true <= start
    IN  [file |-> infos[file].name, at |-> start - infos[file].before,
         offset |-> position - start]

\* A segment goes on while positions are left or reads are in the ring.
GoesOn(seg, s) == seg.i < SegmentEnd(s) \/ seg.in_ring > 0

\* The segments share nothing but files that are not written, and are taken one
\* after the other.
Reads == phase \in {"reads", "samples"}
Turn(s) == Reads /\ \A r \in 1..(s - 1) : tasks[r].pc = "done"
SegmentStep(s, seg) ==
    /\ tasks' = [tasks EXCEPT ![s] = seg]
    /\ UNCHANGED <<ssd_list, disk, job, prefix, kept, phase, infos, unread, writes, results,
                   value, rand, sampleVars>>

\* Mutant: only full rings are submitted.
SubmittedRings(prepared, at_end) == (Len(prepared) \div RingEntries) * RingEntries

\* A ring is submitted when it is full, and what is left with the last position.
Submitted(prepared, at_end) ==
    IF at_end THEN Len(prepared) ELSE (Len(prepared) \div RingEntries) * RingEntries

\* As many reads as there are buffers are prepared, the buffers taken from the back.
SubmitReads(s) ==
    LET seg == tasks[s]
        count == Smaller(SegmentEnd(s) - seg.i, Len(seg.free))
        taken == [k \in 1..count |-> [request |-> seg.i + k,
                                     buffer |-> seg.free[Len(seg.free) - k + 1]]]
        SetOffset(buffers, read) ==
            [buffers EXCEPT ![read.buffer].offset = Locate(requests[read.request]).offset]
        prepared == seg.prepared \o taken
        submitted == Submitted(prepared, seg.i + count = SegmentEnd(s))
    IN  /\ Turn(s)
        /\ seg.pc = "submits"
        /\ SegmentStep(s,
             [seg EXCEPT
                !.i = @ + count,
                !.free = SubSeq(@, 1, Len(@) - count),
                !.buffers = FoldLeft(SetOffset, @, taken),
                !.reading = @ \cup ToSet(SubSeq(prepared, 1, submitted)),
                !.prepared = SubSeq(prepared, submitted + 1, Len(prepared)),
                !.in_ring = @ + submitted,
                !.pc = IF seg.in_ring + submitted > 0 THEN "waits" ELSE "submits"])

\* The kernel reads a page and enters the completion, if there is room; otherwise it
\* keeps it until there is.
CompleteRead(s) ==
    /\ Turn(s)
    /\ tasks[s].pc # "done"
    /\ tasks[s].tail - tasks[s].head < CQSize
    /\ \E read \in tasks[s].reading :
         LET from == Locate(requests[read.request])
         IN  SegmentStep(s, [tasks[s] EXCEPT
                 !.reading = @ \ {read},
                 !.buffers[read.buffer].page = ReadFileOnce(from.file, from.at),
                 !.cq[tasks[s].tail % CQSize] = read.buffer,
                 !.tail = @ + 1])

\* The ring and the buffers are gone, the results stay.
Freed(seg) == [seg EXCEPT !.pc = "done", !.free = <<>>, !.buffers = <<>>, !.cq = <<>>,
                          !.head = 0, !.tail = 0]

\* The entry is given back to the kernel ...
SeenRead(s) ==
    /\ Turn(s)
    /\ tasks[s].pc \in {"waits", "peeks"}
    /\ tasks[s].head < tasks[s].tail
    /\ SegmentStep(s, [tasks[s] EXCEPT !.head = @ + 1, !.in_ring = @ - 1, !.pc = "takes"])

\* ... and only then is its user data read, and the element taken from that buffer; the
\* kernel may have entered another completion there, once the queue was full.
TakeRead(s) ==
    LET seg == tasks[s]
        b == seg.cq[(seg.head - 1) % CQSize]
        next == [seg EXCEPT
                    !.free = Append(@, b),
                    !.results = Append(@, seg.buffers[b].page[seg.buffers[b].offset + 1])]
    IN  /\ Turn(s)
        /\ seg.pc = "takes"
        /\ SegmentStep(s, IF GoesOn(seg, s)
                          THEN [next EXCEPT !.pc = IF seg.in_ring > 0 THEN "peeks" ELSE "submits"]
                          ELSE Freed(next))

\* Nothing more has completed.
NothingToPeek(s) ==
    /\ Turn(s)
    /\ tasks[s].pc = "peeks"
    /\ tasks[s].head = tasks[s].tail
    /\ SegmentStep(s, [tasks[s] EXCEPT !.pc = "submits"])

\* The results of the segments, one after the other.
BatchResults == Concat([s \in DOMAIN tasks |-> tasks[s].results])

\* The call: every element of the files may be asked for, also more than once.
BeginReads(call, first_phase, positions) ==
    /\ phase = "begins"
    /\ Op = call
    /\ phase' = first_phase
    /\ ssd_list' = GetSSDList
    /\ infos' = GetFileInfo(FindFiles(prefix), FALSE)
    /\ UNCHANGED <<disk, job, prefix, kept, unread, writes, results, value, rand, pivots,
                   buckets>>
    /\ requests' = positions'
    /\ tasks' = [s \in 1..Workers |-> NewSegment(s)']

BeginRandomRead ==
    \E draws \in Draws :
        BeginReads("random_read", "reads", [k \in DOMAIN draws |-> draws[k] % Length])

ReturnRead ==
    /\ phase = "reads"
    /\ AllDone
    /\ value' = BatchResults
    /\ phase' = "returned"
    /\ UNCHANGED <<ssd_list, disk, job, prefix, kept, infos, unread, tasks, writes, results,
                   rand, sampleVars>>

-----------------------------------------------------------------------------
(* Samples and pivots                                                      *)

\* Of samples, for sorting, and of buckets, for the permutation.
GetSampleSize ==
    LET min_sample_size == Larger(1, (4 * Workers * Length) \div MainMemory)
        max_sample_size == Larger(1, Smaller(Length, Length \div Page))
    IN  Larger(Smaller(Length \div BucketSize, max_sample_size), min_sample_size)
GetBucketSize == GetSampleSize

SquareRoot(k) == CHOOSE r \in 0..k : r * r <= k /\ (r + 1) * (r + 1) > k
OversampleSize == Smaller(Length, GetSampleSize * SquareRoot(GetSampleSize))

BeginSort ==
    BeginReads("sort", "samples", [k \in 1..OversampleSize |-> rand[k] % Length])

\* The range of size_t and the size of an element, scaled down from 2^64.
SizeRange == 65536
ElementBytes == 8

\* The sample that each pivot is, counted from 0.  Differences below zero wrap around, and
\* so does the address of an element that far away.
PivotIndex(num_pivots, oversample_size) ==
    LET Ahead(i, remaining) ==
            Larger(1, ((oversample_size - i - remaining) % SizeRange) \div (remaining + 1))
        index[p \in 1..num_pivots] ==
            LET i == IF p = 1 THEN 0 ELSE index[p - 1] + 1
            IN  (i + Ahead(i, num_pivots - p + 1)) % SizeRange
    IN  [p \in 1..num_pivots |-> index[p] % (SizeRange \div ElementBytes)]

Sorted(seq) == SortSeq(seq, LAMBDA a, b : a < b)

\* What is behind the samples in their memory.
BehindSamples == {Garbage, 0, Length}

\* What is read just behind the samples is some number; farther away the program crashes,
\* which is no step here.
GetPivots ==
    /\ phase = "samples"
    /\ AllDone
    /\ \E samples \in {Sorted(BatchResults)}, num_pivots \in {GetSampleSize} :
       \E index \in {PivotIndex(num_pivots, Len(samples))}, behind \in BehindSamples :
         /\ index[num_pivots] <= Len(samples)
         /\ pivots' = Sorted([p \in 1..num_pivots |->
                                 IF index[p] < Len(samples) THEN samples[index[p] + 1]
                                 ELSE behind])
         /\ buckets' = [b \in 0..num_pivots |-> <<>>]
    /\ phase' = "assigns"
    /\ unread' = AllChunks(infos)
    /\ tasks' = [w \in 1..Workers |-> NewTask]
    /\ UNCHANGED <<ssd_list, disk, job, prefix, kept, infos, writes, results, value, rand,
                   requests>>

-----------------------------------------------------------------------------
(* Assigning the elements to buckets                                       *)

\* The number of pivots that are not above the element.
BinarySearch(t) == Cardinality({p \in DOMAIN pivots : pivots[p] <= t})

\* An element that several pivots are equal to goes to any of their buckets.
DeduplicatingAssigner(t, index) ==
    LET equal == {p \in DOMAIN pivots : pivots[p] = t}
        start == CHOOSE p \in equal : \A q \in equal : p <= q
    IN  IF Cardinality(equal) > 1 THEN (start - 1) + (rand[index] % Cardinality(equal))
        ELSE BinarySearch(t)

\* Any bucket but the last.
SimpleAssigner(t, index) == rand[index] % (Cardinality(DOMAIN buckets) - 1)

Assigner(t, index) ==
    IF Op = "sort" THEN DeduplicatingAssigner(t, index) ELSE SimpleAssigner(t, index)

\* The permutation has no samples.
BeginPermute ==
    /\ phase = "begins"
    /\ Op = "permute"
    /\ phase' = "assigns"
    /\ ssd_list' = GetSSDList
    /\ infos' = GetFileInfo(FindFiles(prefix), FALSE)
    /\ buckets' = [b \in 0..GetBucketSize' |-> <<>>]
    /\ unread' = AllChunks(infos')
    /\ tasks' = [w \in 1..Workers |-> NewTask]
    /\ UNCHANGED <<disk, job, prefix, kept, writes, results, value, rand, requests, pivots>>

\* A worker assigns the elements of a chunk.
AssignToBucket(w) ==
    /\ phase = "assigns"
    /\ tasks[w].pc = "polls"
    /\ \E ch \in unread :
         LET index_start == infos[ch.file].before + ch.index
             data == ElementsOf(ch)
             Into(b) == SelectSeq([j \in DOMAIN data |-> j],
                                  LAMBDA j : Assigner(data[j], index_start + j) = b)
         IN  /\ unread' = unread \ {ch}
             /\ buckets' = [b \in DOMAIN buckets |->
                               buckets[b] \o [k \in DOMAIN Into(b) |-> data[Into(b)[k]]]]
    /\ UNCHANGED <<ssd_list, disk, job, prefix, kept, phase, infos, tasks, writes, results,
                   value, rand, requests, pivots>>

\* Every worker has polled the end; a task for each bucket.
JoinAssigners ==
    /\ phase = "assigns"
    /\ unread = {}
    /\ phase' = "gathers"
    /\ tasks' = [t \in 1..Cardinality(DOMAIN buckets) |-> NewTask]
    /\ UNCHANGED <<ssd_list, disk, job, prefix, kept, infos, unread, writes, results, value,
                   rand, sampleVars>>

\* Orders that a shuffle may leave a bucket in.
Shuffled(seq) == {seq, Reverse(seq)}
Processed(seq) == IF Op = "sort" THEN {Sorted(seq)} ELSE Shuffled(seq)

BucketFileSize(n) == (n \div Page + 1) * Page

\* The elements of the bucket are sorted or shuffled, its padding written as it is.
ProcessBucket(t) ==
    LET n == Len(buckets[t - 1])
    IN  /\ phase = "gathers"
        /\ tasks[t].pc = "polls"
        /\ \E seq \in Processed(buckets[t - 1]) :
             disk' = disk @@ (GetFileName(prefix + 1, t - 1)
                                :> MakeFileEndMarker(seq, BucketFileSize(n), n))
        /\ tasks' = [tasks EXCEPT ![t].pc = "done"]
        /\ UNCHANGED <<ssd_list, job, prefix, kept, phase, infos, unread, writes, results, value,
                       rand, sampleVars>>

ReturnBuckets ==
    LET Written(t) == LET n == Len(buckets[t - 1])
                      IN  FileInfo(GetFileName(prefix + 1, t - 1), t - 1, n, BucketFileSize(n))
    IN  /\ phase = "gathers"
        /\ AllDone
        /\ results' = [t \in DOMAIN tasks |-> Written(t)]
        /\ value' = Concat([t \in DOMAIN tasks |->
                               SubSeq(disk[results'[t].name], 1, results'[t].true)])
        /\ phase' = "returned"
        /\ UNCHANGED <<ssd_list, disk, job, prefix, kept, infos, unread, tasks, writes, rand,
                       sampleVars>>

SortTask(t) ==
    \/ SubmitReads(t) \/ CompleteRead(t) \/ SeenRead(t) \/ TakeRead(t) \/ NothingToPeek(t)
    \/ AssignToBucket(t) \/ ProcessBucket(t)

SortCaller ==
    \/ BeginRandomRead \/ ReturnRead
    \/ BeginSort \/ GetPivots \/ BeginPermute \/ JoinAssigners \/ ReturnBuckets

-----------------------------------------------------------------------------
(* Properties                                                              *)

\* Every read that was prepared is in the ring, has given its result, or is due to be
\* submitted with later ones, and nothing is waited for that is not under way.
ReadsCounted(s) ==
    LET seg == tasks[s]
        taking == IF seg.pc = "takes" THEN 1 ELSE 0
    IN  /\ seg.in_ring = Cardinality(seg.reading) + (seg.tail - seg.head)
        /\ seg.pc # "done" =>
             seg.i - SegmentStart(s)
               = Len(seg.prepared) + seg.in_ring + taking + Len(seg.results)
        /\ seg.pc = "waits" => seg.in_ring > 0

\* The results are the elements at the positions of the segment.
ReadExactly(s) ==
    LET wanted == SubSeq(requests, SegmentStart(s) + 1, SegmentEnd(s))
    IN  Sorted(tasks[s].results) = Sorted([k \in DOMAIN wanted |-> Input[wanted[k] + 1]])

\* However often the buffers run out, in the middle of a ring too, and in whatever order
\* reads complete, no read is lost or counted twice, and a segment is done only with as many
\* results as it has positions.  If these are no more than the completion queue has
\* entries, the results are the elements at them; if they are more, an entry may
\* be reused too early, and no such thing is claimed (random_read.h lines 73-117).
RandomReadExact ==
    Reads => \A s \in DOMAIN tasks :
        LET size == Larger(0, SegmentEnd(s) - SegmentStart(s))
        IN  /\ ReadsCounted(s)
            /\ tasks[s].pc = "done" => Len(tasks[s].results) = size
            /\ tasks[s].pc = "done" /\ size <= CQSize => ReadExactly(s)

\* Every pivot is one of the samples, as the comment on GetPivots says
\* (sample_sort.h lines 33-39 and 66-68).
PivotsFromSamples ==
    phase = "samples" =>
        LET index == PivotIndex(GetSampleSize, OversampleSize)
        IN  \A p \in DOMAIN index : index[p] < OversampleSize

=============================================================================
