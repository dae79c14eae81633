---------------------------- MODULE FileSequences ----------------------------
(***************************************************************************)
(* Map, reduce, filter and scan over the files of a prefix, and the        *)
(* sequences of files that externalSeq makes of them.  A job is a list of  *)
(* calls; each reads the files that the one before wrote.                  *)
(*                                                                         *)
(* Map and reduce let all workers poll one reader over all files.  Filter  *)
(* and scan have a task, a reader and a writer for each file, and put the  *)
(* chunks of the file back in order with a heap.  Scan goes through the    *)
(* files twice: for the total of each, and for the running totals.         *)
(*                                                                         *)
(* The reader is taken as ChunkStream specifies it, and the writers as     *)
(* BlockStore does: a block goes where it is asked to, or after the blocks *)
(* before it, and is on disk when Wait returns.  Writes are taken to       *)
(* succeed, the files written not to be there before, and map to write     *)
(* into memory of its own, as externalSeq asks it to.                      *)
(***************************************************************************)
EXTENDS FileUtils, TLC

CONSTANTS
    ReadSize,       \* READER_READ_SIZE
    BufferSize,     \* elements in a block of filter and scan
    Workers         \* parlay::num_workers()

ASSUME SequencesAssumption ==
    /\ ReadSize \in Nat \ {0} /\ ReadSize % Page = 0
    /\ BufferSize \in Nat \ {0} /\ BufferSize % Page = 0
    /\ Workers \in Nat \ {0}

VARIABLES
    job,            \* the calls still to make, the one under way first
    prefix,         \* the files it reads; it writes those of the next prefix
    kept,           \* the elements that satisfy the predicate of filter
    phase,          \* "begins", what the call does, or "returned"
    infos,          \* the files the call was given
    unread,         \* the chunks the reader has not handed out
    tasks,          \* the workers of map and reduce, the files of filter and scan
    writes,         \* map: the blocks given to the writer
    results,        \* the information on the files that filter or scan returns
    value           \* the elements returned

fileVars == <<ssd_list, disk, job, prefix, kept, phase, infos, unread, tasks, writes,
              results, value>>

Op == job[1]
Concat(seqs) ==
    LET joined[k \in 0..Len(seqs)] == IF k = 0 THEN <<>> ELSE joined[k - 1] \o seqs[k]
    IN  joined[Len(seqs)]
CeilDiv(a, b) == (a + b - 1) \div b
Smaller(a, b) == IF a <= b THEN a ELSE b
Larger(a, b) == IF a >= b THEN a ELSE b
Total(seq) ==
    LET sum[k \in 0..Len(seq)] == IF k = 0 THEN 0 ELSE sum[k - 1] + seq[k]
    IN  sum[Len(seq)]

\* What the files of the prefix hold, in the order of their numbers.
Input ==
    LET files == {name \in DOMAIN disk : name.prefix = prefix}
        held[k \in 0..Cardinality(files)] ==
            IF k = 0 THEN <<>>
            ELSE held[k - 1] \o disk[CHOOSE name \in files : name.number = k - 1]
    IN  held[Cardinality(files)]

\* Of file number i of the list, the chunks that are read.
ChunksOf(info, i) ==
    {[file |-> i, index |-> k * ReadSize] : k \in 0..(CeilDiv(info[i].size, ReadSize) - 1)}
AllChunks(info) == UNION {ChunksOf(info, i) : i \in DOMAIN info}

ElementsOf(ch) ==
    SubSeq(disk[infos[ch.file].name], ch.index + 1,
           Smaller(ch.index + ReadSize, infos[ch.file].size))

\* heap: the chunks that came too early; next: next_index; buffer: the block being
\* filled, of reduce the elements combined; pushed: the blocks before it.
NewTask == [pc |-> "polls", heap |-> {}, next |-> 0, total |-> 0, buffer |-> <<>>,
            pushed |-> <<>>]

FileInit ==
    /\ prefix = 0
    /\ phase = "begins"
    /\ infos = <<>> /\ unread = {} /\ tasks = <<>>
    /\ writes = {} /\ results = <<>> /\ value = <<>>

-----------------------------------------------------------------------------
(* A call begins with the files there are, each read in full.              *)

Begin(call, first_phase, per_file) ==
    /\ phase = "begins"
    /\ Op = call
    /\ phase' = first_phase
    /\ ssd_list' = GetSSDList
    /\ infos' = GetFileInfo(FindFiles(prefix), FALSE)
    /\ unread' = AllChunks(infos')
    /\ tasks' = [t \in 1..(IF per_file THEN Len(infos') ELSE Workers) |-> NewTask]
    /\ UNCHANGED <<disk, job, prefix, kept, writes, results, value>>

BeginMap == Begin("map", "maps", FALSE)
BeginReduce == Begin("reduce", "reduces", FALSE)
BeginFilter == Begin("filter", "filters", TRUE)
BeginScan == Begin("scan", "totals", TRUE)

AllDone == \A t \in DOMAIN tasks : tasks[t].pc = "done"

\* Poll finds the reader closed and empty.
PollEnd(w) ==
    /\ phase \in {"maps", "reduces"}
    /\ tasks[w].pc = "polls"
    /\ unread = {}
    /\ tasks' = [tasks EXCEPT ![w].pc = "done"]
    /\ UNCHANGED <<ssd_list, disk, job, prefix, kept, phase, infos, unread, writes, results,
                   value>>

-----------------------------------------------------------------------------
(* Map                                                                     *)

Image(e) == -(e + 1)

Images(ch) == [j \in DOMAIN ElementsOf(ch) |-> Image(ElementsOf(ch)[j])]

\* Mutant: the block is written as the next one of its file.
WriteNext(ch) ==
    [file |-> infos[ch.file].index, content |-> Images(ch),
     at |-> ReadSize * Cardinality({w \in writes : w.file = infos[ch.file].index})]

\* The images of a chunk, in memory of their own, go where the chunk was.
WriteOf(ch) == [file |-> infos[ch.file].index, content |-> Images(ch), at |-> ch.index]

\* The writer aborts at a file number it has no file for.
MapChunk(w) ==
    /\ phase = "maps"
    /\ tasks[w].pc = "polls"
    /\ \E ch \in unread :
         /\ infos[ch.file].index < Len(infos)
         /\ unread' = unread \ {ch}
         /\ writes' = writes \cup {WriteOf(ch)}
    /\ UNCHANGED <<ssd_list, disk, job, prefix, kept, phase, infos, tasks, results, value>>

\* A file of the result: what was written where.
Assembled(number) ==
    LET ws == {w \in writes : w.file = number}
        size == IF ws = {} THEN 0 ELSE Max({w.at + Len(w.content) : w \in ws})
        At(w, j) == w.at < j /\ j <= w.at + Len(w.content)
    IN  [j \in 1..size |-> IF \E w \in ws : At(w, j)
                           THEN LET w == CHOOSE w \in ws : At(w, j) IN w.content[j - w.at]
                           ELSE Garbage]

ReturnMapped ==
    LET content == [i \in DOMAIN infos |-> Assembled(i - 1)]
        names == [i \in DOMAIN infos |-> GetFileName(prefix + 1, i - 1)]
    IN  /\ phase = "maps"
        /\ AllDone
        /\ disk' = disk @@ [name \in ToSet(names) |-> content[name.number + 1]]
        /\ value' = Concat(content)
        /\ phase' = "returned"
        /\ UNCHANGED <<ssd_list, job, prefix, kept, infos, unread, tasks, writes, results>>

-----------------------------------------------------------------------------
(* Reduce: the operation is taken to be concatenation.                     *)

ReduceChunk(w) ==
    /\ phase = "reduces"
    /\ tasks[w].pc = "polls"
    /\ \E ch \in unread :
         /\ unread' = unread \ {ch}
         /\ tasks' = [tasks EXCEPT ![w].buffer = @ \o ElementsOf(ch)]
    /\ UNCHANGED <<ssd_list, disk, job, prefix, kept, phase, infos, writes, results, value>>

ReturnReduced ==
    /\ phase = "reduces"
    /\ AllDone
    /\ value' = Concat([w \in DOMAIN tasks |-> tasks[w].buffer])
    /\ phase' = "returned"
    /\ UNCHANGED <<ssd_list, disk, job, prefix, kept, infos, unread, tasks, writes, results>>

-----------------------------------------------------------------------------
(* Filter and scan: the heap gives the chunks back in order.               *)

\* Mutant: the chunks are taken as they come.
ReadyAtOnce(heap, next) == heap

\* The chunks at the top of the heap that follow each other from next on.
Ready(heap, next) ==
    {ch \in heap : {k \in next..ch.index : k % ReadSize = 0} \subseteq {d.index : d \in heap}}

InOrder(ready) ==
    LET order == Ascending({ch.index : ch \in ready})
    IN  Concat([k \in DOMAIN order |-> ElementsOf(CHOOSE ch \in ready : ch.index = order[k])])

\* Blocks that are full are pushed.
Emit(task, elements) ==
    LET all == task.buffer \o elements
        full == (Len(all) \div BufferSize) * BufferSize
    IN  [task EXCEPT !.pushed = @ \o SubSeq(all, 1, full),
                     !.buffer = SubSeq(all, full + 1, Len(all))]

FilterReady(task, elements) == Emit(task, SelectSeq(elements, LAMBDA e : e \in kept))
SumReady(task, elements) == [task EXCEPT !.total = @ + Total(elements)]
ScanReady(task, elements) ==
    [Emit(task, [k \in DOMAIN elements |-> task.total + Total(SubSeq(elements, 1, k - 1))])
        EXCEPT !.total = @ + Total(elements)]

\* A chunk of the file enters the heap, and what is in order leaves it.
PollInOrder(i, place) ==
    /\ phase = place
    /\ tasks[i].pc = "polls"
    /\ \E ch \in {c \in unread : c.file = i} :
         \E ready \in {Ready(tasks[i].heap \cup {ch}, tasks[i].next)} :
         \E elements \in {InOrder(ready)} :
         \E task \in {[tasks[i] EXCEPT !.heap = (@ \cup {ch}) \ ready,
                                      !.next = @ + Len(elements)]} :
           /\ unread' = unread \ {ch}
           /\ tasks' = [tasks EXCEPT
                           ![i] = CASE place = "filters" -> FilterReady(task, elements)
                                    [] place = "totals" -> SumReady(task, elements)
                                    [] place = "scans" -> ScanReady(task, elements)]
    /\ UNCHANGED <<ssd_list, disk, job, prefix, kept, phase, infos, writes, results, value>>

FilterChunk(i) == PollInOrder(i, "filters")
SumChunk(i) == PollInOrder(i, "totals")
ScanChunk(i) == PollInOrder(i, "scans")

\* No chunk of the file is left, in the reader or in the heap.
FileRead(i, place) ==
    /\ phase = place
    /\ tasks[i].pc = "polls"
    /\ {ch \in unread : ch.file = i} = {}
    /\ tasks[i].heap = {}

SumEnd(i) ==
    /\ FileRead(i, "totals")
    /\ tasks' = [tasks EXCEPT ![i].pc = "done"]
    /\ UNCHANGED <<ssd_list, disk, job, prefix, kept, phase, infos, unread, writes, results,
                   value>>

\* The last block is cut behind the marker and the writer is waited for.
WriteEnd(i, place) ==
    LET buffer_index == Len(tasks[i].buffer)
        end_size == AlignUp(buffer_index + 1)
        name == GetFileName(prefix + 1, i - 1)
        written == tasks[i].pushed \o MakeFileEndMarker(tasks[i].buffer, end_size, buffer_index)
    IN  /\ FileRead(i, place)
        /\ disk' = disk @@ (name :> written)
        /\ tasks' = [tasks EXCEPT ![i].pc = "done", ![i].pushed = written]
        /\ UNCHANGED <<ssd_list, job, prefix, kept, phase, infos, unread, writes, results,
                       value>>

FilterEnd(i) == WriteEnd(i, "filters")
ScanEnd(i) == WriteEnd(i, "scans")

\* The totals of the files before each are where its running total starts.
JoinTotals ==
    /\ phase = "totals"
    /\ AllDone
    /\ phase' = "scans"
    /\ unread' = AllChunks(infos)
    /\ tasks' = [i \in DOMAIN tasks |->
                    [NewTask EXCEPT !.total = Total([k \in 1..(i - 1) |-> tasks[k].total])]]
    /\ UNCHANGED <<ssd_list, disk, job, prefix, kept, infos, writes, results, value>>

\* What is returned of a file: filter counts its last block as full.
ResultOf(i) ==
    LET buffer_index == Len(tasks[i].buffer)
        blocks == Len(tasks[i].pushed) - AlignUp(buffer_index + 1)
    IN  FileInfo(GetFileName(prefix + 1, i - 1), infos[i].index, blocks + buffer_index,
                 blocks + (IF phase = "filters" THEN BufferSize ELSE AlignUp(buffer_index + 1)))

ReturnFiles(place) ==
    /\ phase = place
    /\ AllDone
    /\ results' = [i \in DOMAIN infos |-> ResultOf(i)]
    /\ value' = Concat([i \in DOMAIN infos |->
                           SubSeq(disk[results'[i].name], 1, results'[i].true)])
    /\ phase' = "returned"
    /\ UNCHANGED <<ssd_list, disk, job, prefix, kept, infos, unread, tasks, writes>>

ReturnFiltered == ReturnFiles("filters")
ReturnScanned == ReturnFiles("scans")

-----------------------------------------------------------------------------
\* The files written are those the next call of the job reads.
NextCall ==
    /\ phase = "returned"
    /\ Len(job) > 1
    /\ job' = Tail(job)
    /\ prefix' = prefix + 1
    /\ phase' = "begins"
    /\ infos' = <<>> /\ unread' = {} /\ tasks' = <<>>
    /\ writes' = {} /\ results' = <<>> /\ value' = <<>>
    /\ UNCHANGED <<ssd_list, disk, kept>>

FileTask(t) ==
    \/ MapChunk(t) \/ ReduceChunk(t) \/ PollEnd(t)
    \/ FilterChunk(t) \/ FilterEnd(t)
    \/ SumChunk(t) \/ SumEnd(t) \/ ScanChunk(t) \/ ScanEnd(t)

FileCaller ==
    \/ BeginMap \/ BeginReduce \/ BeginFilter \/ BeginScan
    \/ ReturnMapped \/ ReturnReduced \/ ReturnFiltered \/ JoinTotals \/ ReturnScanned
    \/ NextCall

-----------------------------------------------------------------------------
(* What a call promises                                                    *)

Call ==
    INSTANCE SequenceOps
        WITH input <- Input,
             whole <- TRUE,
             done <- phase = "returned",
             value <- value

=============================================================================
