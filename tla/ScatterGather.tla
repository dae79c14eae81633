---------------------------- MODULE ScatterGather ----------------------------
(***************************************************************************)
(* scatter_gather_algorithms/scatter_gather.h, the two phases of Run.      *)
(*                                                                         *)
(* Phase 1: assigners poll chunks from the reader and move their elements  *)
(* into buffers of their own, one per bucket; full buffers, and in the end *)
(* partial ones, go to the bucketed writer, whose I/O threads write them.  *)
(* When assigners and I/O threads are joined, phase 2 (WorkerOnlyPhase2)   *)
(* reads, processes and writes one file per bucket: each worker keeps the  *)
(* read of one file, the processing of the one before and the write of the *)
(* one before that under way.                                              *)
(*                                                                         *)
(* Reader and writer are taken as specified: a stream that hands out each  *)
(* chunk once and then ends (ChunkStream), and files that hold what was    *)
(* written once the I/O threads are joined (OrderedFileWriter).            *)
(***************************************************************************)
EXTENDS Integers, FiniteSets

CONSTANTS
    NumBuckets,      \* config.bucketed_writer_config.num_buckets
    NumChunks,       \* the chunks of the input
    ChunkSize,       \* elements per chunk
    BufferSize,      \* elements per buffer of an assigner
    Assigners,       \* the threads in AssignToBucket
    Workers          \* the threads in WorkerOnlyPhase2

ASSUME SizesAssumption ==
    /\ NumBuckets \in Nat \ {0} /\ BufferSize \in Nat \ {0}
    /\ NumChunks \in Nat /\ ChunkSize \in Nat \ {0}
    /\ IsFiniteSet(Assigners) /\ Assigners # {}
    /\ IsFiniteSet(Workers) /\ Workers # {}

Buckets == 0..(NumBuckets - 1)
Chunks == 0..(NumChunks - 1)
ElementsOf(ch) == {ch * ChunkSize + i : i \in 0..(ChunkSize - 1)}
Elements == UNION {ElementsOf(ch) : ch \in Chunks}
NoFile == -1

VARIABLES
    assigned,        \* the function the caller passes: the bucket of an element
    phase,           \* 1, 2, and 3 when Run has returned
    unread,          \* the chunks the reader has not handed out
    assigner,        \* per assigner: "polls", "assigns", "flushes" or "done"
    chunk,           \* per assigner: the elements of its chunk still to assign
    buffer,          \* per assigner and bucket
    with_writer,     \* per bucket: the buffers the I/O threads hold
    intermediate,    \* per bucket: the contents of its file
    current_file,    \* the counter of phase 2
    pc,              \* per worker, as is all down to the rings
    previous, current, next,
    need_reap_read, need_submit_read, need_process, need_reap_write,
    need_submit_write,
    read_ring,       \* the files being read, and those read
    write_ring,      \* the files being written, and those written
    data,            \* per file: the state of the memory it was read into
    target,          \* per file: what the result file holds
    results          \* the files entered in the result

phase1 == <<assigned, unread, assigner, chunk, buffer, with_writer, intermediate>>
slots == <<previous, current, next>>
needs == <<need_reap_read, need_submit_read, need_process, need_reap_write,
           need_submit_write>>
memory == <<data, target, results>>
rings == <<read_ring, write_ring>>
phase2 == <<current_file, pc, slots, needs, memory, rings>>
vars == <<phase, phase1, phase2>>

Empty(state) == [state |-> state, content |-> {}]
NoRing == [submitted |-> {}, completed |-> {}]

Init ==
    /\ assigned \in [Elements -> Buckets]
    /\ phase = 1
    /\ unread = Chunks
    /\ assigner = [a \in Assigners |-> "polls"]
    /\ chunk = [a \in Assigners |-> {}]
    /\ buffer = [a \in Assigners |-> [b \in Buckets |-> {}]]
    /\ with_writer = [b \in Buckets |-> {}]
    /\ intermediate = [b \in Buckets |-> {}]
    /\ current_file = 0
    /\ pc = [w \in Workers |-> "top"]
    /\ previous = [w \in Workers |-> NoFile]
    /\ current = [w \in Workers |-> NoFile]
    /\ next = [w \in Workers |-> NoFile]
    /\ need_reap_read = [w \in Workers |-> FALSE]
    /\ need_submit_read = [w \in Workers |-> TRUE]
    /\ need_process = [w \in Workers |-> FALSE]
    /\ need_reap_write = [w \in Workers |-> FALSE]
    /\ need_submit_write = [w \in Workers |-> FALSE]
    /\ read_ring = [w \in Workers |-> NoRing]
    /\ write_ring = [w \in Workers |-> NoRing]
    /\ data = [f \in Buckets |-> Empty("unallocated")]
    /\ target = [f \in Buckets |-> Empty("none")]
    /\ results = {}

-----------------------------------------------------------------------------
(* AssignToBucket                                                          *)

PollChunk(a) ==
    /\ assigner[a] = "polls"
    /\ \E ch \in unread :
         /\ unread' = unread \ {ch}
         /\ chunk' = [chunk EXCEPT ![a] = ElementsOf(ch)]
    /\ assigner' = [assigner EXCEPT ![a] = "assigns"]
    /\ UNCHANGED <<phase, assigned, buffer, with_writer, intermediate, phase2>>

PollEnd(a) ==
    /\ assigner[a] = "polls"
    /\ unread = {}
    /\ assigner' = [assigner EXCEPT ![a] = "flushes"]
    /\ UNCHANGED <<phase, assigned, unread, chunk, buffer, with_writer,
                   intermediate, phase2>>

\* Mutant: the buffer given to the writer is also kept.
FlushAndKeep(a, b, full) ==
    /\ with_writer' = [with_writer EXCEPT ![b] = @ \cup {full}]
    /\ buffer' = [buffer EXCEPT ![a][b] = full]

\* Write hands the buffer over, and the assigner takes an empty one.
Flush(a, b, full) ==
    /\ with_writer' = [with_writer EXCEPT ![b] = @ \cup {full}]
    /\ buffer' = [buffer EXCEPT ![a][b] = {}]

\* The elements of a chunk, in order.
AssignElement(a) ==
    /\ assigner[a] = "assigns"
    /\ chunk[a] # {}
    /\ LET e == CHOOSE x \in chunk[a] : \A y \in chunk[a] : x <= y
           b == assigned[e]
           filled == buffer[a][b] \cup {e}
       IN  /\ IF Cardinality(filled) = BufferSize
              THEN Flush(a, b, filled)
              ELSE /\ buffer' = [buffer EXCEPT ![a][b] = filled]
                   /\ UNCHANGED with_writer
           /\ chunk' = [chunk EXCEPT ![a] = @ \ {e}]
    /\ UNCHANGED <<phase, assigned, unread, assigner, intermediate, phase2>>

ChunkDone(a) ==
    /\ assigner[a] = "assigns"
    /\ chunk[a] = {}
    /\ assigner' = [assigner EXCEPT ![a] = "polls"]
    /\ UNCHANGED <<phase, assigned, unread, chunk, buffer, with_writer,
                   intermediate, phase2>>

\* Partly full buffers go to the writer too.
FlushRest(a) ==
    /\ assigner[a] = "flushes"
    /\ \E b \in Buckets :
         /\ buffer[a][b] # {}
         /\ Flush(a, b, buffer[a][b])
    /\ UNCHANGED <<phase, assigned, unread, assigner, chunk, intermediate, phase2>>

AssignerDone(a) ==
    /\ assigner[a] = "flushes"
    /\ \A b \in Buckets : buffer[a][b] = {}
    /\ assigner' = [assigner EXCEPT ![a] = "done"]
    /\ UNCHANGED <<phase, assigned, unread, chunk, buffer, with_writer,
                   intermediate, phase2>>

WriteBuffer ==
    /\ \E b \in Buckets : \E full \in with_writer[b] :
         /\ with_writer' = [with_writer EXCEPT ![b] = @ \ {full}]
         /\ intermediate' = [intermediate EXCEPT ![b] = @ \cup full]
    /\ UNCHANGED <<phase, assigned, unread, assigner, chunk, buffer, phase2>>

\* par_do joins the assigners and the I/O threads.
Joined ==
    /\ \A a \in Assigners : assigner[a] = "done"
    /\ \A b \in Buckets : with_writer[b] = {}

BeginPhase2 ==
    /\ phase = 1
    /\ Joined
    /\ phase' = 2
    /\ UNCHANGED <<phase1, phase2>>

-----------------------------------------------------------------------------
(* WorkerOnlyPhase2, one pass of the loop from "top" to "top"              *)

Goto(w, place) == pc' = [pc EXCEPT ![w] = place]

\* Mutant: a worker leaves when there is nothing more to read.
GoesOnToRead(w) == need_submit_read[w]

GoesOn(w) == need_submit_read[w] \/ need_reap_write[w]

Exit(w) ==
    /\ phase = 2
    /\ pc[w] = "top"
    /\ ~GoesOn(w)
    /\ Goto(w, "exited")
    /\ UNCHANGED <<phase, phase1, current_file, slots, needs, memory, rings>>

Rotate(w) ==
    /\ previous' = [previous EXCEPT ![w] = current[w]]
    /\ current' = [current EXCEPT ![w] = next[w]]
    /\ UNCHANGED next

\* Waits for whichever completion comes first and takes it for its own.
ReapOne(ring, w) == ring' = [ring EXCEPT ![w].completed = {}]

ReapRead(w) ==
    /\ phase = 2
    /\ pc[w] = "top"
    /\ GoesOn(w)
    /\ Rotate(w)
    /\ IF need_reap_read[w]
       THEN /\ read_ring[w].completed # {}
            /\ ReapOne(read_ring, w)
       ELSE UNCHANGED read_ring
    /\ need_process' = [need_process EXCEPT ![w] = need_reap_read[w]]
    /\ Goto(w, "read")
    /\ UNCHANGED <<phase, phase1, current_file, need_reap_read, need_submit_read,
                   need_reap_write, need_submit_write, memory, write_ring>>

\* Mutant: the flag is set and never reset.
ReapNextTimeForever(w, reads) == need_reap_read[w] \/ reads

ReapNextTime(w, reads) == reads

SubmitRead(w) ==
    LET index == current_file
        reads == need_submit_read[w] /\ index < NumBuckets
    IN  /\ pc[w] = "read"
        /\ current_file' = current_file + 1
        /\ need_submit_read' = [need_submit_read EXCEPT ![w] = reads]
        /\ need_reap_read' = [need_reap_read EXCEPT ![w] = ReapNextTime(w, reads)]
        /\ IF reads
           THEN /\ next' = [next EXCEPT ![w] = index]
                /\ data' = [data EXCEPT ![index] = Empty("reading")]
                /\ read_ring' = [read_ring EXCEPT ![w].submitted = @ \cup {index}]
           ELSE UNCHANGED <<next, data, read_ring>>
        /\ Goto(w, "process")
        /\ UNCHANGED <<phase, phase1, previous, current, need_process,
                       need_reap_write, need_submit_write, target, results,
                       write_ring>>

\* Mutant: the file just asked for is processed.
ProcessedFileNext(w) == next[w]

ProcessedFile(w) == current[w]

Process(w) ==
    LET f == ProcessedFile(w)
    IN  /\ pc[w] = "process"
        /\ data' = IF need_process[w]
                   THEN [data EXCEPT
                            ![f].state = IF @ = "read" THEN "processed" ELSE "spoilt"]
                   ELSE data
        /\ need_submit_write' = [need_submit_write EXCEPT ![w] = need_process[w]]
        /\ Goto(w, "reap_write")
        /\ UNCHANGED <<phase, phase1, current_file, slots, need_reap_read,
                       need_submit_read, need_process, need_reap_write, target,
                       results, rings>>

ReapWrite(w) ==
    /\ pc[w] = "reap_write"
    /\ IF need_reap_write[w]
       THEN /\ write_ring[w].completed # {}
            /\ ReapOne(write_ring, w)
            /\ data' = [data EXCEPT ![previous[w]] =
                           Empty(IF @.state = "freed" THEN "spoilt" ELSE "freed")]
            /\ results' = results \cup {previous[w]}
       ELSE UNCHANGED <<write_ring, data, results>>
    /\ Goto(w, "write")
    /\ UNCHANGED <<phase, phase1, current_file, slots, needs, target, read_ring>>

SubmitWrite(w) ==
    /\ pc[w] = "write"
    /\ write_ring' = IF need_submit_write[w]
                     THEN [write_ring EXCEPT ![w].submitted = @ \cup {current[w]}]
                     ELSE write_ring
    /\ need_reap_write' = [need_reap_write EXCEPT ![w] = need_submit_write[w]]
    /\ Goto(w, "top")
    /\ UNCHANGED <<phase, phase1, current_file, slots, need_reap_read,
                   need_submit_read, need_process, need_submit_write, memory,
                   read_ring>>

Return ==
    /\ phase = 2
    /\ \A w \in Workers : pc[w] = "exited"
    /\ phase' = 3
    /\ UNCHANGED <<phase1, phase2>>

-----------------------------------------------------------------------------
(* The kernel                                                              *)

CompleteRead(w) ==
    /\ \E f \in read_ring[w].submitted :
         /\ read_ring' = [read_ring EXCEPT ![w].submitted = @ \ {f},
                                           ![w].completed = @ \cup {f}]
         /\ data' = [data EXCEPT ![f] = [state |-> "read",
                                         content |-> intermediate[f]]]
    /\ UNCHANGED <<phase, phase1, current_file, pc, slots, needs, target, results,
                   write_ring>>

CompleteWrite(w) ==
    /\ \E f \in write_ring[w].submitted :
         /\ write_ring' = [write_ring EXCEPT ![w].submitted = @ \ {f},
                                             ![w].completed = @ \cup {f}]
         /\ target' = [target EXCEPT ![f] = data[f]]
    /\ UNCHANGED <<phase, phase1, current_file, pc, slots, needs, data, results,
                   read_ring>>

Complete(w) == CompleteRead(w) \/ CompleteWrite(w)

-----------------------------------------------------------------------------
Assigner(a) ==
    \/ PollChunk(a) \/ PollEnd(a)
    \/ AssignElement(a) \/ ChunkDone(a)
    \/ FlushRest(a) \/ AssignerDone(a)

Worker(w) ==
    \/ Exit(w)
    \/ ReapRead(w) \/ SubmitRead(w) \/ Process(w) \/ ReapWrite(w) \/ SubmitWrite(w)

Next ==
    \/ \E a \in Assigners : Assigner(a)
    \/ WriteBuffer
    \/ BeginPhase2 \/ Return
    \/ \E w \in Workers : Worker(w) \/ Complete(w)
    \/ phase = 3 /\ UNCHANGED vars

\* Threads that can go on do; the reader, the I/O threads and the kernel get
\* their work done.
Spec ==
    /\ Init
    /\ [][Next]_vars
    /\ WF_vars(WriteBuffer) /\ WF_vars(BeginPhase2 \/ Return)
    /\ \A a \in Assigners : WF_vars(Assigner(a))
    /\ \A w \in Workers : WF_vars(Worker(w)) /\ WF_vars(Complete(w))

-----------------------------------------------------------------------------
(* Properties                                                              *)

\* Every variable holds a value of its type.
TypeOK ==
    LET Contents == [state : {"unallocated", "none", "reading", "read", "processed",
                              "freed", "spoilt"},
                     content : SUBSET Elements]
        Ring == [submitted : SUBSET Buckets, completed : SUBSET Buckets]
    IN  /\ assigned \in [Elements -> Buckets]
        /\ phase \in 1..3
        /\ unread \subseteq Chunks
        /\ assigner \in [Assigners -> {"polls", "assigns", "flushes", "done"}]
        /\ chunk \in [Assigners -> SUBSET Elements]
        /\ \A a \in Assigners : \A b \in Buckets :
             buffer[a][b] \subseteq Elements /\ Cardinality(buffer[a][b]) < BufferSize
        /\ \A b \in Buckets : /\ with_writer[b] \subseteq SUBSET Elements
                              /\ intermediate[b] \subseteq Elements
        /\ current_file \in Nat
        /\ pc \in [Workers -> {"top", "read", "process", "reap_write", "write",
                               "exited"}]
        /\ {previous, current, next} \subseteq [Workers -> Buckets \cup {NoFile}]
        /\ {need_reap_read, need_submit_read, need_process, need_reap_write,
            need_submit_write} \subseteq [Workers -> BOOLEAN]
        /\ {read_ring, write_ring} \subseteq [Workers -> Ring]
        /\ {data, target} \subseteq [Buckets -> Contents]
        /\ results \subseteq Buckets

\* In phase 1 an element is in one place: unread, in the chunk or a buffer of
\* one assigner, with the I/O threads, or in the file of its bucket
\* (scatter_gather.h lines 74-102).
ElementPlaces(e) ==
    Cardinality({ch \in unread : e \in ElementsOf(ch)})
    + Cardinality({a \in Assigners : e \in chunk[a]})
    + Cardinality({ab \in Assigners \X Buckets : e \in buffer[ab[1]][ab[2]]})
    + Cardinality({full \in UNION {with_writer[b] : b \in Buckets} : e \in full})
    + Cardinality({b \in Buckets : e \in intermediate[b]})

NothingLostOrTwice == \A e \in Elements : ElementPlaces(e) = 1

\* The memory of a file is processed after it is read and before it is written,
\* and freed once, after that; with up to three files in hand a worker never
\* takes one for another, and each ring belongs to one file at a time
\* (scatter_gather.h lines 228-294).
PipelineInStep ==
    /\ \A f \in Buckets :
         /\ data[f].state # "spoilt"
         /\ target[f].state \in {"none", "processed"}
    /\ \A w \in Workers :
         /\ \A f \in read_ring[w].submitted : data[f].state = "reading"
         /\ \A f \in write_ring[w].submitted : data[f].state = "processed"
         /\ Cardinality(read_ring[w].submitted \cup read_ring[w].completed) <= 1
         /\ Cardinality(write_ring[w].submitted \cup write_ring[w].completed) <= 1

\* When Run returns, every result file holds the elements assigned to its
\* bucket, processed, is entered in the result, and no memory is left
\* (scatter_gather.h lines 313-356).
ReturnMeansAllProcessed ==
    phase = 3 =>
        /\ results = Buckets
        /\ \A f \in Buckets :
             /\ target[f].state = "processed"
             /\ target[f].content = {e \in Elements : assigned[e] = f}
             /\ data[f].state = "freed"

\* Run returns (scatter_gather.h lines 74-78, 227 and 328-338).
RunEnds == <>(phase = 3)

=============================================================================
