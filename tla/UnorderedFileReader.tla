------------------------- MODULE UnorderedFileReader -------------------------
(***************************************************************************)
(* utils/unordered_file_reader.h: worker threads read the active chunks of *)
(* their files through one io_uring each and push them into a bounded      *)
(* buffer queue; consumers poll it.  The last worker to finish closes the  *)
(* queue.  A reader can be reset and started again.                        *)
(*                                                                         *)
(* The buffer queue is used at the level of ClosableQueue.  What consumers *)
(* can tell of it is which chunks it holds, so it is a set here; that no   *)
(* chunk can be pushed twice is a property (OnePlace).  A worker's own     *)
(* variables are read by nobody else: a step is what it does between two   *)
(* accesses to the queue, the ring, active_threads or is_open.             *)
(***************************************************************************)
EXTENDS Naturals, Sequences, FiniteSets

CONSTANTS
    NumThreads,      \* config.num_threads
    NumFiles,        \* length of the list given to PrepFiles
    NumChunks,       \* per file: how many chunks it has
    MaxRequests,     \* config.max_requests
    QueueSize,       \* config.buffer_queue_size
    Consumers,       \* the threads that call Poll
    MaxRounds,       \* bound of the model on the number of calls of Start
    EarlyDestroy     \* whether the owner may destroy a reader it has not drained

ASSUME SizesAssumption ==
    /\ NumThreads \in Nat \ {0}
    /\ NumFiles \in Nat
    /\ NumChunks \in [1..NumFiles -> Nat]
    /\ MaxRequests \in Nat \ {0}
    /\ QueueSize \in Nat \ {0}
    /\ MaxRounds \in Nat
ASSUME OwnerAssumption == EarlyDestroy \in BOOLEAN

Workers == 0..(NumThreads - 1)
Files == 1..NumFiles
Chunks == UNION {{f} \X (0..(NumChunks[f] - 1)) : f \in Files}

\* The files a worker gets: every NumThreads-th one.
FilesOf(w) == {f \in Files : (f - 1) % NumThreads = w}

VARIABLES
    round,           \* how often Start was called
    owner,           \* what the thread that owns the reader is doing
    active,          \* the chunks that active_chunks_per_file selects
    is_open,
    active_threads,
    pc,              \* per worker: where it is
    available_files, \* per worker: the deque of files with chunks to issue
    bytes_issued,    \* per file: the next chunk to consider
    chunks_completed,\* per file: active chunks that were reaped
    completed_files, \* per worker: the files that are completely read
    in_flight,       \* per worker: submitted reads the kernel is working on
    reapable,        \* per worker: reads whose completion waits in the ring
    queue,           \* the chunks in the buffer queue
    queue_open,
    got,             \* the chunks polled since Start
    consumer         \* per consumer: polling, told the end, or stopped

worker_vars == <<available_files, bytes_issued, chunks_completed, completed_files>>
vars == <<round, owner, active, is_open, active_threads, pc, worker_vars,
          in_flight, reapable, queue, queue_open, got, consumer>>

ActiveOf(f) == {ch \in active : ch[1] = f}
Outstanding(w) == in_flight[w] \cup reapable[w]
Aborted == \E w \in Workers : pc[w] = "aborted"

Init ==
    /\ round = 0
    /\ owner = "idle"
    /\ active = {}
    /\ is_open = TRUE
    /\ active_threads = 0
    /\ pc = [w \in Workers |-> "joined"]
    /\ available_files = [w \in Workers |-> <<>>]
    /\ bytes_issued = [f \in Files |-> 0]
    /\ chunks_completed = [f \in Files |-> 0]
    /\ completed_files = [w \in Workers |-> {}]
    /\ in_flight = [w \in Workers |-> {}]
    /\ reapable = [w \in Workers |-> {}]
    /\ queue = {}
    /\ queue_open = TRUE
    /\ got = {}
    /\ consumer = [c \in Consumers |-> "stopped"]

-----------------------------------------------------------------------------
(* The owner                                                               *)

\* Mutant: a file without active chunks waits for completions like any other.
NothingActiveIgnored(w, request) == {}

\* Files with no active chunk are complete before the first iteration.
NothingActive(w, request) ==
    {f \in FilesOf(w) : \A ch \in request : ch[1] # f}

\* In the order of the list.
InOrder(S) ==
    CHOOSE s \in [1..Cardinality(S) -> S] :
        \A i, j \in 1..Cardinality(S) : i < j => s[i] < s[j]

Start(request) ==
    /\ owner = "idle"
    /\ round < MaxRounds
    /\ round' = round + 1
    /\ owner' = "running"
    /\ active' = request
    /\ active_threads' = NumThreads
    /\ pc' = [w \in Workers |-> "test"]
    /\ completed_files' = [w \in Workers |-> NothingActive(w, request)]
    /\ available_files' =
         [w \in Workers |-> InOrder(FilesOf(w) \ NothingActive(w, request))]
    /\ bytes_issued' = [f \in Files |-> 0]
    /\ chunks_completed' = [f \in Files |-> 0]
    /\ got' = {}
    /\ consumer' = [c \in Consumers |-> "polling"]
    /\ UNCHANGED <<is_open, in_flight, reapable, queue, queue_open>>

ConsumersGone == \A c \in Consumers : consumer[c] # "polling"
WorkersGone == \A w \in Workers : pc[w] = "exited"

\* Reset first waits for the workers.
CallReset ==
    /\ owner = "running"
    /\ ConsumersGone
    /\ owner' = "resetting"
    /\ UNCHANGED <<round, active, is_open, active_threads, pc, worker_vars,
                   in_flight, reapable, queue, queue_open, got, consumer>>

\* The CHECK in Reopen aborts on a queue that is not drained.
Reset ==
    /\ owner = "resetting"
    /\ WorkersGone
    /\ queue = {}
    /\ owner' = "idle"
    /\ pc' = [w \in Workers |-> "joined"]
    /\ active_threads' = 0
    /\ is_open' = TRUE
    /\ queue_open' = TRUE
    /\ UNCHANGED <<round, active, worker_vars, in_flight, reapable, queue, got,
                   consumer>>

\* The destructor.
CallDestroy ==
    /\ owner = "running"
    /\ ConsumersGone
    /\ owner' = "destroying"
    /\ is_open' = FALSE
    /\ UNCHANGED <<round, active, active_threads, pc, worker_vars, in_flight,
                   reapable, queue, queue_open, got, consumer>>

Destroyed ==
    /\ owner = "destroying"
    /\ WorkersGone
    /\ owner' = "gone"
    /\ UNCHANGED <<round, active, is_open, active_threads, pc, worker_vars,
                   in_flight, reapable, queue, queue_open, got, consumer>>

-----------------------------------------------------------------------------
(* The workers                                                             *)

Goto(w, place) == pc' = [pc EXCEPT ![w] = place]

TestLoop(w) ==
    /\ pc[w] = "test"
    /\ IF completed_files[w] # FilesOf(w) /\ is_open
       THEN Goto(w, "reap")
       ELSE Goto(w, "cleanup")
    /\ UNCHANGED <<round, owner, active, is_open, active_threads, worker_vars,
                   in_flight, reapable, queue, queue_open, got, consumer>>

\* A completion is seen, its chunk pushed, its file and request accounted for.
\* Push waits while the queue is full.
Reap(w) ==
    /\ pc[w] = "reap"
    /\ Cardinality(queue) < QueueSize
    /\ \E ch \in reapable[w] :
         LET f == ch[1]
         IN  /\ queue' = queue \cup {ch}
             /\ reapable' = [reapable EXCEPT ![w] = @ \ {ch}]
             /\ chunks_completed' = [chunks_completed EXCEPT ![f] = @ + 1]
             /\ completed_files' =
                  IF chunks_completed'[f] = Cardinality(ActiveOf(f))
                  THEN [completed_files EXCEPT ![w] = @ \cup {f}]
                  ELSE completed_files
    /\ UNCHANGED <<round, owner, active, is_open, active_threads, pc,
                   available_files, bytes_issued, in_flight, queue_open, got,
                   consumer>>

NothingToReap(w) ==
    /\ pc[w] = "reap"
    /\ reapable[w] = {}
    /\ Goto(w, "submit")
    /\ UNCHANGED <<round, owner, active, is_open, active_threads, worker_vars,
                   in_flight, reapable, queue, queue_open, got, consumer>>

\* Mutants: the read is prepared after bytes_issued was advanced; the chunk at
\* bytes_issued is skipped.
AheadAfterIssue(f) == {<<f, bytes_issued[f] + 1>>}
AheadSkipping(f) == {ch \in ActiveOf(f) : ch[2] > bytes_issued[f]}

\* The active chunks of f that advance_to_active can still come to.
Ahead(f) == {ch \in ActiveOf(f) : ch[2] >= bytes_issued[f]}

\* The front file is advanced to its next active chunk.  The ring always has a
\* submission entry, since every one taken is submitted at once.
Submit(w) ==
    /\ pc[w] = "submit"
    /\ available_files[w] # <<>>
    /\ Cardinality(Outstanding(w)) < MaxRequests
    /\ LET f == Head(available_files[w])
           rest == Tail(available_files[w])
       IN  \/ /\ Ahead(f) = {}
              /\ available_files' = [available_files EXCEPT ![w] = rest]
              /\ bytes_issued' = [bytes_issued EXCEPT ![f] = NumChunks[f]]
              /\ UNCHANGED in_flight
           \/ \E ch \in Ahead(f) :
                /\ \A other \in Ahead(f) : ch[2] <= other[2]
                /\ in_flight' = [in_flight EXCEPT ![w] = @ \cup {ch}]
                /\ bytes_issued' = [bytes_issued EXCEPT ![f] = ch[2] + 1]
                /\ available_files' =
                     [available_files EXCEPT ![w] =
                        IF ch[2] + 1 < NumChunks[f] THEN Append(rest, f) ELSE rest]
    /\ UNCHANGED <<round, owner, active, is_open, active_threads, pc,
                   chunks_completed, completed_files, reapable, queue,
                   queue_open, got, consumer>>

NothingToSubmit(w) ==
    /\ pc[w] = "submit"
    /\ \/ available_files[w] = <<>>
       \/ Cardinality(Outstanding(w)) = MaxRequests
    /\ Goto(w, "test")
    /\ UNCHANGED <<round, owner, active, is_open, active_threads, worker_vars,
                   in_flight, reapable, queue, queue_open, got, consumer>>

\* The ring is gone; the CHECK on the completed files aborts the process.
Cleanup(w) ==
    /\ pc[w] = "cleanup"
    /\ in_flight' = [in_flight EXCEPT ![w] = {}]
    /\ reapable' = [reapable EXCEPT ![w] = {}]
    /\ IF completed_files[w] = FilesOf(w)
       THEN /\ active_threads' = active_threads - 1
            /\ Goto(w, "last")
       ELSE /\ UNCHANGED active_threads
            /\ Goto(w, "aborted")
    /\ UNCHANGED <<round, owner, active, is_open, worker_vars, queue,
                   queue_open, got, consumer>>

\* Mutant: a worker takes the value before its decrement for the one after.
LastTooEarly == active_threads <= 1

Last == active_threads = 0

\* active_threads is read again after it was decremented, so several workers
\* can find it at zero and close the queue.
CloseIfLast(w) ==
    /\ pc[w] = "last"
    /\ queue_open' = (queue_open /\ ~Last)
    /\ Goto(w, "exited")
    /\ UNCHANGED <<round, owner, active, is_open, active_threads, worker_vars,
                   in_flight, reapable, queue, got, consumer>>

-----------------------------------------------------------------------------
(* The kernel completes reads in any order.  A failed read is only logged  *)
(* (SYSCALL): its buffer is pushed and counted like any other.             *)

Complete(w) ==
    /\ \E ch \in in_flight[w] :
         /\ in_flight' = [in_flight EXCEPT ![w] = @ \ {ch}]
         /\ reapable' = [reapable EXCEPT ![w] = @ \cup {ch}]
    /\ UNCHANGED <<round, owner, active, is_open, active_threads, pc,
                   worker_vars, queue, queue_open, got, consumer>>

-----------------------------------------------------------------------------
(* The consumers                                                           *)

PollData(c) ==
    /\ consumer[c] = "polling"
    /\ \E ch \in queue : /\ queue' = queue \ {ch}
                         /\ got' = got \cup {ch}
    /\ UNCHANGED <<round, owner, active, is_open, active_threads, pc,
                   worker_vars, in_flight, reapable, queue_open, consumer>>

PollEnd(c) ==
    /\ consumer[c] = "polling"
    /\ queue = {}
    /\ ~queue_open
    /\ consumer' = [consumer EXCEPT ![c] = "told"]
    /\ UNCHANGED <<round, owner, active, is_open, active_threads, pc,
                   worker_vars, in_flight, reapable, queue, queue_open, got>>

\* Callers that know how many chunks there are stop after as many polls,
\* without waiting for the end.
StopPolling(c) ==
    /\ consumer[c] = "polling"
    /\ got = active \/ EarlyDestroy
    /\ consumer' = [consumer EXCEPT ![c] = "stopped"]
    /\ UNCHANGED <<round, owner, active, is_open, active_threads, pc,
                   worker_vars, in_flight, reapable, queue, queue_open, got>>

-----------------------------------------------------------------------------
Owner ==
    \/ \E request \in SUBSET Chunks : Start(request)
    \/ CallReset \/ Reset
    \/ CallDestroy \/ Destroyed

Worker(w) ==
    \/ TestLoop(w)
    \/ Reap(w) \/ NothingToReap(w)
    \/ Submit(w) \/ NothingToSubmit(w)
    \/ Cleanup(w) \/ CloseIfLast(w)

Consumer(c) == PollData(c) \/ PollEnd(c) \/ StopPolling(c)

Terminated == owner = "gone" \/ (owner = "idle" /\ round = MaxRounds)

Next ==
    \/ /\ ~Aborted
       /\ \/ Owner
          \/ \E w \in Workers : Worker(w) \/ Complete(w)
          \/ \E c \in Consumers : Consumer(c)
    \/ Terminated /\ UNCHANGED vars

\* Threads run, the kernel finishes what it was given, and consumers poll
\* until the stream ends or they have all they asked for.
Spec ==
    /\ Init
    /\ [][Next]_vars
    /\ WF_vars(Owner)
    /\ \A w \in Workers : WF_vars(Worker(w)) /\ WF_vars(Complete(w))
    /\ \A c \in Consumers : WF_vars(PollData(c) \/ PollEnd(c))

-----------------------------------------------------------------------------
(* Properties                                                              *)

Places == {"joined", "test", "reap", "submit", "cleanup", "last", "exited",
           "aborted"}

\* Every variable holds a value of its type.
TypeOK ==
    /\ round \in 0..MaxRounds
    /\ owner \in {"idle", "running", "resetting", "destroying", "gone"}
    /\ active \subseteq Chunks
    /\ is_open \in BOOLEAN
    /\ active_threads \in 0..NumThreads
    /\ pc \in [Workers -> Places]
    /\ available_files \in [Workers -> Seq(Files)]
    /\ bytes_issued \in [Files -> Nat]
    /\ chunks_completed \in [Files -> Nat]
    /\ completed_files \in [Workers -> SUBSET Files]
    /\ in_flight \in [Workers -> SUBSET Chunks]
    /\ reapable \in [Workers -> SUBSET Chunks]
    /\ queue \subseteq Chunks
    /\ queue_open \in BOOLEAN
    /\ got \subseteq Chunks
    /\ consumer \in [Consumers -> {"polling", "told", "stopped"}]

\* Each active chunk is in one place: not issued yet, in flight or reapable in
\* one ring, in the queue, or with a consumer.  So no chunk is read twice,
\* pushed twice or forgotten (unordered_file_reader.h lines 330-394).
OnePlace ==
    owner # "idle" /\ ~Aborted =>
        \A ch \in active :
            LET f == ch[1]
                places == {x \in {<<"unissued">>} : ch[2] >= bytes_issued[f]}
                     \cup {<<"flight", w>> : w \in {v \in Workers : ch \in in_flight[v]}}
                     \cup {<<"reap", w>> : w \in {v \in Workers : ch \in reapable[v]}}
                     \cup {x \in {<<"queue">>} : ch \in queue}
                     \cup {x \in {<<"got">>} : ch \in got}
            IN  Cardinality(places) = 1

\* A consumer that is told the end can rely on it: every active chunk has been
\* polled by then, however the workers' last pushes, decrements and closes
\* interleave (unordered_file_reader.h lines 408-411).
EndMeansAll == \A c \in Consumers : consumer[c] = "told" => got = active

\* The CHECK that all files are read when a worker terminates
\* (unordered_file_reader.h lines 400-403), also when the reader is destroyed
\* right after its last chunk was polled.
NoAbort == ~Aborted

\* Once started, the reader comes to the end of its files and its owner to the
\* end of Reset or of the destructor: nobody waits forever for room, for a
\* completion or for the end (unordered_file_reader.h lines 126-129, 189-195,
\* 328-412).
RoundEnds == owner = "running" ~> owner \in {"idle", "gone"}

Stream ==
    INSTANCE ChunkStream
        WITH wanted <- active,
             told <- {c \in Consumers : consumer[c] = "told"}

\* To its consumers the reader is a stream that hands out the active chunks,
\* each once and no other, and then ends; a chunk or a late second Close of one
\* use cannot get into the next (unordered_file_reader.h lines 139-208, 264-273
\* and 408-411).
ImplementsStream == Stream!Spec

\* The same without the claim that everything is handed out in the end.
ImplementsStreamSafely == Stream!SafeSpec

=============================================================================
