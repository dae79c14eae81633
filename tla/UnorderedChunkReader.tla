------------------------ MODULE UnorderedChunkReader ------------------------
(***************************************************************************)
(* utils/unordered_file_reader_modified.h: the reader of the Plaidlay      *)
(* primitives.  It is given a list of chunk headers; a worker reads every  *)
(* NumThreads-th of them in list order, labels the buffer with the header  *)
(* that its request names and pushes it.  A chunk with no valid byte is    *)
(* pushed as an empty buffer without a read.                               *)
(*                                                                         *)
(* The request structs are recycled, and the label of a buffer is taken    *)
(* from the request when its completion is seen, so requests have an       *)
(* identity here.  The rest follows UnorderedFileReader.                   *)
(***************************************************************************)
EXTENDS Naturals, FiniteSets

CONSTANTS
    NumThreads,      \* config.num_threads
    Requests,        \* the request structs of one worker (config.max_requests)
    QueueSize,       \* config.buffer_queue_size
    Consumers,       \* the threads that call Poll
    MaxChunks,       \* bound of the model on the length of a list of headers
    MaxRounds        \* bound of the model on the number of calls of Start

ASSUME SizesAssumption ==
    /\ NumThreads \in Nat \ {0}
    /\ IsFiniteSet(Requests) /\ Requests # {}
    /\ QueueSize \in Nat \ {0}
    /\ MaxChunks \in Nat /\ MaxRounds \in Nat

Workers == 0..(NumThreads - 1)
Chunks == 1..MaxChunks

VARIABLES
    round, owner, is_open, active_threads, pc, queue, queue_open, consumer,
                     \* as in UnorderedFileReader
    headers,         \* the chunks of the list given to PrepFiles
    empty,           \* those of them with used = 0
    next_chunk,      \* per worker: the next of its chunks to issue
    completed,       \* per worker: how many of its chunks were pushed
    chunk_idx,       \* per worker and request: the chunk it names
    available,       \* per worker: the requests that are free
    in_flight,       \* per worker: <<request, chunk>> the kernel is reading
    reapable,        \* per worker: <<request, chunk>> it has read
    got              \* the buffers polled since Start

shell == <<round, owner, is_open, active_threads, queue_open, consumer, headers, empty>>
ring == <<chunk_idx, available, in_flight, reapable>>
vars == <<shell, ring, pc, queue, got, next_chunk, completed>>

ListOf(w) == {ch \in headers : (ch - 1) % NumThreads = w}
Aborted == \E w \in Workers : pc[w] = "aborted"

\* What Poll hands out: the bytes of one chunk under the header of another.
Buffer(bytes, header) == [bytes |-> bytes, header |-> header]

Init ==
    /\ round = 0
    /\ owner = "idle"
    /\ is_open = TRUE
    /\ active_threads = 0
    /\ queue_open = TRUE
    /\ consumer = [c \in Consumers |-> "stopped"]
    /\ headers = {}
    /\ empty = {}
    /\ pc = [w \in Workers |-> "joined"]
    /\ queue = {}
    /\ got = {}
    /\ next_chunk = [w \in Workers |-> 0]
    /\ completed = [w \in Workers |-> 0]
    /\ chunk_idx = [w \in Workers |-> [r \in Requests |-> 0]]
    /\ available = [w \in Workers |-> Requests]
    /\ in_flight = [w \in Workers |-> {}]
    /\ reapable = [w \in Workers |-> {}]

-----------------------------------------------------------------------------
(* The owner                                                               *)

Start(n, none) ==
    /\ owner = "idle"
    /\ round < MaxRounds
    /\ round' = round + 1
    /\ owner' = "running"
    /\ headers' = 1..n
    /\ empty' = none
    /\ active_threads' = NumThreads
    /\ pc' = [w \in Workers |-> "test"]
    /\ next_chunk' = [w \in Workers |-> w + 1]
    /\ completed' = [w \in Workers |-> 0]
    /\ available' = [w \in Workers |-> Requests]
    /\ chunk_idx' = [w \in Workers |-> [r \in Requests |-> 0]]
    /\ got' = {}
    /\ consumer' = [c \in Consumers |-> "polling"]
    /\ UNCHANGED <<is_open, queue_open, queue, in_flight, reapable>>

WorkersGone == \A w \in Workers : pc[w] = "exited"

CallReset ==
    /\ owner = "running"
    /\ \A c \in Consumers : consumer[c] # "polling"
    /\ owner' = "resetting"
    /\ UNCHANGED <<round, is_open, active_threads, queue_open, consumer,
                   headers, empty, ring, pc, queue, got, next_chunk, completed>>

\* Reopen checks that the queue is drained.
Reset ==
    /\ owner = "resetting"
    /\ WorkersGone
    /\ queue = {}
    /\ owner' = "idle"
    /\ pc' = [w \in Workers |-> "joined"]
    /\ active_threads' = 0
    /\ is_open' = TRUE
    /\ queue_open' = TRUE
    /\ UNCHANGED <<round, consumer, headers, empty, ring, queue, got,
                   next_chunk, completed>>

CallDestroy ==
    /\ owner = "running"
    /\ \A c \in Consumers : consumer[c] # "polling"
    /\ owner' = "destroying"
    /\ is_open' = FALSE
    /\ UNCHANGED <<round, active_threads, queue_open, consumer, headers, empty,
                   ring, pc, queue, got, next_chunk, completed>>

Destroyed ==
    /\ owner = "destroying"
    /\ WorkersGone
    /\ owner' = "gone"
    /\ UNCHANGED <<round, is_open, active_threads, queue_open, consumer,
                   headers, empty, ring, pc, queue, got, next_chunk, completed>>

-----------------------------------------------------------------------------
(* The workers                                                             *)

Goto(w, place) == pc' = [pc EXCEPT ![w] = place]

TestLoop(w) ==
    /\ pc[w] = "test"
    /\ IF completed[w] < Cardinality(ListOf(w)) /\ is_open
       THEN Goto(w, "reap")
       ELSE Goto(w, "cleanup")
    /\ UNCHANGED <<shell, ring, queue, got, next_chunk, completed>>

\* Blocks while the queue is full.
PushBuffer(b) ==
    /\ Cardinality(queue) < QueueSize
    /\ queue' = queue \cup {b}

Reap(w) ==
    /\ pc[w] = "reap"
    /\ \E read \in reapable[w] :
         LET r == read[1]
         IN  /\ PushBuffer(Buffer(read[2], chunk_idx[w][r]))
             /\ reapable' = [reapable EXCEPT ![w] = @ \ {read}]
             /\ available' = [available EXCEPT ![w] = @ \cup {r}]
    /\ completed' = [completed EXCEPT ![w] = @ + 1]
    /\ UNCHANGED <<shell, pc, got, next_chunk, chunk_idx, in_flight>>

NothingToReap(w) ==
    /\ pc[w] = "reap"
    /\ reapable[w] = {}
    /\ Goto(w, "issue")
    /\ UNCHANGED <<shell, ring, queue, got, next_chunk, completed>>

HasNext(w) == next_chunk[w] \in headers /\ available[w] # {}

\* Mutant: the empty chunk is pushed but not counted.
IssueEmptyUncounted(w) ==
    /\ PushBuffer(Buffer(next_chunk[w], next_chunk[w]))
    /\ UNCHANGED <<ring, completed>>

\* An empty buffer, under the header of the chunk.
IssueEmpty(w) ==
    /\ PushBuffer(Buffer(next_chunk[w], next_chunk[w]))
    /\ completed' = [completed EXCEPT ![w] = @ + 1]
    /\ UNCHANGED ring

\* Mutant: a request in use is taken for the next chunk.
IssueReadInUse(w) ==
    /\ \E r \in Requests :
         /\ chunk_idx' = [chunk_idx EXCEPT ![w][r] = next_chunk[w]]
         /\ in_flight' = [in_flight EXCEPT ![w] = @ \cup {<<r, next_chunk[w]>>}]
    /\ UNCHANGED <<queue, completed, available, reapable>>

IssueRead(w) ==
    /\ \E r \in available[w] :
         /\ available' = [available EXCEPT ![w] = @ \ {r}]
         /\ chunk_idx' = [chunk_idx EXCEPT ![w][r] = next_chunk[w]]
         /\ in_flight' = [in_flight EXCEPT ![w] = @ \cup {<<r, next_chunk[w]>>}]
    /\ UNCHANGED <<queue, completed, reapable>>

Issue(w) ==
    /\ pc[w] = "issue"
    /\ HasNext(w)
    /\ \/ next_chunk[w] \in empty /\ IssueEmpty(w)
       \/ next_chunk[w] \notin empty /\ IssueRead(w)
    /\ next_chunk' = [next_chunk EXCEPT ![w] = @ + NumThreads]
    /\ UNCHANGED <<shell, pc, got>>

NothingToIssue(w) ==
    /\ pc[w] = "issue"
    /\ ~HasNext(w)
    /\ Goto(w, "test")
    /\ UNCHANGED <<shell, ring, queue, got, next_chunk, completed>>

Cleanup(w) ==
    /\ pc[w] = "cleanup"
    /\ IF completed[w] = Cardinality(ListOf(w))
       THEN /\ active_threads' = active_threads - 1
            /\ Goto(w, "last")
       ELSE /\ UNCHANGED active_threads
            /\ Goto(w, "aborted")
    /\ in_flight' = [in_flight EXCEPT ![w] = {}]
    /\ reapable' = [reapable EXCEPT ![w] = {}]
    /\ UNCHANGED <<round, owner, is_open, queue_open, consumer, headers, empty,
                   chunk_idx, available, queue, got, next_chunk, completed>>

\* Mutant: whoever is done closes the queue.
EveryoneIsLast == active_threads < NumThreads

Last == active_threads = 0

CloseIfLast(w) ==
    /\ pc[w] = "last"
    /\ queue_open' = (queue_open /\ ~Last)
    /\ Goto(w, "exited")
    /\ UNCHANGED <<round, owner, is_open, active_threads, consumer, headers,
                   empty, ring, queue, got, next_chunk, completed>>

\* The kernel, in any order.  A failed read would be logged and handed out as if it had
\* succeeded; it is left out.
Complete(w) ==
    /\ \E read \in in_flight[w] :
         /\ in_flight' = [in_flight EXCEPT ![w] = @ \ {read}]
         /\ reapable' = [reapable EXCEPT ![w] = @ \cup {read}]
    /\ UNCHANGED <<shell, pc, queue, got, next_chunk, completed, chunk_idx,
                   available>>

-----------------------------------------------------------------------------
(* The consumers                                                           *)

PollData(c) ==
    /\ consumer[c] = "polling"
    /\ \E b \in queue : queue' = queue \ {b} /\ got' = got \cup {b}
    /\ UNCHANGED <<shell, ring, pc, next_chunk, completed>>

PollEnd(c) ==
    /\ consumer[c] = "polling"
    /\ queue = {}
    /\ ~queue_open
    /\ consumer' = [consumer EXCEPT ![c] = "told"]
    /\ UNCHANGED <<round, owner, is_open, active_threads, queue_open, headers,
                   empty, ring, pc, queue, got, next_chunk, completed>>

\* Callers poll as many times as there are chunks, or more.
StopPolling(c) ==
    /\ consumer[c] = "polling"
    /\ Cardinality(got) = Cardinality(headers)
    /\ consumer' = [consumer EXCEPT ![c] = "stopped"]
    /\ UNCHANGED <<round, owner, is_open, active_threads, queue_open, headers,
                   empty, ring, pc, queue, got, next_chunk, completed>>

-----------------------------------------------------------------------------
Owner ==
    \/ \E n \in 0..MaxChunks : \E none \in SUBSET (1..n) : Start(n, none)
    \/ CallReset \/ Reset
    \/ CallDestroy \/ Destroyed

Worker(w) ==
    \/ TestLoop(w)
    \/ Reap(w) \/ NothingToReap(w)
    \/ Issue(w) \/ NothingToIssue(w)
    \/ Cleanup(w) \/ CloseIfLast(w)

Terminated == owner = "gone" \/ (owner = "idle" /\ round = MaxRounds)

Next ==
    \/ /\ ~Aborted
       /\ \/ Owner
          \/ \E w \in Workers : Worker(w) \/ Complete(w)
          \/ \E c \in Consumers : PollData(c) \/ PollEnd(c) \/ StopPolling(c)
    \/ Terminated /\ UNCHANGED vars

Spec ==
    /\ Init
    /\ [][Next]_vars
    /\ WF_vars(Owner)
    /\ \A w \in Workers : WF_vars(Worker(w)) /\ WF_vars(Complete(w))
    /\ \A c \in Consumers : WF_vars(PollData(c) \/ PollEnd(c))

-----------------------------------------------------------------------------
(* Properties                                                              *)

\* A buffer is handed out under the header of the chunk it holds, although the
\* request that remembers the header is recycled while other reads are in
\* flight (unordered_file_reader_modified.h lines 280-287 and 316-334).
LabelsMatch == \A b \in queue \cup got : b.bytes = b.header

Stream ==
    INSTANCE ChunkStream
        WITH wanted <- headers,
             got <- {b.header : b \in got},
             told <- {c \in Consumers : consumer[c] = "told"}

\* To its consumers this reader, too, is a stream that hands out each chunk of
\* the list once, the empty ones included, and then ends
\* (unordered_file_reader_modified.h lines 275-310 and 348-356).
ImplementsStream == Stream!Spec

\* The same without the claim that everything is handed out in the end.
ImplementsStreamSafely == Stream!SafeSpec

\* Every use of the reader comes to its end
\* (unordered_file_reader_modified.h lines 136-139, 187-205, 275-356).
RoundEnds == owner = "running" ~> owner \in {"idle", "gone"}

=============================================================================
