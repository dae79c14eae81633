------------------------- MODULE UnorderedFileWriter -------------------------
(***************************************************************************)
(* utils/unordered_file_writer.h and its copy for the Plaidlay primitives, *)
(* utils/unordered_file_writer_modified.h: producers push blocks into a    *)
(* bounded queue, worker threads take them in batches, give each a place   *)
(* in a file and hand the batch to an io_uring; Wait closes the queue and  *)
(* joins the workers.                                                      *)
(*                                                                         *)
(* The two files differ in the append cursor only: plain in the first, an  *)
(* atomic in the second, so that several workers may append to one file.   *)
(* (In the second an explicit offset leaves the cursor alone; in the first *)
(* it moves it, but then nobody reads it.)  The queue is taken as          *)
(* SimpleQueue specifies it.  allow_expand, which no caller sets, is left  *)
(* out, and so is bytes_written, which nothing reads.                      *)
(***************************************************************************)
EXTENDS Integers, Sequences, FiniteSets

CONSTANTS
    NumFiles,        \* the files given to Start
    NumThreads,      \* config.num_threads
    RingSize,        \* config.io_uring_size
    QueueSize,       \* config.queue_size
    Producers,       \* the threads that call Push
    Uses,            \* how callers place blocks, a subset of KindsOfUse
    Targets,         \* bound of the model on the files that callers name
    MaxSize,         \* bound of the model on the size of a block, in pages
    MaxBlocks        \* bound of the model on the number of blocks

\* The caller leaves it to the writer where a block goes; or names the file and
\* the offset; or, with the atomic cursor only, the file alone.
KindsOfUse == {"append", "explicit", "shared"}

ASSUME SizesAssumption ==
    /\ NumFiles \in Nat \ {0} /\ NumThreads \in Nat \ {0}
    /\ RingSize \in Nat \ {0} /\ QueueSize \in Nat \ {0}
    /\ MaxSize \in Nat \ {0} /\ MaxBlocks \in Nat
    /\ Uses \subseteq KindsOfUse /\ Uses # {}

Files == 0..(NumFiles - 1)

ASSUME TargetsAssumption == Targets \subseteq Files /\ Targets # {}

Blocks == 1..MaxBlocks
Workers == {t \in 0..(NumThreads - 1) : t < NumFiles}   \* who got a file
NoRequest == [block |-> 0, size |-> 0, file |-> -1, offset |-> -1]

VARIABLES
    use,             \* how the callers of this writer place their blocks
    owner,           \* "open", "waiting" (in Wait), "done"
    queue_open,
    queue,           \* wait_queue
    producer,        \* per producer: the request it is pushing
    pushed,          \* the requests that Push accepted
    live,            \* the requests not yet deleted, with their data
    bytes_issued,    \* per file
    pc, phase,       \* per worker
    current_file,    \* per worker: whose turn it is among its files
    outstanding,     \* per worker: outstanding_request
    request,         \* per worker: what it took and is placing
    offset,          \* per worker: the local of that name
    held,            \* per worker: the writes prepared and not submitted
    in_flight,       \* per worker: the writes submitted
    reapable,        \* per worker: the writes finished
    disk,            \* the writes done, with what they wrote
    failed           \* the requests whose write failed

callers == <<use, owner, queue_open, producer, pushed>>
placing == <<bytes_issued, current_file, request, offset>>
ring == <<outstanding, held, in_flight, reapable, live, disk, failed>>
vars == <<callers, placing, ring, queue, pc, phase>>

MaxOutstanding == 2 * RingSize

FilesOf(w) == {f \in Files : f % NumThreads = w}

Write(r, f, o) == [request |-> r, file |-> f, offset |-> o]

Init ==
    /\ use \in Uses
    /\ owner = "open"
    /\ queue_open = TRUE
    /\ queue = <<>>
    /\ producer = [p \in Producers |-> NoRequest]
    /\ pushed = {} /\ live = {} /\ disk = {} /\ failed = {}
    /\ bytes_issued = [f \in Files |-> 0]
    /\ pc = [w \in Workers |-> "reap"]
    /\ phase = [w \in Workers |-> "NORMAL"]
    /\ current_file = [w \in Workers |-> 0]
    /\ outstanding = [w \in Workers |-> 0]
    /\ request = [w \in Workers |-> NoRequest]
    /\ offset = [w \in Workers |-> 0]
    /\ held = [w \in Workers |-> {}]
    /\ in_flight = [w \in Workers |-> {}]
    /\ reapable = [w \in Workers |-> {}]

-----------------------------------------------------------------------------
(* The callers                                                             *)

\* The request made for block b.  Callers that name files write blocks of one
\* size, and those that name offsets give every block a place of its own.
RequestsFor(b) ==
    [block : {b}, size : IF use = "append" THEN 1..MaxSize ELSE {MaxSize},
     file : IF use = "append" THEN {-1} ELSE Targets,
     offset : IF use = "explicit" THEN {b * MaxSize} ELSE {-1}]

NextBlock == Cardinality(live \cup pushed) + 1

CallPush(p) ==
    /\ owner = "open"
    /\ queue_open
    /\ producer[p] = NoRequest
    /\ NextBlock \in Blocks
    /\ \E r \in RequestsFor(NextBlock) :
         /\ producer' = [producer EXCEPT ![p] = r]
         /\ live' = live \cup {r}
    /\ UNCHANGED <<use, owner, queue_open, pushed, placing, queue, pc, phase,
                   outstanding, held, in_flight, reapable, disk, failed>>

\* Mutant: a place of the queue is kept free.
PushSparingOne(p) ==
    /\ producer[p] # NoRequest
    /\ Len(queue) + 1 < QueueSize
    /\ queue' = Append(queue, producer[p])
    /\ pushed' = pushed \cup {producer[p]}
    /\ producer' = [producer EXCEPT ![p] = NoRequest]
    /\ UNCHANGED <<use, owner, queue_open, placing, ring, pc, phase>>

\* Blocks while the queue is full.
Push(p) ==
    /\ producer[p] # NoRequest
    /\ Len(queue) < QueueSize
    /\ queue' = Append(queue, producer[p])
    /\ pushed' = pushed \cup {producer[p]}
    /\ producer' = [producer EXCEPT ![p] = NoRequest]
    /\ UNCHANGED <<use, owner, queue_open, placing, ring, pc, phase>>

AllPushed == \A p \in Producers : producer[p] = NoRequest

\* WriteNumbers closes before the destructor calls Wait.
Close ==
    /\ owner = "open"
    /\ AllPushed
    /\ queue_open' = FALSE
    /\ UNCHANGED <<use, owner, producer, pushed, placing, ring, queue, pc, phase>>

Wait ==
    /\ owner = "open"
    /\ AllPushed
    /\ owner' = "waiting"
    /\ queue_open' = FALSE
    /\ UNCHANGED <<use, producer, pushed, placing, ring, queue, pc, phase>>

\* The workers are joined and the files closed.
WaitReturns ==
    /\ owner = "waiting"
    /\ \A w \in Workers : pc[w] = "exited"
    /\ owner' = "done"
    /\ UNCHANGED <<use, queue_open, producer, pushed, placing, ring, queue, pc,
                   phase>>

-----------------------------------------------------------------------------
(* The workers                                                             *)

Goto(w, place) == pc' = [pc EXCEPT ![w] = place]

\* io_uring_wait_cqe rather than another look at the queue.
BlocksInReap(w) ==
    \/ outstanding[w] >= MaxOutstanding
    \/ phase[w] = "WAITING_FOR_COMPLETION" /\ outstanding[w] > 0

Reap(w) ==
    /\ pc[w] = "reap"
    /\ \E c \in reapable[w] :
         /\ reapable' = [reapable EXCEPT ![w] = @ \ {c}]
         /\ live' = live \ {c.request}
    /\ outstanding' = [outstanding EXCEPT ![w] = @ - 1]
    /\ UNCHANGED <<callers, placing, queue, pc, phase, held, in_flight, disk,
                   failed>>

NothingToReap(w) ==
    /\ pc[w] = "reap"
    /\ reapable[w] = {}
    /\ ~BlocksInReap(w)
    /\ Goto(w, IF phase[w] = "NORMAL" THEN "batch" ELSE "exited")
    /\ UNCHANGED <<callers, placing, ring, queue, phase>>

\* Mutant: the limit of a batch is off by one, and get_sqe finds no room.
BatchGoesOnTooLong(w) ==
    /\ outstanding[w] < MaxOutstanding
    /\ Cardinality(held[w]) <= RingSize

BatchGoesOn(w) ==
    /\ outstanding[w] < MaxOutstanding
    /\ Cardinality(held[w]) < RingSize

\* io_uring_get_sqe finds an entry, else the worker spins.
SqeAvailable(w) == Cardinality(held[w]) < RingSize

Poll(w) ==
    /\ pc[w] = "batch"
    /\ BatchGoesOn(w)
    /\ queue # <<>>
    /\ request' = [request EXCEPT ![w] = Head(queue)]
    /\ queue' = Tail(queue)
    /\ Goto(w, "place")
    /\ UNCHANGED <<callers, bytes_issued, current_file, offset, ring, phase>>

\* The file of the request in hand: the caller's choice, or the worker's own
\* files in turn.
FileFor(w) ==
    IF request[w].file # -1 THEN request[w].file
    ELSE w + NumThreads * current_file[w]

\* Mutant: the turn does not come round.
NextTurnNoWrap(w) ==
    current_file' =
        IF request[w].file # -1 THEN current_file
        ELSE [current_file EXCEPT ![w] = @ + 1]

NextTurn(w) ==
    current_file' =
        IF request[w].file # -1 THEN current_file
        ELSE [current_file EXCEPT
                 ![w] = (@ + 1) % Cardinality(FilesOf(w))]

\* Mutant: the request is deleted once it is prepared.
PrepareAndDelete(w, o) ==
    /\ held' = [held EXCEPT ![w] = @ \cup {Write(request[w], FileFor(w), o)}]
    /\ outstanding' = [outstanding EXCEPT ![w] = @ + 1]
    /\ live' = live \ {request[w]}
    /\ NextTurn(w)
    /\ request' = [request EXCEPT ![w] = NoRequest]
    /\ offset' = [offset EXCEPT ![w] = 0]
    /\ Goto(w, "batch")

\* io_uring_prep_write, and on to the next of the batch.
Prepare(w, o) ==
    /\ held' = [held EXCEPT ![w] = @ \cup {Write(request[w], FileFor(w), o)}]
    /\ outstanding' = [outstanding EXCEPT ![w] = @ + 1]
    /\ UNCHANGED live
    /\ NextTurn(w)
    /\ request' = [request EXCEPT ![w] = NoRequest]
    /\ offset' = [offset EXCEPT ![w] = 0]
    /\ Goto(w, "batch")

\* Mutant: the slot is read and not reserved.
PlaceUnreserved(w) ==
    /\ use = "shared"
    /\ pc[w] = "place"
    /\ SqeAvailable(w)
    /\ Prepare(w, bytes_issued[FileFor(w)])
    /\ UNCHANGED <<callers, queue, phase, in_flight, reapable, disk, failed,
                   bytes_issued>>

\* unordered_file_writer_modified.h: fetch_add.
PlaceAtomic(w) ==
    LET f == FileFor(w)
    IN  /\ use = "shared"
        /\ pc[w] = "place"
        /\ SqeAvailable(w)
        /\ Prepare(w, bytes_issued[f])
        /\ bytes_issued' = [bytes_issued EXCEPT ![f] = @ + request[w].size]
        /\ UNCHANGED <<callers, queue, phase, in_flight, reapable, disk, failed>>

\* unordered_file_writer.h: the cursor is read ...
ReadCursor(w) ==
    /\ use # "shared"
    /\ pc[w] = "place"
    /\ SqeAvailable(w)
    /\ offset' = [offset EXCEPT
                     ![w] = IF request[w].offset # -1 THEN request[w].offset
                            ELSE bytes_issued[FileFor(w)]]
    /\ Goto(w, "advance")
    /\ UNCHANGED <<callers, bytes_issued, current_file, request, ring, queue,
                   phase>>

\* ... and advanced, offset or no offset.  If another worker is at the same
\* file this is a data race, and the compiler may add to the value read before.
AdvanceCursor(w) ==
    LET f == FileFor(w)
    IN  \E from \in {bytes_issued[f]}
                    \cup (IF request[w].offset = -1 THEN {offset[w]} ELSE {}) :
            bytes_issued' = [bytes_issued EXCEPT ![f] = from + request[w].size]

PlacePlain(w) ==
    /\ pc[w] = "advance"
    /\ AdvanceCursor(w)
    /\ Prepare(w, offset[w])
    /\ UNCHANGED <<callers, queue, phase, in_flight, reapable, disk, failed>>

\* io_uring_submit, if anything is held, and back to the completions.
Submit(w) ==
    /\ held' = [held EXCEPT ![w] = {}]
    /\ in_flight' = [in_flight EXCEPT ![w] = @ \cup held[w]]
    /\ Goto(w, "reap")
    /\ UNCHANGED <<callers, placing, queue, outstanding, reapable, live, disk,
                   failed>>

BatchFull(w) ==
    /\ pc[w] = "batch"
    /\ ~BatchGoesOn(w)
    /\ Submit(w)
    /\ UNCHANGED phase

PollFinish(w) ==
    /\ pc[w] = "batch"
    /\ BatchGoesOn(w)
    /\ queue = <<>>
    /\ ~queue_open
    /\ phase' = [phase EXCEPT ![w] = "WAITING_FOR_COMPLETION"]
    /\ Submit(w)

-----------------------------------------------------------------------------
(* The kernel finishes submitted writes in any order.  The worker reports  *)
(* a failed one and goes on.                                               *)

Succeed(w) ==
    /\ \E c \in in_flight[w] :
         /\ in_flight' = [in_flight EXCEPT ![w] = @ \ {c}]
         /\ reapable' = [reapable EXCEPT ![w] = @ \cup {c}]
         /\ disk' = disk \cup {[write |-> c, intact |-> c.request \in live]}
    /\ UNCHANGED <<callers, placing, queue, pc, phase, outstanding, held, live,
                   failed>>

FailWrite(w) ==
    /\ \E c \in in_flight[w] :
         /\ in_flight' = [in_flight EXCEPT ![w] = @ \ {c}]
         /\ reapable' = [reapable EXCEPT ![w] = @ \cup {c}]
         /\ failed' = failed \cup {c.request}
    /\ UNCHANGED <<callers, placing, queue, pc, phase, outstanding, held, live,
                   disk>>

Complete(w) == Succeed(w) \/ FailWrite(w)

-----------------------------------------------------------------------------
Worker(w) ==
    \/ Reap(w) \/ NothingToReap(w)
    \/ Poll(w)
    \/ PlaceAtomic(w)
    \/ ReadCursor(w) \/ PlacePlain(w)
    \/ BatchFull(w) \/ PollFinish(w)

Next ==
    \/ \E p \in Producers : CallPush(p) \/ Push(p)
    \/ Close \/ Wait \/ WaitReturns
    \/ \E w \in Workers : Worker(w) \/ Complete(w)
    \/ owner = "done" /\ UNCHANGED vars

\* Threads that can go on do, and the kernel finishes what is submitted.
\* Nobody has to push or to call Wait.
Spec ==
    /\ Init
    /\ [][Next]_vars
    /\ WF_vars(WaitReturns)
    /\ \A p \in Producers : WF_vars(Push(p))
    /\ \A w \in Workers : WF_vars(Worker(w)) /\ WF_vars(Complete(w))

-----------------------------------------------------------------------------
(* Properties                                                              *)

InRing(w) == held[w] \cup in_flight[w] \cup reapable[w]

\* Every variable holds a value of its type.
TypeOK ==
    LET Request == {NoRequest} \cup [block : Blocks, size : 1..MaxSize,
                                     file : Files \cup {-1}, offset : Int]
        Writes == [request : Request, file : Files, offset : Nat]
    IN  /\ use \in Uses
        /\ owner \in {"open", "waiting", "done"}
        /\ queue_open \in BOOLEAN
        /\ queue \in Seq(Request) /\ Len(queue) <= QueueSize
        /\ producer \in [Producers -> Request]
        /\ pushed \subseteq Request /\ live \subseteq Request
        /\ failed \subseteq Request
        /\ \A d \in disk : d.write \in Writes /\ d.intact \in BOOLEAN
        /\ bytes_issued \in [Files -> Nat]
        /\ pc \in [Workers -> {"reap", "batch", "place", "advance", "exited"}]
        /\ phase \in [Workers -> {"NORMAL", "WAITING_FOR_COMPLETION"}]
        /\ \A w \in Workers : current_file[w] \in 0..(Cardinality(FilesOf(w)) - 1)
        /\ outstanding \in [Workers -> 0..MaxOutstanding]
        /\ request \in [Workers -> Request]
        /\ offset \in [Workers -> Nat]
        /\ \A w \in Workers : InRing(w) \subseteq Writes

\* The ring is never asked for more than it has: a batch fits its submission
\* queue, whose size is io_uring_size, and the completions not yet seen its
\* completion queue, which is twice that (unordered_file_writer.h lines 216,
\* 251 and 260).
FitsRing ==
    \A w \in Workers :
        /\ pc[w] \in {"place", "advance"} => Cardinality(held[w]) < RingSize
        /\ Cardinality(in_flight[w] \cup reapable[w]) <= 2 * RingSize
        /\ outstanding[w] = Cardinality(InRing(w))

\* The data of a block is kept until the kernel is done with it
\* (unordered_file_writer.h lines 232-238).
WrittenIntact == \A d \in disk : d.intact

\* No producer is left on a full queue (unordered_file_writer.h line 113).
PushEnds == \A p \in Producers : producer[p] # NoRequest ~> producer[p] = NoRequest

-----------------------------------------------------------------------------
(* Refinement                                                              *)

Store ==
    INSTANCE BlockStore
        WITH Requests <- [block : Blocks, size : 1..MaxSize,
                          file : Files \cup {-1},
                          offset : {-1} \cup {b * MaxSize : b \in Blocks}],
             Places <- [file : Files, offset : 0..(MaxBlocks * MaxSize)],
             accepted <- pushed,
             stored <- {d.write : d \in disk},
             failed <- failed,
             waiting <- owner # "open",
             done <- owner = "done"

\* To its callers the writer is a store that puts every block, once, where it
\* was asked to, or else where nothing is and nothing else will be; when Wait
\* returns, and it does, nothing that was pushed is left behind, a last
\* incomplete batch or none notwithstanding, but for what the system refused to
\* write (unordered_file_writer.h lines 84-93, 132-147, 220-302 and
\* unordered_file_writer_modified.h lines 297-305).
ImplementsStore == Store!Spec

\* Its part without the promise that Wait returns.
ImplementsStoreSafely == Store!SafeSpec

=============================================================================
