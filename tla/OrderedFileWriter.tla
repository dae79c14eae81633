-------------------------- MODULE OrderedFileWriter --------------------------
(***************************************************************************)
(* utils/ordered_file_writer.h: one file per bucket.  Writers add buffers  *)
(* to the current request of a bucket under the lock of the bucket; a      *)
(* request that has grown enough goes to the I/O threads, which write it   *)
(* with one writev and give it back to the pool.  Buffers that are not a   *)
(* multiple of a page are kept aside until CleanUp, which copies them into *)
(* a tail with an end marker, the last thing written to the file.          *)
(*                                                                         *)
(* The buffer of a bucket is one page, as in sample sort.  The debugging   *)
(* switch skip_write is left out, and writes do not fail.  Both queues are *)
(* unbounded SimpleQueues.                                                 *)
(***************************************************************************)
EXTENDS Integers, Sequences, FiniteSetsExt, SequencesExt

CONSTANTS
    NumBuckets,
    Writers,         \* the threads that call Write
    IOThreads,       \* the threads in RunIOThread
    PoolPerBucket,   \* requests per bucket in the pool, 10 in the code
    IOThreshold,     \* io_threshold, in bytes
    VectorSize,      \* IO_VECTOR_SIZE
    RingDepth,       \* RING_DEPTH
    Page,            \* O_DIRECT_MULTIPLE
    Metadata,        \* METADATA_SIZE
    OddSizes,        \* the sizes of buffers that are not a page
    MaxBlocks        \* bound of the model on the number of buffers written

ASSUME SizesAssumption ==
    /\ NumBuckets \in Nat \ {0}
    /\ PoolPerBucket \in Nat /\ PoolPerBucket >= 2
    /\ IOThreshold \in Nat \ {0} /\ VectorSize \in Nat \ {0}
    /\ RingDepth \in Nat \ {0} /\ IOThreads # {}
    /\ Page \in Nat \ {0} /\ Metadata \in 0..Page
    /\ OddSizes \subseteq 1..(Page - 1)
    /\ MaxBlocks \in Nat

Buckets == 1..NumBuckets
Pool == 1..(PoolPerBucket * NumBuckets)
Nobody == 0   \* no request

VARIABLES
    owner,           \* "writing", "cleaning" (CleanUp), "done"
    written,         \* per bucket: the blocks given to Write, [id, size]
    current,         \* per bucket: request
    file_size,       \* per bucket
    misaligned,      \* per bucket: the blocks kept aside, in order
    cleaned,         \* the buckets CleanUp is done with
    result,          \* per bucket: the sizes reported
    writer,          \* per writer: [pc, bucket, request]
    req,             \* per request: [bucket, offset, vectors, size]
    free_requests,
    pending,         \* pending_requests
    pending_open,
    pc,              \* per I/O thread, as is all that follows
    has_more,
    reap_required,
    in_ring,         \* requests_in_ring
    held,            \* the requests prepared and not submitted
    in_flight,
    reapable,
    disk             \* the writes done

buckets == <<written, current, file_size, misaligned>>
closing == <<owner, cleaned, result, pending_open>>
io == <<pc, has_more, reap_required, in_ring, held, in_flight, reapable, disk>>
vars == <<buckets, closing, writer, req, free_requests, pending, io>>

Idle == [pc |-> "idle", bucket |-> 1, request |-> Nobody]

\* A request with nothing in it, for a place in the file of a bucket.
Fresh(b, offset) == [bucket |-> b, offset |-> offset, vectors |-> <<>>, size |-> 0]

\* Initialize gives every bucket a request of the pool.
Init ==
    /\ current = [b \in Buckets |-> b]
    /\ req = [r \in Pool |-> Fresh(IF r \in Buckets THEN r ELSE 1, 0)]
    /\ free_requests = [i \in 1..((PoolPerBucket - 1) * NumBuckets) |-> NumBuckets + i]
    /\ owner = "writing"
    /\ written = [b \in Buckets |-> {}]
    /\ file_size = [b \in Buckets |-> 0]
    /\ misaligned = [b \in Buckets |-> <<>>]
    /\ cleaned = {}
    /\ result = [b \in Buckets |-> [file |-> 0, true |-> 0]]
    /\ writer = [w \in Writers |-> Idle]
    /\ pending = <<>> /\ pending_open = TRUE
    /\ pc = [t \in IOThreads |-> "loop"]
    /\ has_more = [t \in IOThreads |-> TRUE]
    /\ reap_required = [t \in IOThreads |-> FALSE]
    /\ in_ring = [t \in IOThreads |-> 0]
    /\ held = [t \in IOThreads |-> {}]
    /\ in_flight = [t \in IOThreads |-> {}]
    /\ reapable = [t \in IOThreads |-> {}]
    /\ disk = {}

-----------------------------------------------------------------------------
(* Write                                                                   *)

\* The lock of a bucket is held past an action only by a writer that waits
\* for a new request.
LockFree(b) == \A w \in Writers : ~(writer[w].pc = "needs_request" /\ writer[w].bucket = b)

NextId == Cardinality(UNION {written[b] : b \in Buckets}) + 1

\* Mutant: a vector may be filled to one past its end.
GrownEnoughLate(rq) ==
    rq.size >= IOThreshold \/ Len(rq.vectors) > VectorSize

GrownEnough(rq) ==
    rq.size >= IOThreshold \/ Len(rq.vectors) >= VectorSize

AddPointer(rq, blocks, size) ==
    [rq EXCEPT !.vectors = Append(@, [blocks |-> blocks, size |-> size]),
               !.size = @ + size]

WriteOdd(w, b) ==
    /\ \E size \in OddSizes :
         LET block == [id |-> NextId, size |-> size]
         IN  /\ misaligned' = [misaligned EXCEPT ![b] = Append(@, block)]
             /\ written' = [written EXCEPT ![b] = @ \cup {block}]
    /\ UNCHANGED <<current, file_size, writer, req>>

WritePage(w, b) ==
    LET block == [id |-> NextId, size |-> Page]
        rq == AddPointer(req[current[b]], <<block>>, Page)
    IN  /\ written' = [written EXCEPT ![b] = @ \cup {block}]
        /\ req' = [req EXCEPT ![current[b]] = rq]
        /\ IF GrownEnough(rq)
           THEN /\ file_size' = [file_size EXCEPT ![b] = @ + rq.size]
                /\ writer' = [writer EXCEPT ![w].pc = "needs_request",
                                            ![w].bucket = b]
           ELSE UNCHANGED <<file_size, writer>>
        /\ UNCHANGED <<current, misaligned>>

Write(w) ==
    /\ owner = "writing"
    /\ writer[w].pc = "idle"
    /\ NextId <= MaxBlocks
    /\ \E b \in Buckets :
         /\ LockFree(b)
         /\ WriteOdd(w, b) \/ WritePage(w, b)
    /\ UNCHANGED <<closing, free_requests, pending, io>>

\* Blocks while no request is free, with the bucket locked.
NewRequest(w) ==
    LET b == writer[w].bucket
        r == Head(free_requests)
    IN  /\ writer[w].pc = "needs_request"
        /\ free_requests # <<>>
        /\ free_requests' = Tail(free_requests)
        /\ req' = [req EXCEPT ![r].bucket = b, ![r].offset = file_size[b]]
        /\ current' = [current EXCEPT ![b] = r]
        /\ writer' = [writer EXCEPT ![w].pc = "submits", ![w].request = current[b]]
        /\ UNCHANGED <<written, file_size, misaligned, closing, pending, io>>

SubmitRequest(w) ==
    /\ writer[w].pc = "submits"
    /\ pending' = Append(pending, writer[w].request)
    /\ writer' = [writer EXCEPT ![w] = Idle]
    /\ UNCHANGED <<buckets, closing, req, free_requests, io>>

-----------------------------------------------------------------------------
(* CleanUp, once the writers have returned for good                        *)

CallCleanUp ==
    /\ owner = "writing"
    /\ \A w \in Writers : writer[w].pc = "idle"
    /\ owner' = "cleaning"
    /\ UNCHANGED <<buckets, cleaned, result, pending_open, writer, req,
                   free_requests, pending, io>>

BlockSizes(blocks) == MapThenSumSet(LAMBDA i : blocks[i].size, DOMAIN blocks)

\* Mutant: no room is left for the end marker.
TailSizeNoMarker(size) == ((size + Page - 1) \div Page) * Page

\* The pages that hold size bytes and an end marker.
TailSize(size) ==
    LET target == (size \div Page + 1) * Page
    IN  IF target - size < Metadata THEN target + Page ELSE target

\* GatherMisalignedPointers, and the last request of the bucket.
CleanUpBucket(b) ==
    LET odd == BlockSizes(misaligned[b])
        tail == TailSize(odd)
        rq == AddPointer(req[current[b]], misaligned[b], tail)
    IN  /\ owner = "cleaning"
        /\ b \notin cleaned
        /\ req' = [req EXCEPT ![current[b]] = rq]
        /\ file_size' = [file_size EXCEPT ![b] = @ + rq.size]
        /\ pending' = Append(pending, current[b])
        /\ result' = [result EXCEPT ![b] = [file |-> file_size'[b],
                                            true |-> file_size'[b] - tail + odd]]
        /\ cleaned' = cleaned \cup {b}
        /\ UNCHANGED <<written, current, misaligned, owner, pending_open, writer,
                       free_requests, io>>

ClosePending ==
    /\ owner = "cleaning"
    /\ cleaned = Buckets
    /\ pending_open
    /\ pending_open' = FALSE
    /\ UNCHANGED <<buckets, owner, cleaned, result, writer, req, free_requests,
                   pending, io>>

\* The caller joins the I/O threads.
Join ==
    /\ owner = "cleaning"
    /\ \A t \in IOThreads : pc[t] = "exited"
    /\ owner' = "done"
    /\ UNCHANGED <<buckets, cleaned, result, pending_open, writer, req,
                   free_requests, pending, io>>

-----------------------------------------------------------------------------
(* RunIOThread                                                             *)

Goto(t, place) == pc' = [pc EXCEPT ![t] = place]

GoesOn(t) == has_more[t] \/ in_ring[t] > 0

\* IsEmptyUnsafe looks at the pool without its lock and may say anything.
Loop(t) ==
    /\ pc[t] = "loop"
    /\ IF GoesOn(t)
       THEN /\ \E pool_empty \in BOOLEAN :
                 reap_required' =
                     [reap_required EXCEPT
                         ![t] = in_ring[t] >= RingDepth \/ ~has_more[t] \/ pool_empty]
            /\ Goto(t, "reap")
       ELSE /\ Goto(t, "exited")
            /\ UNCHANGED reap_required
    /\ UNCHANGED <<buckets, closing, writer, req, free_requests, pending, has_more,
                   in_ring, held, in_flight, reapable, disk>>

\* Mutant: the completion is not marked as seen.
SeenNever(t, r) == UNCHANGED reapable

Seen(t, r) == reapable' = [reapable EXCEPT ![t] = @ \ {r}]

\* Mutant: a request that is done is dropped.
GiveBackNever(r) == UNCHANGED free_requests

GiveBack(r) == free_requests' = Append(free_requests, r)

Reap(t) ==
    /\ pc[t] = "reap"
    /\ in_ring[t] > 0
    /\ \E r \in reapable[t] :
         /\ Seen(t, r)
         /\ req' = [req EXCEPT ![r].vectors = <<>>, ![r].size = 0]
         /\ GiveBack(r)
    /\ in_ring' = [in_ring EXCEPT ![t] = @ - 1]
    /\ reap_required' = [reap_required EXCEPT ![t] = FALSE]
    /\ UNCHANGED <<buckets, closing, writer, pending, pc, has_more, held, in_flight,
                   disk>>

NothingToReap(t) ==
    /\ pc[t] = "reap"
    /\ in_ring[t] = 0 \/ (reapable[t] = {} /\ ~reap_required[t])
    /\ Goto(t, "fill")
    /\ UNCHANGED <<buckets, closing, writer, req, free_requests, pending, has_more,
                   reap_required, in_ring, held, in_flight, reapable, disk>>

Prepare(t) ==
    /\ pc[t] = "fill"
    /\ in_ring[t] < RingDepth
    /\ pending # <<>>
    /\ pending' = Tail(pending)
    /\ held' = [held EXCEPT ![t] = @ \cup {Head(pending)}]
    /\ in_ring' = [in_ring EXCEPT ![t] = @ + 1]
    /\ UNCHANGED <<buckets, closing, writer, req, free_requests, pc, has_more,
                   reap_required, in_flight, reapable, disk>>

\* Mutant: the end of the queue is taken for an empty queue.
HasMoreForever(t) == UNCHANGED has_more

\* Poll with no timeout returns FINISH on a closed queue, else TIMEOUT.
HasMore(t) ==
    has_more' = [has_more EXCEPT
                    ![t] = IF in_ring[t] < RingDepth /\ ~pending_open THEN FALSE ELSE @]

Submit(t) ==
    /\ pc[t] = "fill"
    /\ in_ring[t] = RingDepth \/ pending = <<>>
    /\ HasMore(t)
    /\ held' = [held EXCEPT ![t] = {}]
    /\ in_flight' = [in_flight EXCEPT ![t] = @ \cup held[t]]
    /\ Goto(t, "loop")
    /\ UNCHANGED <<buckets, closing, writer, req, free_requests, pending,
                   reap_required, in_ring, reapable, disk>>

\* What writev puts into the file: the buffers of a request one after another.
Pieces(rq) ==
    {[bucket |-> rq.bucket,
      at |-> rq.offset + MapThenSumSet(LAMBDA j : rq.vectors[j].size, 1..(i - 1)),
      size |-> rq.vectors[i].size,
      blocks |-> rq.vectors[i].blocks] : i \in DOMAIN rq.vectors}

Complete(t) ==
    /\ \E r \in in_flight[t] :
         /\ in_flight' = [in_flight EXCEPT ![t] = @ \ {r}]
         /\ reapable' = [reapable EXCEPT ![t] = @ \cup {r}]
         /\ disk' = disk \cup Pieces(req[r])
    /\ UNCHANGED <<buckets, closing, writer, req, free_requests, pending, pc,
                   has_more, reap_required, in_ring, held>>

-----------------------------------------------------------------------------
Writer(w) == NewRequest(w) \/ SubmitRequest(w)

Owner == (\E b \in Buckets : CleanUpBucket(b)) \/ ClosePending \/ Join

IOThread(t) ==
    Loop(t) \/ Reap(t) \/ NothingToReap(t) \/ Prepare(t) \/ Submit(t)

Next ==
    \/ \E w \in Writers : Write(w) \/ Writer(w)
    \/ CallCleanUp \/ Owner
    \/ \E t \in IOThreads : IOThread(t) \/ Complete(t)
    \/ owner = "done" /\ UNCHANGED vars

\* Threads that can go on do, the writers that wait for a request included, and
\* the kernel finishes what is submitted.  Nobody has to call Write or CleanUp.
Spec ==
    /\ Init
    /\ [][Next]_vars
    /\ WF_vars(Owner)
    /\ \A w \in Writers : WF_vars(Writer(w))
    /\ \A t \in IOThreads : WF_vars(IOThread(t)) /\ WF_vars(Complete(t))

-----------------------------------------------------------------------------
(* Properties                                                              *)

TimesIn(r, seq) == Cardinality({i \in DOMAIN seq : seq[i] = r})

InRing(t) == held[t] \cup in_flight[t] \cup reapable[t]

\* A request is in one place at a time: in the pool, in a bucket, with a writer
\* about to submit it, in the queue, or in the ring of one thread.  In two, it
\* would be refilled while it is written (ordered_file_writer.h lines 79-84,
\* 125-134, 214-218).
OneHolder ==
    \A r \in Pool :
        TimesIn(r, free_requests) + TimesIn(r, pending)
        + Cardinality({b \in Buckets \ cleaned : current[b] = r})
        + Cardinality({w \in Writers : writer[w].request = r})
        + Cardinality({t \in IOThreads : r \in InRing(t)}) = 1

\* The vector of a request holds all that is added to it, the tail of CleanUp
\* on top of what the writers left included, and a ring what its counter says
\* (ordered_file_writer.h lines 89, 115, 183, 214 and 251-261).
FitsVectorAndRing ==
    /\ \A r \in Pool : Len(req[r].vectors) <= VectorSize
    /\ \A t \in IOThreads : /\ in_ring[t] = Cardinality(InRing(t))
                            /\ in_ring[t] <= RingDepth

Bytes(piece) == BlockSizes(piece.blocks)

\* The buffers given to Write for a bucket are in its file, and no others.
HoldsItsBlocks(b) == UNION {ToSet(d.blocks) : d \in {e \in disk : e.bucket = b}} = written[b]

\* In the end the file of a bucket has the reported size without a hole or an
\* overlap, in whatever order its requests reached the disk; every buffer given
\* to Write is in it once, its first true_size bytes are their data and nothing
\* else, and an end marker fits behind (lines 178-188, 215-216 and 299-323).
FileIsComplete(b) ==
    LET pieces == {d \in disk : d.bucket = b}
    IN  /\ HoldsItsBlocks(b)
        /\ MapThenSumSet(LAMBDA d : Len(d.blocks), pieces) = Cardinality(written[b])
        /\ \A x, y \in pieces :
                x # y => x.at + x.size <= y.at \/ y.at + y.size <= x.at
        /\ MapThenSumSet(LAMBDA d : d.size, pieces) = result[b].file
        /\ MapThenSumSet(LAMBDA x : x.size, written[b]) = result[b].true
        /\ result[b].true + Metadata <= result[b].file
        /\ result[b].file % Page = 0
        /\ \A d \in pieces : d.at + Bytes(d) <= result[b].true

\* When everybody is done, every bucket has its whole file.
DoneMeansComplete ==
    owner = "done" => \A b \in Buckets : FileIsComplete(b)

\* A writer that waits for a request, its bucket locked, gets one
\* (ordered_file_writer.h lines 126, 148 and 216).
WriteEnds == \A w \in Writers : writer[w].pc # "idle" ~> writer[w].pc = "idle"

\* The I/O threads drain the queue and their rings and leave
\* (ordered_file_writer.h lines 67-121).
CleanUpEnds == owner = "cleaning" ~> owner = "done"

=============================================================================
