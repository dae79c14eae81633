---------------------- MODULE UnorderedFileWriterProofs ----------------------
(***************************************************************************)
(* UnorderedFileWriter for any number of files, threads, producers and     *)
(* blocks and any size of the ring and the queue: the ring is never asked  *)
(* for more than it has, the data of a block is there until it is written, *)
(* and to its callers the writer is a BlockStore.                          *)
(***************************************************************************)
EXTENDS UnorderedFileWriter, FiniteSetTheorems, SequenceTheorems, TLAPS

\* The offsets that callers name, the requests they make and the writes that
\* come of them.
Offsets == {-1} \cup {b * MaxSize : b \in Blocks}
Requests == [block : Blocks, size : 1..MaxSize, file : Files \cup {-1}, offset : Offsets]
Writes == [request : Requests, file : Files, offset : Nat]
Places == {"reap", "batch", "place", "advance", "exited"}

-----------------------------------------------------------------------------
(* What is known of a reachable state                                      *)

\* The types of the variables.
TypeInv ==
    /\ use \in Uses
    /\ owner \in {"open", "waiting", "done"}
    /\ queue_open \in BOOLEAN
    /\ queue \in Seq(Requests) /\ Len(queue) <= QueueSize
    /\ producer \in [Producers -> Requests \cup {NoRequest}]
    /\ pushed \subseteq Requests /\ live \subseteq Requests /\ failed \subseteq Requests
    /\ disk \subseteq [write : Writes, intact : BOOLEAN]
    /\ bytes_issued \in [Files -> Nat]
    /\ pc \in [Workers -> Places]
    /\ phase \in [Workers -> {"NORMAL", "WAITING_FOR_COMPLETION"}]
    /\ current_file \in [Workers -> Nat]
    /\ \A w \in Workers : current_file[w] < Cardinality(FilesOf(w))
    /\ outstanding \in [Workers -> Nat]
    /\ request \in [Workers -> Requests \cup {NoRequest}]
    /\ offset \in [Workers -> Nat]
    /\ held \in [Workers -> SUBSET Writes]
    /\ in_flight \in [Workers -> SUBSET Writes]
    /\ reapable \in [Workers -> SUBSET Writes]

\* How far a worker has got.
StepInv ==
    \A w \in Workers :
        /\ pc[w] \in {"place", "advance"} <=> request[w] # NoRequest
        /\ pc[w] = "advance" => use # "shared"
        /\ pc[w] \in {"batch", "place", "advance"} => phase[w] = "NORMAL"
        /\ pc[w] = "exited" => phase[w] = "WAITING_FOR_COMPLETION" /\ InRing(w) = {}

\* What stays open or closed.
CloseInv ==
    /\ queue_open => owner = "open"
    /\ ~queue_open => AllPushed
    /\ \A w \in Workers :
         phase[w] = "WAITING_FOR_COMPLETION" => ~queue_open /\ queue = <<>>
    /\ owner = "done" => \A w \in Workers : pc[w] = "exited"

\* The callers number their blocks.
Made == live \cup pushed

BlockInv ==
    /\ IsFiniteSet(Made)
    /\ \A r \in Made : r.block <= Cardinality(Made)
    /\ \A r, q \in Made : r.block = q.block => r = q
    /\ \A r \in Made : r \in RequestsFor(r.block)
    /\ \A p \in Producers : producer[p] # NoRequest =>
         /\ producer[p] \in live \ pushed
         /\ \A q \in Producers : producer[q] = producer[p] => q = p

\* What is in the queue, in the hands of a worker and in its ring.
InQueue == {queue[i] : i \in 1..Len(queue)}
InHand(w) == {request[w]} \ {NoRequest}
Requested(w) == {c.request : c \in InRing(w)}
Tasks(w) == InHand(w) \cup Requested(w)

\* A request is in one place.
PlaceInv ==
    /\ \A i, j \in 1..Len(queue) : queue[i] = queue[j] => i = j
    /\ InQueue \subseteq pushed \cap live
    /\ \A w \in Workers :
         /\ Tasks(w) \subseteq pushed \cap live
         /\ Tasks(w) \cap InQueue = {}
         /\ InHand(w) \cap Requested(w) = {}
         /\ \A c, d \in InRing(w) : c.request = d.request => c = d
         /\ \A v \in Workers : v # w => Tasks(v) \cap Tasks(w) = {}

\* The ring of a worker and its counter.
RingInv ==
    \A w \in Workers :
        /\ IsFiniteSet(InRing(w))
        /\ outstanding[w] = Cardinality(InRing(w))
        /\ outstanding[w] <= MaxOutstanding
        /\ held[w] \cap (in_flight[w] \cup reapable[w]) = {}
        /\ in_flight[w] \cap reapable[w] = {}
        /\ pc[w] \in {"place", "advance"} => /\ Cardinality(held[w]) < RingSize
                                             /\ outstanding[w] < MaxOutstanding

\* What is dealt with, and what is not.
Stored == {d.write : d \in disk}
Settled == failed \cup {c.request : c \in Stored}

SettledInv ==
    /\ Settled \subseteq pushed
    /\ InQueue \cap Settled = {}
    /\ \A w \in Workers :
         /\ InHand(w) \cap Settled = {}
         /\ \A c \in held[w] \cup in_flight[w] : c.request \notin Settled
         /\ \A c \in reapable[w] : c.request \in Settled
    /\ \A r \in pushed \ Settled : r \in InQueue \/ \E w \in Workers : r \in Tasks(w)
    /\ WrittenIntact

\* The writes that have a place.
Placed == Stored \cup UNION {InRing(w) : w \in Workers}

ExtentInv ==
    /\ \A c \in Placed :
         /\ c.request \in pushed
         /\ c.request.file # -1 => c.file = c.request.file
         /\ IF use = "explicit" THEN c.offset = c.request.block * MaxSize
            ELSE c.offset + c.request.size <= bytes_issued[c.file]
    /\ \A c, d \in Placed : c.request = d.request => c = d
    /\ \A c, d \in Placed : c # d => Store!Disjoint(c, d)
    /\ \A w \in Workers : pc[w] = "advance" =>
         IF use = "explicit" THEN offset[w] = request[w].block * MaxSize
         ELSE offset[w] = bytes_issued[FileFor(w)]

\* The requests that were given a place, failed ones included.
Started == {r \in pushed : r \notin InQueue /\ \A w \in Workers : request[w] # r}

BoundInv ==
    /\ Cardinality(Made) <= MaxBlocks
    /\ use # "explicit" => \A f \in Files : bytes_issued[f] <= Cardinality(Started) * MaxSize

-----------------------------------------------------------------------------
(* The files of a worker                                                   *)

\* What the assumptions say of the numbers.
LEMMA Sizes ==
    /\ NumFiles \in Nat \ {0} /\ NumThreads \in Nat \ {0}
    /\ RingSize \in Nat \ {0} /\ QueueSize \in Nat \ {0}
    /\ MaxSize \in Nat \ {0} /\ MaxBlocks \in Nat
    /\ MaxOutstanding \in Nat
    /\ Targets \subseteq Files
    /\ \A w \in Workers : w \in Nat /\ w < NumThreads /\ w \in Files
    /\ 0 \in Workers
    /\ NoRequest \notin Requests
BY SizesAssumption, TargetsAssumption
   DEF MaxOutstanding, Workers, Files, NoRequest, Requests, Blocks

\* A worker has at least one file, and the files of its turns are its own.
LEMMA FileTurns ==
    ASSUME NEW w \in Workers
    PROVE  /\ Cardinality(FilesOf(w)) \in Nat \ {0}
           /\ \A k \in Nat : k < Cardinality(FilesOf(w)) =>
                /\ w + NumThreads * k \in Files
                /\ (w + NumThreads * k) % NumThreads = w
<1> DEFINE T == NumThreads
<1>1. T \in Int /\ T > 0 /\ NumFiles \in Nat /\ w \in 0..(T - 1) /\ w \in Files
  BY Sizes
<1>2. IsFiniteSet(FilesOf(w))
  <2>1. IsFiniteSet(Files)
    BY <1>1, FS_Interval DEF Files
  <2> QED BY <2>1, FS_Subset DEF FilesOf
<1>3. w \in FilesOf(w)
  BY <1>1 DEF FilesOf
<1>4. Cardinality(FilesOf(w)) \in Nat \ {0}
  BY <1>2, <1>3, FS_CardinalityType, FS_EmptySet
<1> HIDE DEF T
<1>5. ASSUME NEW k \in Nat, w + T * k >= NumFiles
      PROVE  Cardinality(FilesOf(w)) <= k
  <2> DEFINE turn == [f \in FilesOf(w) |-> f \div T]
  <2>1. ASSUME NEW f \in FilesOf(w) PROVE f \div T \in 0..(k - 1) /\ f \in Int /\ f % T = w
    <3>1. f \in Nat /\ f < NumFiles /\ f % T = w
      BY <1>1 DEF FilesOf, Files, T
    <3>2. f = T * (f \div T) + (f % T)
      BY <1>1, <3>1
    <3>3. f \div T \in Nat
      BY <1>1, <3>1
    <3>4. T * (f \div T) < T * k
      BY <1>1, <1>5, <3>1, <3>2, <3>3
    <3>5. f \div T < k
      BY <1>1, <3>3, <3>4
    <3> QED BY <3>1, <3>3, <3>5
  <2>2. \A f, g \in FilesOf(w) : f \div T = g \div T => f = g
    <3> SUFFICES ASSUME NEW f \in FilesOf(w), NEW g \in FilesOf(w), f \div T = g \div T
                 PROVE  f = g
      OBVIOUS
    <3>1. f \in Int /\ g \in Int /\ f % T = g % T
      BY <2>1
    <3> QED BY <1>1, <3>1
  <2>3. turn \in Injection(FilesOf(w), 0..(k - 1))
    BY <2>1, <2>2 DEF Injection, IsInjective
  <2>4. IsFiniteSet(0..(k - 1)) /\ Cardinality(0..(k - 1)) = k
    BY FS_Interval
  <2> QED BY <2>3, <2>4, FS_Injection
<1>6. ASSUME NEW k \in Nat, k < Cardinality(FilesOf(w))
      PROVE  w + NumThreads * k \in Files /\ (w + NumThreads * k) % NumThreads = w
  <2>1. w + T * k < NumFiles
    BY <1>1, <1>4, <1>5, <1>6
  <2>2. w + T * k \in Nat
    BY <1>1
  <2>3. (w + T * k) % T = w
    BY <1>1
  <2> QED BY <1>1, <2>1, <2>2, <2>3 DEF T, Files
<1> QED BY <1>4, <1>6

-----------------------------------------------------------------------------
(* Types                                                                   *)

\* The parts of a request that a caller makes.
LEMMA RequestParts ==
    ASSUME NEW r \in Requests
    PROVE  /\ r.block \in Blocks /\ r.block \in Nat /\ r.size \in 1..MaxSize /\ r.size \in Nat
           /\ r.file \in Files \cup {-1} /\ r.offset \in Offsets
           /\ r.offset # -1 => r.offset \in Nat
           /\ r.block * MaxSize \in Nat
<1>1. \A b \in Blocks : b \in Nat /\ b * MaxSize \in Nat
  BY Sizes DEF Blocks
<1> QED BY <1>1, Sizes DEF Requests, Offsets

\* The callers make such requests.
LEMMA RequestsMade ==
    ASSUME NEW b \in Blocks
    PROVE  RequestsFor(b) \subseteq Requests \ {NoRequest}
<1> SUFFICES ASSUME NEW r \in RequestsFor(b) PROVE r \in Requests
  BY Sizes
<1>1. r = [block |-> r.block, size |-> r.size, file |-> r.file, offset |-> r.offset]
  BY DEF RequestsFor
<1>2. r.block = b /\ r.size \in 1..MaxSize /\ r.file \in Files \cup {-1}
  BY Sizes DEF RequestsFor
<1>3. r.offset \in Offsets
  BY DEF RequestsFor, Offsets
<1> QED BY <1>1, <1>2, <1>3 DEF Requests

\* The initial state.
LEMMA TypeInvInit == Init => TypeInv
<1> SUFFICES ASSUME Init PROVE TypeInv
  OBVIOUS
<1>1. \A w \in Workers : 0 < Cardinality(FilesOf(w))
  BY FileTurns
<1>2. queue \in Seq(Requests) /\ Len(queue) = 0
  BY DEF Init
<1> QED BY <1>1, <1>2, Sizes DEF Init, TypeInv, Places

\* The file of the request in hand is one of the files.
LEMMA FileForType ==
    ASSUME TypeInv, NEW w \in Workers
    PROVE  /\ FileFor(w) \in Files
           /\ request[w].file = -1 => FileFor(w) % NumThreads = w
           /\ request[w].file # -1 => FileFor(w) = request[w].file
<1>1. current_file[w] \in Nat /\ current_file[w] < Cardinality(FilesOf(w))
  BY DEF TypeInv
<1>2. request[w] \in Requests \/ request[w] = NoRequest
  BY DEF TypeInv
<1>3. request[w].file \in Files \cup {-1}
  BY <1>2, RequestParts DEF NoRequest
<1> QED BY <1>1, <1>3, FileTurns DEF FileFor

\* A request that is placed becomes a write.
LEMMA PrepareTypes ==
    ASSUME TypeInv, NEW w \in Workers, NEW o \in Nat, request[w] # NoRequest, Prepare(w, o)
    PROVE  /\ Write(request[w], FileFor(w), o) \in Writes
           /\ held' \in [Workers -> SUBSET Writes]
           /\ outstanding' \in [Workers -> Nat]
           /\ current_file' \in [Workers -> Nat]
           /\ \A v \in Workers : current_file'[v] < Cardinality(FilesOf(v))
           /\ request' \in [Workers -> Requests \cup {NoRequest}]
           /\ offset' \in [Workers -> Nat]
           /\ pc' \in [Workers -> Places]
<1>1. request[w] \in Requests
  BY DEF TypeInv
<1>2. Write(request[w], FileFor(w), o) \in Writes
  BY <1>1, FileForType DEF Write, Writes
<1>3. held' \in [Workers -> SUBSET Writes]
  BY <1>2 DEF Prepare, TypeInv
<1>4. outstanding' \in [Workers -> Nat] /\ offset' \in [Workers -> Nat]
  BY DEF Prepare, TypeInv
<1>5. request' \in [Workers -> Requests \cup {NoRequest}] /\ pc' \in [Workers -> Places]
  BY DEF Prepare, Goto, TypeInv, Places
<1>6. /\ current_file' \in [Workers -> Nat]
      /\ \A v \in Workers : current_file'[v] < Cardinality(FilesOf(v))
  <2> DEFINE n == Cardinality(FilesOf(w))
             turn == (current_file[w] + 1) % n
  <2>1. n \in Nat \ {0} /\ current_file[w] \in Nat
    BY FileTurns DEF TypeInv
  <2> HIDE DEF n
  <2>2. turn \in Nat /\ turn < n
    BY <2>1
  <2>3. current_file' = current_file \/ current_file' = [current_file EXCEPT ![w] = turn]
    BY DEF Prepare, NextTurn, n
  <2> HIDE DEF turn
  <2> QED BY <2>2, <2>3 DEF TypeInv, n
<1> QED BY <1>2, <1>3, <1>4, <1>5, <1>6

\* Every step keeps the types.
LEMMA TypeInvNext == TypeInv /\ StepInv /\ RingInv /\ [Next]_vars => TypeInv'
<1> SUFFICES ASSUME TypeInv, StepInv, RingInv, [Next]_vars PROVE TypeInv'
  OBVIOUS
<1>1. ASSUME NEW p \in Producers, CallPush(p) PROVE TypeInv'
  <2>1. PICK r \in RequestsFor(NextBlock) :
          /\ producer' = [producer EXCEPT ![p] = r]
          /\ live' = live \cup {r}
    BY <1>1 DEF CallPush
  <2>2. r \in Requests
    BY <1>1, <2>1, RequestsMade DEF CallPush
  <2> QED BY <1>1, <2>1, <2>2 DEF CallPush, placing, TypeInv
<1>2. ASSUME NEW p \in Producers, Push(p) PROVE TypeInv'
  <2>1. producer[p] \in Requests
    BY <1>2 DEF Push, TypeInv
  <2>2. /\ queue' \in Seq(Requests) /\ Len(queue') = Len(queue) + 1
        /\ Len(queue) \in Nat /\ Len(queue) < QueueSize
    BY <1>2, <2>1, AppendProperties, LenProperties DEF Push, TypeInv
  <2>3. Len(queue') <= QueueSize
    BY <2>2, Sizes
  <2> QED BY <1>2, <2>1, <2>2, <2>3 DEF Push, placing, ring, TypeInv
<1>3. CASE Close \/ Wait \/ WaitReturns
  BY <1>3 DEF Close, Wait, WaitReturns, placing, ring, TypeInv
<1>4. ASSUME NEW w \in Workers, Reap(w) PROVE TypeInv'
  <2>1. reapable' \in [Workers -> SUBSET Writes] /\ live' \subseteq live
    BY <1>4 DEF Reap, TypeInv
  <2>2. outstanding' \in [Workers -> Nat]
    <3>1. InRing(w) # {} /\ IsFiniteSet(InRing(w)) /\ outstanding[w] = Cardinality(InRing(w))
      BY <1>4 DEF Reap, InRing, RingInv
    <3>2. outstanding[w] - 1 \in Nat
      BY <3>1, FS_CardinalityType, FS_EmptySet
    <3> QED BY <1>4, <3>2 DEF Reap, TypeInv
  <2> QED BY <1>4, <2>1, <2>2 DEF Reap, callers, placing, TypeInv
<1>5. ASSUME NEW w \in Workers, NothingToReap(w) PROVE TypeInv'
  BY <1>5 DEF NothingToReap, Goto, callers, placing, ring, TypeInv, Places
<1>6. ASSUME NEW w \in Workers, Poll(w) PROVE TypeInv'
  <2>1. /\ Head(queue) \in Requests /\ Tail(queue) \in Seq(Requests)
        /\ Len(Tail(queue)) = Len(queue) - 1
    BY <1>6, HeadTailProperties DEF Poll, TypeInv
  <2>2. Len(queue) \in Nat /\ Len(queue') <= QueueSize
    BY <1>6, <2>1, LenProperties, Sizes DEF Poll, TypeInv
  <2> QED BY <1>6, <2>1, <2>2 DEF Poll, Goto, callers, ring, TypeInv, Places
<1>7. ASSUME NEW w \in Workers, PlaceAtomic(w) PROVE TypeInv'
  <2>1. request[w] # NoRequest /\ FileFor(w) \in Files
    BY <1>7, FileForType DEF PlaceAtomic, StepInv
  <2>2. request[w].size \in Nat /\ bytes_issued[FileFor(w)] \in Nat
    BY <2>1, RequestParts DEF TypeInv
  <2>3. bytes_issued' \in [Files -> Nat]
    BY <1>7, <2>1, <2>2 DEF PlaceAtomic, TypeInv
  <2>4. Prepare(w, bytes_issued[FileFor(w)])
    BY <1>7 DEF PlaceAtomic
  <2> QED BY <1>7, <2>1, <2>2, <2>3, <2>4, PrepareTypes
          DEF PlaceAtomic, Prepare, callers, TypeInv
<1>8. ASSUME NEW w \in Workers, ReadCursor(w) PROVE TypeInv'
  <2>1. request[w] # NoRequest /\ FileFor(w) \in Files
    BY <1>8, FileForType DEF ReadCursor, StepInv
  <2>2. /\ request[w].offset # -1 => request[w].offset \in Nat
        /\ bytes_issued[FileFor(w)] \in Nat
    BY <2>1, RequestParts DEF TypeInv
  <2>3. offset' \in [Workers -> Nat]
    BY <1>8, <2>2 DEF ReadCursor, TypeInv
  <2> QED BY <1>8, <2>3 DEF ReadCursor, Goto, callers, ring, TypeInv, Places
<1>9. ASSUME NEW w \in Workers, PlacePlain(w) PROVE TypeInv'
  <2>1. request[w] # NoRequest /\ FileFor(w) \in Files /\ offset[w] \in Nat
    BY <1>9, FileForType DEF PlacePlain, StepInv, TypeInv
  <2>2. request[w].size \in Nat /\ bytes_issued[FileFor(w)] \in Nat
    BY <2>1, RequestParts DEF TypeInv
  <2>3. PICK from \in {bytes_issued[FileFor(w)], offset[w]} :
          bytes_issued' = [bytes_issued EXCEPT ![FileFor(w)] = from + request[w].size]
    BY <1>9 DEF PlacePlain, AdvanceCursor
  <2>4. bytes_issued' \in [Files -> Nat]
    BY <2>1, <2>2, <2>3 DEF TypeInv
  <2>5. Prepare(w, offset[w])
    BY <1>9 DEF PlacePlain
  <2> QED BY <1>9, <2>1, <2>4, <2>5, PrepareTypes DEF PlacePlain, Prepare, callers, TypeInv
<1>10. ASSUME NEW w \in Workers, BatchFull(w) \/ PollFinish(w) PROVE TypeInv'
  <2>1. held' \in [Workers -> SUBSET Writes] /\ in_flight' \in [Workers -> SUBSET Writes]
    <3>1. held' = [held EXCEPT ![w] = {}] /\ held \in [Workers -> SUBSET Writes]
      BY <1>10 DEF BatchFull, PollFinish, Submit, TypeInv
    <3>2. /\ in_flight' = [in_flight EXCEPT ![w] = @ \cup held[w]]
          /\ in_flight \in [Workers -> SUBSET Writes]
      BY <1>10 DEF BatchFull, PollFinish, Submit, TypeInv
    <3>3. {} \in SUBSET Writes /\ in_flight[w] \cup held[w] \in SUBSET Writes
      BY <3>1, <3>2
    <3> QED BY <3>1, <3>2, <3>3
  <2>2. phase' \in [Workers -> {"NORMAL", "WAITING_FOR_COMPLETION"}]
    BY <1>10 DEF BatchFull, PollFinish, TypeInv
  <2> QED BY <1>10, <2>1, <2>2
          DEF BatchFull, PollFinish, Submit, Goto, callers, placing, TypeInv, Places
<1>11. ASSUME NEW w \in Workers, Succeed(w) PROVE TypeInv'
  <2>1. PICK c \in in_flight[w] :
          /\ in_flight' = [in_flight EXCEPT ![w] = @ \ {c}]
          /\ reapable' = [reapable EXCEPT ![w] = @ \cup {c}]
          /\ disk' = disk \cup {[write |-> c, intact |-> c.request \in live]}
    BY <1>11 DEF Succeed
  <2>2. c \in Writes
    BY <2>1 DEF TypeInv
  <2>3. [write |-> c, intact |-> c.request \in live] \in [write : Writes, intact : BOOLEAN]
    BY <2>2
  <2>4. /\ disk' \subseteq [write : Writes, intact : BOOLEAN]
        /\ in_flight' \in [Workers -> SUBSET Writes]
        /\ reapable' \in [Workers -> SUBSET Writes]
    BY <2>1, <2>2, <2>3 DEF TypeInv
  <2> QED BY <1>11, <2>4 DEF Succeed, callers, placing, TypeInv
<1>12. ASSUME NEW w \in Workers, FailWrite(w) PROVE TypeInv'
  <2>1. PICK c \in in_flight[w] :
          /\ in_flight' = [in_flight EXCEPT ![w] = @ \ {c}]
          /\ reapable' = [reapable EXCEPT ![w] = @ \cup {c}]
          /\ failed' = failed \cup {c.request}
    BY <1>12 DEF FailWrite
  <2>2. c \in Writes /\ c.request \in Requests
    BY <2>1 DEF TypeInv, Writes
  <2> QED BY <1>12, <2>1, <2>2 DEF FailWrite, callers, placing, TypeInv
<1>13. CASE UNCHANGED vars
  BY <1>13 DEF vars, callers, placing, ring, TypeInv
<1> QED
  BY <1>1, <1>2, <1>3, <1>4, <1>5, <1>6, <1>7, <1>8, <1>9, <1>10, <1>11, <1>12, <1>13
     DEF Next, Worker, Complete

-----------------------------------------------------------------------------
(* Workers and their steps                                                 *)

\* A step of one worker, or of the kernel for it, is no business of another.
LEMMA OtherWorkers ==
    ASSUME TypeInv, NEW w \in Workers, Worker(w) \/ Complete(w), NEW v \in Workers, v # w
    PROVE  /\ UNCHANGED <<pc[v], phase[v], request[v], offset[v], outstanding[v]>>
           /\ UNCHANGED <<held[v], in_flight[v], reapable[v]>>
           /\ UNCHANGED <<InRing(v), InHand(v), Requested(v), Tasks(v)>>
           /\ current_file'[v] = current_file[v]
<1>1. /\ pc'[v] = pc[v] /\ phase'[v] = phase[v] /\ request'[v] = request[v]
      /\ offset'[v] = offset[v] /\ outstanding'[v] = outstanding[v]
      /\ current_file'[v] = current_file[v] /\ held'[v] = held[v]
      /\ in_flight'[v] = in_flight[v] /\ reapable'[v] = reapable[v]
  <2> USE DEF Goto, callers, placing, ring, TypeInv
  <2>1. CASE Reap(w) \/ NothingToReap(w) \/ Poll(w)
    BY <2>1 DEF Reap, NothingToReap, Poll
  <2>2. CASE PlaceAtomic(w) \/ PlacePlain(w)
    BY <2>2 DEF PlaceAtomic, PlacePlain, Prepare, NextTurn
  <2>3. CASE ReadCursor(w)
    BY <2>3 DEF ReadCursor
  <2>4. CASE BatchFull(w) \/ PollFinish(w)
    BY <2>4 DEF BatchFull, PollFinish, Submit
  <2>5. CASE Succeed(w) \/ FailWrite(w)
    BY <2>5 DEF Succeed, FailWrite
  <2> QED BY <2>1, <2>2, <2>3, <2>4, <2>5 DEF Worker, Complete
<1>2. UNCHANGED <<InRing(v), InHand(v)>>
  BY <1>1 DEF InRing, InHand
<1>3. UNCHANGED <<Requested(v), Tasks(v)>>
  BY <1>2 DEF Requested, Tasks
<1> QED BY <1>1, <1>2, <1>3

\* A step of the callers, or of nobody.
CallerStep ==
    \/ \E p \in Producers : CallPush(p) \/ Push(p)
    \/ Close \/ Wait \/ WaitReturns \/ UNCHANGED vars

\* The callers leave the workers alone.
LEMMA CallersSteps ==
    ASSUME CallerStep
    PROVE  /\ UNCHANGED <<pc, phase, request, offset, outstanding, current_file, bytes_issued>>
           /\ UNCHANGED <<held, in_flight, reapable, disk, failed, use>>
           /\ \A w : UNCHANGED <<InRing(w), InHand(w), Requested(w), Tasks(w)>>
<1>1. /\ UNCHANGED <<pc, phase, request, offset, outstanding, current_file, bytes_issued>>
      /\ UNCHANGED <<held, in_flight, reapable, disk, failed, use>>
  BY DEF CallerStep, CallPush, Push, Close, Wait, WaitReturns, vars, callers, placing, ring
<1>2. \A w : UNCHANGED <<InRing(w), InHand(w)>>
  BY <1>1 DEF InRing, InHand
<1>3. \A w : UNCHANGED <<Requested(w), Tasks(w)>>
  BY <1>2 DEF Requested, Tasks
<1> QED BY <1>1, <1>2, <1>3

\* What each step does to the ring of its worker.
LEMMA RingUnchanged ==
    ASSUME NEW w \in Workers,
           NothingToReap(w) \/ Poll(w) \/ ReadCursor(w) \/ BatchFull(w) \/ PollFinish(w)
             \/ Succeed(w) \/ FailWrite(w),
           TypeInv
    PROVE  InRing(w)' = InRing(w)
<1>1. CASE NothingToReap(w) \/ Poll(w) \/ ReadCursor(w)
  BY <1>1 DEF NothingToReap, Poll, ReadCursor, ring, InRing
<1>2. CASE BatchFull(w) \/ PollFinish(w)
  <2>1. /\ held'[w] = {} /\ in_flight'[w] = in_flight[w] \cup held[w]
        /\ reapable'[w] = reapable[w]
    BY <1>2 DEF BatchFull, PollFinish, Submit, TypeInv
  <2> QED BY <2>1 DEF InRing
<1>3. CASE Succeed(w) \/ FailWrite(w)
  <2>1. PICK c \in in_flight[w] :
          /\ in_flight' = [in_flight EXCEPT ![w] = @ \ {c}]
          /\ reapable' = [reapable EXCEPT ![w] = @ \cup {c}]
    BY <1>3 DEF Succeed, FailWrite
  <2>2. /\ in_flight'[w] = in_flight[w] \ {c} /\ reapable'[w] = reapable[w] \cup {c}
        /\ held'[w] = held[w]
    BY <1>3, <2>1 DEF Succeed, FailWrite, TypeInv
  <2> QED BY <2>1, <2>2 DEF InRing
<1> QED BY <1>1, <1>2, <1>3

\* A worker that exits has an empty ring.
LEMMA NothingOutstanding ==
    ASSUME TypeInv, RingInv, NEW w \in Workers, outstanding[w] = 0
    PROVE  InRing(w) = {}
BY FS_EmptySet DEF RingInv

\* Every step keeps the order of a worker's steps.
LEMMA StepInvNext == TypeInv /\ RingInv /\ StepInv /\ [Next]_vars => StepInv'
<1> SUFFICES ASSUME TypeInv, RingInv, StepInv, [Next]_vars PROVE StepInv'
  OBVIOUS
<1>1. CASE CallerStep
  BY <1>1, CallersSteps DEF StepInv
<1>2. ASSUME NEW w \in Workers, Worker(w) \/ Complete(w) PROVE StepInv'
  <2> DEFINE Kept(v) ==
        /\ pc[v] \in {"place", "advance"} <=> request[v] # NoRequest
        /\ pc[v] = "advance" => use # "shared"
        /\ pc[v] \in {"batch", "place", "advance"} => phase[v] = "NORMAL"
        /\ pc[v] = "exited" => phase[v] = "WAITING_FOR_COMPLETION" /\ InRing(v) = {}
  <2>1. use' = use
    BY <1>2 DEF Worker, Reap, NothingToReap, Poll, PlaceAtomic, ReadCursor, PlacePlain,
                BatchFull, PollFinish, Submit, Complete, Succeed, FailWrite, callers
  <2>2. \A v \in Workers : v # w => Kept(v)'
    BY <1>2, <2>1, OtherWorkers DEF StepInv
  <2>3. Kept(w)'
    <3>1. Kept(w) /\ pc[w] \in Places
      BY DEF StepInv, TypeInv
    <3> USE DEF TypeInv, Goto
    <3>2. CASE Reap(w)
      BY <2>1, <3>1, <3>2 DEF Reap, placing
    <3>3. CASE NothingToReap(w)
      <4>1. pc[w] = "reap" /\ UNCHANGED <<request, phase, use>>
        BY <3>3 DEF NothingToReap, callers, placing
      <4>2. CASE phase[w] = "NORMAL"
        BY <3>1, <3>3, <4>1, <4>2 DEF NothingToReap
      <4>3. CASE phase[w] = "WAITING_FOR_COMPLETION"
        <5>1. pc'[w] = "exited" /\ outstanding[w] = 0
          BY <3>3, <4>3 DEF NothingToReap, BlocksInReap
        <5>2. InRing(w)' = {}
          BY <3>3, <5>1, NothingOutstanding, RingUnchanged
        <5> QED BY <3>1, <4>1, <4>3, <5>1, <5>2
      <4> QED BY <4>2, <4>3
    <3>4. CASE Poll(w)
      <4>1. Head(queue) \in Requests
        BY <3>4, HeadTailProperties DEF Poll
      <4> QED BY <3>1, <3>4, <4>1, Sizes DEF Poll
    <3>5. CASE PlaceAtomic(w) \/ PlacePlain(w)
      BY <3>1, <3>5 DEF PlaceAtomic, PlacePlain, Prepare
    <3>6. CASE ReadCursor(w)
      BY <2>1, <3>1, <3>6 DEF ReadCursor
    <3>7. CASE BatchFull(w) \/ PollFinish(w)
      BY <3>1, <3>7 DEF BatchFull, PollFinish, Submit, placing
    <3>8. CASE Succeed(w) \/ FailWrite(w)
      <4>1. UNCHANGED <<pc, phase, request, use>>
        BY <3>8 DEF Succeed, FailWrite, callers, placing
      <4> QED BY <3>1, <3>8, <4>1, RingUnchanged
    <3> QED BY <1>2, <3>2, <3>3, <3>4, <3>5, <3>6, <3>7, <3>8 DEF Worker, Complete
  <2> HIDE DEF Kept
  <2>4. \A v \in Workers : Kept(v)'
    BY <2>2, <2>3
  <2> QED BY <2>4 DEF Kept, StepInv
<1> QED BY <1>1, <1>2 DEF Next, CallerStep

\* The initial state.
LEMMA StepInvInit == Init => StepInv
BY DEF Init, StepInv

\* Which variables the workers leave to the callers.
LEMMA WorkersSteps ==
    ASSUME NEW w \in Workers, Worker(w) \/ Complete(w)
    PROVE  /\ UNCHANGED <<use, owner, queue_open, producer, pushed>>
           /\ ~Poll(w) => UNCHANGED queue
           /\ ~Reap(w) => UNCHANGED live
           /\ ~Complete(w) => UNCHANGED <<disk, failed>>
           /\ ~(PlaceAtomic(w) \/ PlacePlain(w)) => UNCHANGED bytes_issued
BY DEF Worker, Reap, NothingToReap, Poll, PlaceAtomic, ReadCursor, PlacePlain, Prepare, BatchFull,
       PollFinish, Submit, Complete, Succeed, FailWrite, callers, placing, ring

\* Every step keeps closed what is closed, and nothing comes after the end of
\* the queue.
LEMMA CloseInvNext == TypeInv /\ StepInv /\ CloseInv /\ [Next]_vars => CloseInv'
<1> SUFFICES ASSUME TypeInv, StepInv, CloseInv, [Next]_vars PROVE CloseInv'
  OBVIOUS
<1>1. ASSUME NEW p \in Producers, CallPush(p) PROVE CloseInv'
  BY <1>1 DEF CallPush, CloseInv, TypeInv
<1>2. ASSUME NEW p \in Producers, Push(p) PROVE CloseInv'
  <2>1. queue_open
    BY <1>2 DEF Push, CloseInv, AllPushed
  <2> QED BY <1>2, <2>1 DEF Push, CloseInv, TypeInv
<1>3. CASE Close \/ Wait \/ WaitReturns
  BY <1>3 DEF Close, Wait, WaitReturns, CloseInv, AllPushed, TypeInv
<1>4. ASSUME NEW w \in Workers, Worker(w) \/ Complete(w) PROVE CloseInv'
  <2>1. UNCHANGED <<owner, queue_open, producer>>
    BY <1>4, WorkersSteps
  <2>2. \A v \in Workers : phase'[v] = "WAITING_FOR_COMPLETION" => ~queue_open /\ queue' = <<>>
    <3> SUFFICES ASSUME NEW v \in Workers, phase'[v] = "WAITING_FOR_COMPLETION"
                 PROVE  ~queue_open /\ queue' = <<>>
      OBVIOUS
    <3>1. CASE phase[v] = "WAITING_FOR_COMPLETION"
      <4>1. ~queue_open /\ queue = <<>>
        BY <3>1 DEF CloseInv
      <4>2. ~Poll(w)
        BY <4>1 DEF Poll
      <4> QED BY <1>4, <4>1, <4>2, WorkersSteps
    <3>2. CASE phase[v] # "WAITING_FOR_COMPLETION"
      <4>1. v = w
        BY <1>4, <3>2, OtherWorkers
      <4>2. PollFinish(w)
        BY <1>4, <3>2, <4>1
           DEF Worker, Reap, NothingToReap, Poll, PlaceAtomic, ReadCursor, PlacePlain,
               BatchFull, Complete, Succeed, FailWrite
      <4> QED BY <4>2 DEF PollFinish, Submit
    <3> QED BY <3>1, <3>2
  <2>3. owner' = "done" => \A v \in Workers : pc'[v] = "exited"
    <3> SUFFICES ASSUME owner = "done" PROVE \A v \in Workers : pc'[v] = "exited"
      BY <2>1
    <3>1. \A v \in Workers : pc[v] = "exited"
      BY DEF CloseInv
    <3>2. ~Worker(w)
      BY <3>1 DEF Worker, Reap, NothingToReap, Poll, PlaceAtomic, ReadCursor, PlacePlain,
                  BatchFull, PollFinish
    <3> QED BY <1>4, <3>1, <3>2 DEF Complete, Succeed, FailWrite
  <2> QED BY <2>1, <2>2, <2>3 DEF CloseInv, AllPushed
<1>5. CASE UNCHANGED vars
  BY <1>5 DEF vars, callers, CloseInv, AllPushed
<1> QED BY <1>1, <1>2, <1>3, <1>4, <1>5 DEF Next

\* The initial state.
LEMMA CloseInvInit == Init => CloseInv
BY DEF Init, CloseInv, AllPushed

\* Every step keeps the blocks numbered.
LEMMA BlockInvNext == TypeInv /\ PlaceInv /\ BlockInv /\ [Next]_vars => BlockInv'
<1> SUFFICES ASSUME TypeInv, PlaceInv, BlockInv, [Next]_vars PROVE BlockInv'
  OBVIOUS
<1>1. use' = use => \A b : RequestsFor(b)' = RequestsFor(b)
  BY DEF RequestsFor
<1>2. Made \subseteq Requests /\ \A r \in Requests : r.block \in Nat
  BY RequestParts DEF Made, TypeInv
<1>3. Cardinality(Made) \in Nat
  BY FS_CardinalityType DEF BlockInv
<1>4. ASSUME NEW p \in Producers, CallPush(p) PROVE BlockInv'
  <2>1. PICK r \in RequestsFor(NextBlock) :
          producer' = [producer EXCEPT ![p] = r] /\ live' = live \cup {r}
    BY <1>4 DEF CallPush
  <2>2. /\ pushed' = pushed /\ producer[p] = NoRequest /\ NextBlock \in Blocks
        /\ use' = use
    BY <1>4 DEF CallPush
  <2>3. r.block = Cardinality(Made) + 1
    BY <2>1 DEF RequestsFor, NextBlock, Made
  <2>4. r \notin Made
    BY <1>2, <1>3, <2>3 DEF BlockInv
  <2>5. Made' = Made \cup {r}
    BY <2>1, <2>2 DEF Made
  <2>6. IsFiniteSet(Made') /\ Cardinality(Made') = Cardinality(Made) + 1
    BY <2>4, <2>5, FS_AddElement DEF BlockInv
  <2>7. \A q \in Made' : q.block <= Cardinality(Made')
    BY <1>2, <1>3, <2>3, <2>5, <2>6 DEF BlockInv
  <2>8. \A x, y \in Made' : x.block = y.block => x = y
    BY <1>2, <1>3, <2>3, <2>5 DEF BlockInv
  <2>9. \A q \in Made' : q \in RequestsFor(q.block)'
    BY <1>1, <2>1, <2>2, <2>3, <2>5 DEF BlockInv, NextBlock, Made
  <2>10. \A q \in Producers : producer[q] # NoRequest => producer[q] \in Made
    BY DEF BlockInv, Made
  <2>11. \A q \in Producers : producer'[q] = IF q = p THEN r ELSE producer[q]
    BY <2>1 DEF TypeInv
  <2>12. r \in live' /\ r \notin pushed' /\ live \subseteq live'
    BY <2>1, <2>2, <2>4 DEF Made
  <2>13. \A x \in Producers : producer'[x] # NoRequest =>
           /\ producer'[x] \in live' \ pushed'
           /\ \A y \in Producers : producer'[y] = producer'[x] => y = x
    <3> SUFFICES ASSUME NEW x \in Producers, producer'[x] # NoRequest
                 PROVE  /\ producer'[x] \in live' \ pushed'
                        /\ \A y \in Producers : producer'[y] = producer'[x] => y = x
      OBVIOUS
    <3>1. CASE x = p
      BY <2>4, <2>10, <2>11, <2>12, <3>1
    <3>2. CASE x # p
      BY <2>2, <2>4, <2>10, <2>11, <2>12, <3>2 DEF BlockInv
    <3> QED BY <3>1, <3>2
  <2> QED BY <2>6, <2>7, <2>8, <2>9, <2>13 DEF BlockInv
<1>5. ASSUME NEW p \in Producers, Push(p) PROVE BlockInv'
  <2>1. /\ producer[p] # NoRequest /\ live' = live /\ use' = use
        /\ pushed' = pushed \cup {producer[p]}
        /\ \A q \in Producers : producer'[q] = IF q = p THEN NoRequest ELSE producer[q]
    BY <1>5 DEF Push, ring, TypeInv
  <2>2. Made' = Made
    BY <2>1 DEF Made, BlockInv
  <2> QED BY <1>1, <2>1, <2>2 DEF BlockInv
<1>6. ASSUME NEW w \in Workers, Reap(w) PROVE BlockInv'
  <2>1. PICK c \in reapable[w] : live' = live \ {c.request}
    BY <1>6 DEF Reap
  <2>2. UNCHANGED <<use, producer, pushed>>
    BY <1>6, WorkersSteps DEF Worker
  <2>3. c.request \in pushed
    BY <2>1 DEF PlaceInv, Tasks, Requested, InRing
  <2>4. Made' = Made
    BY <2>1, <2>2, <2>3 DEF Made
  <2> QED BY <1>1, <2>1, <2>2, <2>3, <2>4 DEF BlockInv
<1>7. ASSUME UNCHANGED <<use, producer, pushed, live>> PROVE BlockInv'
  <2>1. Made' = Made
    BY <1>7 DEF Made
  <2> QED BY <1>1, <1>7, <2>1 DEF BlockInv
<1>8. ASSUME NEW w \in Workers, Worker(w) \/ Complete(w), ~Reap(w) PROVE BlockInv'
  BY <1>7, <1>8, WorkersSteps
<1>9. CASE Close \/ Wait \/ WaitReturns \/ UNCHANGED vars
  BY <1>7, <1>9 DEF Close, Wait, WaitReturns, vars, callers, ring
<1> QED BY <1>4, <1>5, <1>6, <1>8, <1>9 DEF Next

\* The initial state.
LEMMA BlockInvInit == Init => BlockInv
BY FS_EmptySet DEF Init, BlockInv, Made

-----------------------------------------------------------------------------
(* A request is in one place                                               *)

\* What is pushed is in the queue.
LEMMA QueuePush ==
    ASSUME TypeInv, NEW r \in Requests, queue' = Append(queue, r), r \notin InQueue,
           \A i, j \in 1..Len(queue) : queue[i] = queue[j] => i = j
    PROVE  /\ InQueue' = InQueue \cup {r}
           /\ \A i, j \in 1..Len(queue') : queue'[i] = queue'[j] => i = j
<1>1. queue \in Seq(Requests) /\ Len(queue) \in Nat
  BY LenProperties DEF TypeInv
<1>2. /\ Len(queue') = Len(queue) + 1
      /\ \A i \in 1..Len(queue) : queue'[i] = queue[i]
      /\ queue'[Len(queue) + 1] = r
  BY <1>1, AppendProperties
<1>3. \A i : i \in 1..Len(queue') <=> i \in 1..Len(queue) \/ i = Len(queue) + 1
  BY <1>1, <1>2
<1>4. \A i \in 1..Len(queue) : queue[i] # r
  BY DEF InQueue
<1> QED BY <1>1, <1>2, <1>3, <1>4 DEF InQueue

\* What is polled is not in it any more.
LEMMA QueuePoll ==
    ASSUME TypeInv, queue # <<>>, queue' = Tail(queue),
           \A i, j \in 1..Len(queue) : queue[i] = queue[j] => i = j
    PROVE  /\ Head(queue) \in InQueue /\ Head(queue) \in Requests
           /\ InQueue' = InQueue \ {Head(queue)}
           /\ \A i, j \in 1..Len(queue') : queue'[i] = queue'[j] => i = j
<1>1. queue \in Seq(Requests) /\ Len(queue) \in Nat \ {0}
  BY LenProperties, EmptySeq DEF TypeInv
<1>2. /\ Head(queue) = queue[1] /\ Head(queue) \in Requests
      /\ Len(queue') = Len(queue) - 1
      /\ \A i \in 1..Len(queue') : queue'[i] = queue[i + 1]
  BY <1>1, HeadTailProperties
<1>3. \A i \in 1..Len(queue') : i + 1 \in 1..Len(queue) /\ i + 1 # 1
  BY <1>1, <1>2
<1>4. \A i \in 1..Len(queue) : i = 1 \/ (i - 1 \in 1..Len(queue') /\ (i - 1) + 1 = i)
  BY <1>1, <1>2
<1>5. 1 \in 1..Len(queue)
  BY <1>1
<1>6. \A r : r \in InQueue' <=> r \in InQueue /\ r # Head(queue)
  <2>1. ASSUME NEW r \in InQueue' PROVE r \in InQueue /\ r # Head(queue)
    <3>1. PICK i \in 1..Len(queue') : r = queue'[i]
      BY <2>1 DEF InQueue
    <3> QED BY <1>2, <1>3, <1>5, <3>1 DEF InQueue
  <2>2. ASSUME NEW r \in InQueue, r # Head(queue) PROVE r \in InQueue'
    <3>1. PICK i \in 1..Len(queue) : r = queue[i]
      BY <2>2 DEF InQueue
    <3>2. i # 1
      BY <1>2, <2>2, <3>1
    <3>3. i - 1 \in 1..Len(queue') /\ queue'[i - 1] = r
      BY <1>2, <1>4, <3>1, <3>2
    <3> QED BY <3>3 DEF InQueue
  <2> QED BY <2>1, <2>2
<1>7. ASSUME NEW i \in 1..Len(queue'), NEW j \in 1..Len(queue'), queue'[i] = queue'[j]
      PROVE  i = j
  <2>1. i + 1 = j + 1
    BY <1>2, <1>3, <1>7
  <2> QED BY <2>1, <1>1, <1>2
<1> QED BY <1>2, <1>5, <1>6, <1>7 DEF InQueue

\* A request that is placed goes from the hands of a worker to its ring.
LEMMA PlaceTasks ==
    ASSUME TypeInv, StepInv, PlaceInv, NEW w \in Workers, NEW o, Prepare(w, o),
           pc[w] \in {"place", "advance"}, UNCHANGED <<in_flight, reapable>>
    PROVE  LET c == Write(request[w], FileFor(w), o)
           IN  /\ c.request = request[w] /\ c.file = FileFor(w) /\ c.offset = o
               /\ InHand(w) = {request[w]} /\ InHand(w)' = {}
               /\ request[w] \notin Requested(w) /\ c \notin InRing(w)
               /\ InRing(w)' = InRing(w) \cup {c}
               /\ held'[w] = held[w] \cup {c}
               /\ Requested(w)' = Requested(w) \cup {request[w]}
               /\ Tasks(w)' = Tasks(w)
<1> DEFINE c == Write(request[w], FileFor(w), o)
<1>1. c.request = request[w] /\ c.file = FileFor(w) /\ c.offset = o
  BY DEF Write
<1> HIDE DEF c
<1>2. held'[w] = held[w] \cup {c} /\ request'[w] = NoRequest /\ request[w] # NoRequest
  BY DEF Prepare, TypeInv, StepInv, c
<1>3. InHand(w) = {request[w]} /\ InHand(w)' = {}
  BY <1>2 DEF InHand
<1>4. request[w] \notin Requested(w)
  BY <1>3 DEF PlaceInv
<1>5. c \notin InRing(w)
  BY <1>1, <1>4 DEF Requested
<1>6. InRing(w)' = InRing(w) \cup {c}
  BY <1>2 DEF InRing
<1>7. Requested(w)' = Requested(w) \cup {request[w]}
  BY <1>1, <1>6 DEF Requested
<1>8. Tasks(w)' = Tasks(w)
  BY <1>3, <1>7 DEF Tasks
<1> QED BY <1>1, <1>2, <1>3, <1>4, <1>5, <1>6, <1>7, <1>8 DEF c

\* A write that is reaped leaves the ring, and its request with it.
LEMMA ReapTasks ==
    ASSUME TypeInv, PlaceInv, NEW w \in Workers, Reap(w)
    PROVE  \E c \in reapable[w] :
             /\ reapable'[w] = reapable[w] \ {c} /\ live' = live \ {c.request}
             /\ InRing(w)' = (held[w] \cup in_flight[w] \cup (reapable[w] \ {c}))
             /\ UNCHANGED <<held, in_flight, request>>
<1>1. PICK c \in reapable[w] : /\ reapable' = [reapable EXCEPT ![w] = @ \ {c}]
                               /\ live' = live \ {c.request}
  BY DEF Reap
<1>2. UNCHANGED <<held, in_flight, request>>
  BY DEF Reap, placing
<1>3. reapable'[w] = reapable[w] \ {c}
  BY <1>1 DEF TypeInv
<1> QED BY <1>1, <1>2, <1>3 DEF InRing

\* The initial state.
LEMMA PlaceInvInit == Init => PlaceInv
<1> SUFFICES ASSUME Init PROVE PlaceInv
  OBVIOUS
<1>1. Len(queue) = 0
  BY DEF Init
<1>2. InQueue = {} /\ \A w \in Workers : InRing(w) = {} /\ InHand(w) = {}
  BY <1>1 DEF Init, InQueue, InRing, InHand
<1>3. \A w \in Workers : Requested(w) = {} /\ Tasks(w) = {}
  BY <1>2 DEF Requested, Tasks
<1> QED BY <1>1, <1>2, <1>3 DEF PlaceInv

\* Every step keeps a request in one place.
LEMMA PlaceInvNext ==
    TypeInv /\ StepInv /\ BlockInv /\ PlaceInv /\ RingInv /\ [Next]_vars => PlaceInv'
<1> SUFFICES ASSUME TypeInv, StepInv, BlockInv, PlaceInv, RingInv, [Next]_vars
             PROVE  PlaceInv'
  OBVIOUS
<1>1. ASSUME UNCHANGED queue, pushed \cap live \subseteq pushed' \cap live',
             \A v \in Workers : UNCHANGED <<InHand(v), InRing(v), Requested(v), Tasks(v)>>
      PROVE  PlaceInv'
  <2>1. InQueue' = InQueue
    BY <1>1 DEF InQueue
  <2> QED BY <1>1, <2>1 DEF PlaceInv
<1>2. ASSUME NEW p \in Producers, CallPush(p) PROVE PlaceInv'
  BY <1>1, <1>2, CallersSteps DEF CallPush, CallerStep
<1>3. ASSUME NEW p \in Producers, Push(p) PROVE PlaceInv'
  <2> DEFINE r == producer[p]
  <2>1. /\ r # NoRequest /\ queue' = Append(queue, r) /\ pushed' = pushed \cup {r}
        /\ live' = live
    BY <1>3 DEF Push, ring
  <2>2. r \in live \ pushed /\ r \in Requests
    BY <2>1 DEF BlockInv, TypeInv
  <2> HIDE DEF r
  <2>3. r \notin InQueue /\ \A w \in Workers : r \notin Tasks(w)
    BY <2>2 DEF PlaceInv
  <2>4. /\ InQueue' = InQueue \cup {r}
        /\ \A i, j \in 1..Len(queue') : queue'[i] = queue'[j] => i = j
    BY <2>1, <2>2, <2>3, QueuePush DEF PlaceInv
  <2>5. \A w \in Workers : UNCHANGED <<InHand(w), InRing(w), Requested(w), Tasks(w)>>
    BY <1>3, CallersSteps DEF CallerStep
  <2> QED BY <2>1, <2>2, <2>3, <2>4, <2>5 DEF PlaceInv
<1>4. CASE Close \/ Wait \/ WaitReturns \/ UNCHANGED vars
  BY <1>1, <1>4, CallersSteps DEF CallerStep, Close, Wait, WaitReturns, vars, callers, ring
<1>5. ASSUME NEW w \in Workers, Worker(w) \/ Complete(w),
             ~Reap(w), ~Poll(w), ~PlaceAtomic(w), ~PlacePlain(w)
      PROVE  PlaceInv'
  <2>1. InRing(w)' = InRing(w)
    BY <1>5, RingUnchanged DEF Worker, Complete
  <2>2. request'[w] = request[w]
    BY <1>5 DEF Worker, Complete, NothingToReap, ReadCursor, BatchFull, PollFinish, Submit,
                Succeed, FailWrite, placing
  <2>3. UNCHANGED <<InHand(w), InRing(w), Requested(w), Tasks(w)>>
    BY <2>1, <2>2 DEF InHand, Requested, Tasks
  <2>4. \A v \in Workers : UNCHANGED <<InHand(v), InRing(v), Requested(v), Tasks(v)>>
    BY <1>5, <2>3, OtherWorkers
  <2> QED BY <1>1, <1>5, <2>4, WorkersSteps
<1>6. ASSUME NEW w \in Workers, Reap(w) PROVE PlaceInv'
  <2>1. PICK c \in reapable[w] :
          /\ reapable'[w] = reapable[w] \ {c} /\ live' = live \ {c.request}
          /\ InRing(w)' = (held[w] \cup in_flight[w] \cup (reapable[w] \ {c}))
          /\ UNCHANGED <<held, in_flight, request>>
    BY <1>6, ReapTasks
  <2>2. /\ c \in InRing(w) /\ c.request \in Tasks(w) /\ InRing(w)' \subseteq InRing(w)
    BY <2>1 DEF InRing, Requested, Tasks
  <2>3. c \notin InRing(w)'
    BY <2>1 DEF RingInv
  <2>4. \A d \in InRing(w)' : d.request # c.request
    BY <2>2, <2>3 DEF PlaceInv
  <2>5. /\ InHand(w)' = InHand(w) /\ c.request \notin InHand(w)
        /\ Requested(w)' \subseteq Requested(w) \ {c.request}
    BY <2>1, <2>2, <2>4 DEF InHand, Requested, PlaceInv
  <2>6. Tasks(w)' \subseteq Tasks(w) \ {c.request}
    BY <2>5 DEF Tasks
  <2>7. UNCHANGED <<queue, pushed>> /\ InQueue' = InQueue
    BY <1>6 DEF Reap, callers, InQueue
  <2>8. \A v \in Workers : v # w =>
          UNCHANGED <<InHand(v), InRing(v), Requested(v), Tasks(v)>>
    BY <1>6, OtherWorkers DEF Worker
  <2>9. \A v \in Workers : v # w => c.request \notin Tasks(v)
    BY <2>2 DEF PlaceInv
  <2>10. c.request \notin InQueue
    BY <2>2 DEF PlaceInv
  <2>11. InQueue' \subseteq pushed' \cap live'
    BY <2>1, <2>7, <2>10 DEF PlaceInv
  <2>12. \A v \in Workers : Tasks(v)' \subseteq Tasks(v) \ {c.request}
    BY <2>6, <2>8, <2>9
  <2>13. ASSUME NEW v \in Workers
         PROVE  /\ Tasks(v)' \subseteq pushed' \cap live'
                /\ Tasks(v)' \cap InQueue' = {}
                /\ InHand(v)' \cap Requested(v)' = {}
                /\ \A u \in Workers : u # v => Tasks(u)' \cap Tasks(v)' = {}
    BY <2>1, <2>5, <2>7, <2>8, <2>12 DEF PlaceInv
  <2>14. \A v \in Workers : \A x, y \in InRing(v)' : x.request = y.request => x = y
    BY <2>2, <2>8 DEF PlaceInv
  <2> QED BY <2>7, <2>11, <2>13, <2>14 DEF PlaceInv
<1>7. ASSUME NEW w \in Workers, Poll(w) PROVE PlaceInv'
  <2> DEFINE r == Head(queue)
  <2>1. /\ r \in InQueue /\ r \in Requests /\ InQueue' = InQueue \ {r}
        /\ \A i, j \in 1..Len(queue') : queue'[i] = queue'[j] => i = j
    BY <1>7, QueuePoll DEF Poll, PlaceInv
  <2>2. /\ request[w] = NoRequest /\ request'[w] = r
        /\ UNCHANGED <<pushed, live, held, in_flight, reapable>>
    BY <1>7 DEF Poll, StepInv, TypeInv, callers, ring
  <2>3. r # NoRequest
    BY <2>1, Sizes
  <2>4. /\ InHand(w) = {} /\ InHand(w)' = {r} /\ InRing(w)' = InRing(w)
        /\ Requested(w)' = Requested(w)
    BY <2>2, <2>3 DEF InHand, InRing, Requested
  <2>5. Tasks(w) = Requested(w) /\ Tasks(w)' = Tasks(w) \cup {r}
    BY <2>4 DEF Tasks
  <2>6. \A v \in Workers : v # w =>
          UNCHANGED <<InHand(v), InRing(v), Requested(v), Tasks(v)>>
    BY <1>7, OtherWorkers DEF Worker
  <2>7. \A v \in Workers : r \notin Tasks(v)
    BY <2>1 DEF PlaceInv
  <2> HIDE DEF r
  <2>8. InQueue' \subseteq pushed' \cap live' /\ r \in pushed' \cap live'
    BY <2>1, <2>2 DEF PlaceInv
  <2>9. ASSUME NEW v \in Workers
        PROVE  /\ Tasks(v)' \subseteq pushed' \cap live'
               /\ Tasks(v)' \cap InQueue' = {}
               /\ InHand(v)' \cap Requested(v)' = {}
    BY <2>1, <2>2, <2>4, <2>5, <2>6, <2>7, <2>8 DEF PlaceInv
  <2>10. \A v, u \in Workers : u # v => Tasks(u)' \cap Tasks(v)' = {}
    BY <2>5, <2>6, <2>7 DEF PlaceInv
  <2>11. \A v \in Workers : \A x, y \in InRing(v)' : x.request = y.request => x = y
    BY <2>4, <2>6 DEF PlaceInv
  <2> QED BY <2>1, <2>8, <2>9, <2>10, <2>11 DEF PlaceInv
<1>8. ASSUME NEW w \in Workers, NEW o, Prepare(w, o), pc[w] \in {"place", "advance"},
             PlaceAtomic(w) \/ PlacePlain(w)
      PROVE  PlaceInv'
  <2> DEFINE c == Write(request[w], FileFor(w), o)
  <2>1. UNCHANGED <<queue, pushed, live, in_flight, reapable>>
    BY <1>8 DEF PlaceAtomic, PlacePlain, Prepare, callers
  <2>2. /\ c.request = request[w] /\ InHand(w)' = {}
        /\ request[w] \notin Requested(w) /\ InRing(w)' = InRing(w) \cup {c}
        /\ Tasks(w)' = Tasks(w)
    BY <1>8, <2>1, PlaceTasks
  <2> HIDE DEF c
  <2>3. \A d \in InRing(w) : d.request # c.request
    BY <2>2 DEF Requested
  <2>4. \A x, y \in InRing(w)' : x.request = y.request => x = y
    BY <2>2, <2>3 DEF PlaceInv
  <2>5. \A v \in Workers : v # w =>
          UNCHANGED <<InHand(v), InRing(v), Requested(v), Tasks(v)>>
    BY <1>8, OtherWorkers DEF Worker
  <2>6. \A v \in Workers : Tasks(v)' = Tasks(v)
    BY <2>2, <2>5
  <2>7. InQueue' = InQueue
    BY <2>1 DEF InQueue
  <2>8. \A v \in Workers : InHand(v)' \cap Requested(v)' = {}
    BY <2>2, <2>5 DEF PlaceInv
  <2>9. \A v \in Workers : \A x, y \in InRing(v)' : x.request = y.request => x = y
    BY <2>4, <2>5 DEF PlaceInv
  <2> QED BY <2>1, <2>6, <2>7, <2>8, <2>9 DEF PlaceInv
<1>9. ASSUME NEW w \in Workers, PlaceAtomic(w) \/ PlacePlain(w) PROVE PlaceInv'
  BY <1>8, <1>9 DEF PlaceAtomic, PlacePlain
<1> QED BY <1>2, <1>3, <1>4, <1>5, <1>6, <1>7, <1>9 DEF Next

-----------------------------------------------------------------------------
(* The ring                                                                *)

\* The initial state.
LEMMA RingInvInit == Init => RingInv
BY FS_EmptySet, Sizes DEF Init, RingInv, InRing

\* Every step keeps the counter of a worker true and its ring within bounds.
LEMMA RingInvNext ==
    TypeInv /\ StepInv /\ PlaceInv /\ RingInv /\ [Next]_vars => RingInv'
<1> SUFFICES ASSUME TypeInv, StepInv, PlaceInv, RingInv, [Next]_vars PROVE RingInv'
  OBVIOUS
<1> DEFINE Fits(v) ==
      /\ IsFiniteSet(InRing(v))
      /\ outstanding[v] = Cardinality(InRing(v))
      /\ outstanding[v] <= MaxOutstanding
      /\ held[v] \cap (in_flight[v] \cup reapable[v]) = {}
      /\ in_flight[v] \cap reapable[v] = {}
      /\ pc[v] \in {"place", "advance"} => /\ Cardinality(held[v]) < RingSize
                                           /\ outstanding[v] < MaxOutstanding
<1>1. CASE CallerStep
  BY <1>1, CallersSteps DEF RingInv
<1>2. ASSUME NEW w \in Workers, Worker(w) \/ Complete(w), Fits(w)' PROVE RingInv'
  <2>1. \A v \in Workers : Fits(v)
    BY DEF RingInv
  <2>2. \A v \in Workers : v # w => Fits(v)'
    BY <1>2, <2>1, OtherWorkers
  <2> HIDE DEF Fits
  <2>3. \A v \in Workers : Fits(v)'
    BY <1>2, <2>2
  <2> QED BY <2>3 DEF Fits, RingInv
<1>3. ASSUME NEW w \in Workers, Reap(w) PROVE Fits(w)'
  <2>1. PICK c \in reapable[w] :
          /\ reapable'[w] = reapable[w] \ {c} /\ live' = live \ {c.request}
          /\ InRing(w)' = (held[w] \cup in_flight[w] \cup (reapable[w] \ {c}))
          /\ UNCHANGED <<held, in_flight, request>>
    BY <1>3, ReapTasks
  <2>2. InRing(w)' = InRing(w) \ {c} /\ c \in InRing(w)
    BY <2>1 DEF InRing, RingInv
  <2>3. IsFiniteSet(InRing(w)') /\ Cardinality(InRing(w)') = Cardinality(InRing(w)) - 1
    BY <2>2, FS_RemoveElement DEF RingInv
  <2>4. outstanding'[w] = outstanding[w] - 1 /\ pc' = pc /\ pc[w] = "reap"
    BY <1>3 DEF Reap, TypeInv
  <2>5. outstanding[w] \in Nat /\ MaxOutstanding \in Nat
    BY Sizes DEF TypeInv
  <2> QED BY <2>1, <2>3, <2>4, <2>5 DEF RingInv
<1>4. ASSUME NEW w \in Workers, NothingToReap(w) PROVE Fits(w)'
  <2>1. UNCHANGED <<outstanding, held, in_flight, reapable>>
    BY <1>4 DEF NothingToReap, ring
  <2>2. pc'[w] \notin {"place", "advance"}
    BY <1>4 DEF NothingToReap, Goto, TypeInv
  <2> QED BY <2>1, <2>2 DEF RingInv, InRing
<1>5. ASSUME NEW w \in Workers, Poll(w) PROVE Fits(w)'
  <2>1. UNCHANGED <<outstanding, held, in_flight, reapable>>
    BY <1>5 DEF Poll, ring
  <2>2. Cardinality(held[w]) < RingSize /\ outstanding[w] < MaxOutstanding
    BY <1>5 DEF Poll, BatchGoesOn
  <2> QED BY <2>1, <2>2 DEF RingInv, InRing
<1>6. ASSUME NEW w \in Workers, ReadCursor(w) PROVE Fits(w)'
  BY <1>6 DEF ReadCursor, ring, RingInv, InRing
<1>7. ASSUME NEW w \in Workers, NEW o, Prepare(w, o), pc[w] \in {"place", "advance"},
             UNCHANGED <<in_flight, reapable>>
      PROVE  Fits(w)'
  <2> DEFINE c == Write(request[w], FileFor(w), o)
  <2>1. /\ c \notin InRing(w) /\ InRing(w)' = InRing(w) \cup {c}
        /\ held'[w] = held[w] \cup {c}
    BY <1>7, PlaceTasks
  <2> HIDE DEF c
  <2>2. IsFiniteSet(InRing(w)') /\ Cardinality(InRing(w)') = Cardinality(InRing(w)) + 1
    BY <2>1, FS_AddElement DEF RingInv
  <2>3. outstanding'[w] = outstanding[w] + 1 /\ pc'[w] = "batch"
    BY <1>7 DEF Prepare, Goto, TypeInv
  <2>4. outstanding[w] \in Nat /\ MaxOutstanding \in Nat /\ outstanding[w] < MaxOutstanding
    BY <1>7, Sizes DEF TypeInv, RingInv
  <2> QED BY <1>7, <2>1, <2>2, <2>3, <2>4 DEF RingInv, InRing
<1>8. ASSUME NEW w \in Workers, PlaceAtomic(w) \/ PlacePlain(w) PROVE Fits(w)'
  BY <1>7, <1>8 DEF PlaceAtomic, PlacePlain
<1>9. ASSUME NEW w \in Workers, BatchFull(w) \/ PollFinish(w) PROVE Fits(w)'
  <2>1. /\ held'[w] = {} /\ in_flight'[w] = in_flight[w] \cup held[w]
        /\ reapable'[w] = reapable[w] /\ outstanding' = outstanding /\ pc'[w] = "reap"
    BY <1>9 DEF BatchFull, PollFinish, Submit, Goto, TypeInv
  <2>2. InRing(w)' = InRing(w)
    BY <1>9, RingUnchanged
  <2> QED BY <2>1, <2>2 DEF RingInv
<1>10. ASSUME NEW w \in Workers, Succeed(w) \/ FailWrite(w) PROVE Fits(w)'
  <2>1. PICK c \in in_flight[w] :
          /\ in_flight' = [in_flight EXCEPT ![w] = @ \ {c}]
          /\ reapable' = [reapable EXCEPT ![w] = @ \cup {c}]
    BY <1>10 DEF Succeed, FailWrite
  <2>2. in_flight'[w] = in_flight[w] \ {c} /\ reapable'[w] = reapable[w] \cup {c}
    BY <2>1 DEF TypeInv
  <2>3. UNCHANGED <<held, outstanding, pc>>
    BY <1>10 DEF Succeed, FailWrite
  <2>4. InRing(w)' = InRing(w)
    BY <1>10, RingUnchanged
  <2> QED BY <2>2, <2>3, <2>4 DEF RingInv
<1> HIDE DEF Fits
<1> QED BY <1>1, <1>2, <1>3, <1>4, <1>5, <1>6, <1>8, <1>9, <1>10
        DEF Next, Worker, Complete, CallerStep

-----------------------------------------------------------------------------
(* What is dealt with                                                      *)

\* The initial state.
LEMMA SettledInvInit == Init => SettledInv
<1> SUFFICES ASSUME Init PROVE SettledInv
  OBVIOUS
<1>1. Stored = {} /\ Settled = {}
  BY DEF Init, Stored, Settled
<1> QED BY <1>1 DEF Init, SettledInv, WrittenIntact

\* A write that the kernel finishes.
LEMMA CompleteStep ==
    ASSUME TypeInv, NEW w \in Workers, Complete(w)
    PROVE  \E c \in in_flight[w] :
             /\ in_flight'[w] = in_flight[w] \ {c} /\ reapable'[w] = reapable[w] \cup {c}
             /\ UNCHANGED <<held, live, request>>
             /\ Settled' = Settled \cup {c.request}
             /\ \/ /\ disk' = disk \cup {[write |-> c, intact |-> c.request \in live]}
                   /\ Stored' = Stored \cup {c} /\ failed' = failed
                   /\ Succeed(w)
                \/ /\ disk' = disk /\ Stored' = Stored
                   /\ failed' = failed \cup {c.request}
                   /\ FailWrite(w)
<1>1. CASE Succeed(w)
  <2>1. PICK c \in in_flight[w] :
          /\ in_flight' = [in_flight EXCEPT ![w] = @ \ {c}]
          /\ reapable' = [reapable EXCEPT ![w] = @ \cup {c}]
          /\ disk' = disk \cup {[write |-> c, intact |-> c.request \in live]}
    BY <1>1 DEF Succeed
  <2>2. in_flight'[w] = in_flight[w] \ {c} /\ reapable'[w] = reapable[w] \cup {c}
    BY <2>1 DEF TypeInv
  <2>3. UNCHANGED <<held, live, request, failed>>
    BY <1>1 DEF Succeed, placing
  <2>4. Stored' = Stored \cup {c}
    <3> DEFINE d == [write |-> c, intact |-> c.request \in live]
    <3>1. d.write = c
      OBVIOUS
    <3>2. disk' = disk \cup {d}
      BY <2>1
    <3> HIDE DEF d
    <3> QED BY <3>1, <3>2 DEF Stored
  <2>5. Settled' = Settled \cup {c.request}
    BY <2>3, <2>4 DEF Settled
  <2> QED BY <1>1, <2>1, <2>2, <2>3, <2>4, <2>5
<1>2. CASE FailWrite(w)
  <2>1. PICK c \in in_flight[w] :
          /\ in_flight' = [in_flight EXCEPT ![w] = @ \ {c}]
          /\ reapable' = [reapable EXCEPT ![w] = @ \cup {c}]
          /\ failed' = failed \cup {c.request}
    BY <1>2 DEF FailWrite
  <2>2. in_flight'[w] = in_flight[w] \ {c} /\ reapable'[w] = reapable[w] \cup {c}
    BY <2>1 DEF TypeInv
  <2>3. UNCHANGED <<held, live, request, disk>>
    BY <1>2 DEF FailWrite, placing
  <2>4. Stored' = Stored
    BY <2>3 DEF Stored
  <2>5. Settled' = Settled \cup {c.request}
    BY <2>1, <2>4 DEF Settled
  <2> QED BY <1>2, <2>1, <2>2, <2>3, <2>4, <2>5
<1> QED BY <1>1, <1>2 DEF Complete

\* Every step keeps account of what is dealt with.
LEMMA SettledInvNext ==
    /\ TypeInv /\ StepInv /\ BlockInv /\ PlaceInv /\ RingInv /\ SettledInv
    /\ [Next]_vars
    => SettledInv'
<1> SUFFICES ASSUME TypeInv, StepInv, BlockInv, PlaceInv, RingInv, SettledInv, [Next]_vars
             PROVE  SettledInv'
  OBVIOUS
<1>1. UNCHANGED <<disk, failed>> => UNCHANGED <<Settled, WrittenIntact>>
  BY DEF Settled, Stored, WrittenIntact
<1>2. CASE CallerStep /\ UNCHANGED <<queue, pushed>>
  <2>1. InQueue' = InQueue
    BY <1>2 DEF InQueue
  <2> QED BY <1>1, <1>2, <2>1, CallersSteps DEF SettledInv
<1>3. ASSUME NEW p \in Producers, Push(p) PROVE SettledInv'
  <2> DEFINE r == producer[p]
  <2>1. /\ r # NoRequest /\ queue' = Append(queue, r) /\ pushed' = pushed \cup {r}
    BY <1>3 DEF Push
  <2>2. r \in live \ pushed /\ r \in Requests
    BY <2>1 DEF BlockInv, TypeInv
  <2> HIDE DEF r
  <2>3. r \notin InQueue /\ r \notin Settled
    BY <2>2 DEF PlaceInv, SettledInv
  <2>4. InQueue' = InQueue \cup {r}
    BY <2>1, <2>2, <2>3, QueuePush DEF PlaceInv
  <2>5. /\ UNCHANGED <<Settled, WrittenIntact>>
        /\ \A w \in Workers : UNCHANGED <<held[w], in_flight[w], reapable[w]>>
        /\ \A w \in Workers : UNCHANGED <<InHand(w), Tasks(w)>>
    BY <1>1, <1>3, CallersSteps DEF CallerStep
  <2> QED BY <2>1, <2>3, <2>4, <2>5 DEF SettledInv
<1>4. ASSUME NEW w \in Workers, Worker(w), ~Reap(w), ~Poll(w) PROVE SettledInv'
  <2>1. UNCHANGED <<queue, pushed, disk, failed, live>>
    <3>1. UNCHANGED <<disk, failed, queue, pushed>> \/ Complete(w)
      BY <1>4, WorkersSteps
    <3>2. UNCHANGED <<disk, failed>>
      BY <1>4 DEF Worker, NothingToReap, PlaceAtomic, ReadCursor, PlacePlain, BatchFull,
                  PollFinish, Submit, ring
    <3> QED BY <1>4, <3>2, WorkersSteps
  <2>2. InQueue' = InQueue
    BY <2>1 DEF InQueue
  <2>3. /\ InHand(w)' \subseteq InHand(w)
        /\ \A c \in (held[w] \cup in_flight[w])' :
             c \in held[w] \cup in_flight[w] \/ c.request \in InHand(w)
        /\ reapable'[w] = reapable[w]
        /\ Tasks(w)' = Tasks(w)
    <3>1. CASE NothingToReap(w) \/ ReadCursor(w)
      BY <3>1 DEF NothingToReap, ReadCursor, placing, ring, InHand, InRing, Requested, Tasks
    <3>2. CASE PlaceAtomic(w) \/ PlacePlain(w)
      <4>1. PICK o : Prepare(w, o) /\ pc[w] \in {"place", "advance"}
        BY <3>2 DEF PlaceAtomic, PlacePlain
      <4>2. UNCHANGED <<in_flight, reapable>>
        BY <3>2 DEF PlaceAtomic, PlacePlain
      <4> QED BY <4>1, <4>2, PlaceTasks
    <3>3. CASE BatchFull(w) \/ PollFinish(w)
      <4>1. /\ held'[w] = {} /\ in_flight'[w] = in_flight[w] \cup held[w]
            /\ reapable'[w] = reapable[w] /\ request' = request
        BY <3>3 DEF BatchFull, PollFinish, Submit, placing, TypeInv
      <4>2. InRing(w)' = InRing(w)
        BY <3>3, RingUnchanged
      <4>3. Requested(w)' = Requested(w) /\ InHand(w)' = InHand(w)
        BY <4>1, <4>2 DEF Requested, InHand
      <4> QED BY <4>1, <4>3 DEF Tasks
    <3> QED BY <1>4, <3>1, <3>2, <3>3 DEF Worker
  <2>4. \A v \in Workers : v # w =>
          UNCHANGED <<InHand(v), held[v], in_flight[v], reapable[v], Tasks(v)>>
    BY <1>4, OtherWorkers
  <2>5. \A v \in Workers : Tasks(v)' = Tasks(v)
    BY <2>3, <2>4
  <2>6. ASSUME NEW v \in Workers
        PROVE  /\ InHand(v)' \cap Settled' = {}
               /\ \A c \in (held[v] \cup in_flight[v])' : c.request \notin Settled'
               /\ \A c \in reapable'[v] : c.request \in Settled'
    <3>1. CASE v = w
      BY <1>1, <2>1, <2>3, <3>1 DEF SettledInv
    <3>2. CASE v # w
      BY <1>1, <2>1, <2>4, <3>2 DEF SettledInv
    <3> QED BY <3>1, <3>2
  <2> QED BY <1>1, <2>1, <2>2, <2>5, <2>6 DEF SettledInv
<1>5. ASSUME NEW w \in Workers, Reap(w) PROVE SettledInv'
  <2>1. PICK c \in reapable[w] :
          /\ reapable'[w] = reapable[w] \ {c} /\ live' = live \ {c.request}
          /\ InRing(w)' = (held[w] \cup in_flight[w] \cup (reapable[w] \ {c}))
          /\ UNCHANGED <<held, in_flight, request>>
    BY <1>5, ReapTasks
  <2>2. UNCHANGED <<queue, pushed, disk, failed>> /\ InQueue' = InQueue
    BY <1>5 DEF Reap, callers, InQueue
  <2>3. c.request \in Settled
    BY <2>1 DEF SettledInv
  <2>4. InHand(w)' = InHand(w) /\ Requested(w) \subseteq Requested(w)' \cup {c.request}
    BY <2>1 DEF InHand, Requested, InRing
  <2>5. Tasks(w) \subseteq Tasks(w)' \cup {c.request}
    BY <2>4 DEF Tasks
  <2>6. \A v \in Workers : v # w =>
          UNCHANGED <<InHand(v), held[v], in_flight[v], reapable[v], Tasks(v)>>
    BY <1>5, OtherWorkers DEF Worker
  <2>7. \A r \in pushed' \ Settled' : r \in InQueue' \/ \E v \in Workers : r \in Tasks(v)'
    BY <1>1, <2>2, <2>3, <2>5, <2>6 DEF SettledInv
  <2>8. ASSUME NEW v \in Workers
        PROVE  /\ InHand(v)' \cap Settled' = {}
               /\ \A d \in (held[v] \cup in_flight[v])' : d.request \notin Settled'
               /\ \A d \in reapable'[v] : d.request \in Settled'
    BY <1>1, <2>1, <2>2, <2>4, <2>6 DEF SettledInv
  <2> QED BY <1>1, <2>2, <2>7, <2>8 DEF SettledInv
<1>6. ASSUME NEW w \in Workers, Poll(w) PROVE SettledInv'
  <2> DEFINE r == Head(queue)
  <2>1. r \in InQueue /\ r \in Requests /\ InQueue' = InQueue \ {r}
    BY <1>6, QueuePoll DEF Poll, PlaceInv
  <2>2. /\ request[w] = NoRequest /\ request'[w] = r
        /\ UNCHANGED <<pushed, disk, failed, held, in_flight, reapable>>
    BY <1>6 DEF Poll, StepInv, TypeInv, callers, ring
  <2>3. r # NoRequest
    BY <2>1, Sizes
  <2>4. InHand(w) = {} /\ InHand(w)' = {r} /\ Requested(w)' = Requested(w)
    BY <2>2, <2>3 DEF InHand, InRing, Requested
  <2>5. Tasks(w)' = Tasks(w) \cup {r}
    BY <2>4 DEF Tasks
  <2>6. \A v \in Workers : v # w => UNCHANGED <<InHand(v), Tasks(v)>>
    BY <1>6, OtherWorkers DEF Worker
  <2> HIDE DEF r
  <2>7. r \notin Settled
    BY <2>1 DEF SettledInv
  <2>8. \A q \in pushed' \ Settled' : q \in InQueue' \/ \E v \in Workers : q \in Tasks(v)'
    BY <1>1, <2>1, <2>2, <2>5, <2>6 DEF SettledInv
  <2>9. ASSUME NEW v \in Workers
        PROVE  /\ InHand(v)' \cap Settled' = {}
               /\ \A d \in (held[v] \cup in_flight[v])' : d.request \notin Settled'
               /\ \A d \in reapable'[v] : d.request \in Settled'
    BY <1>1, <2>2, <2>4, <2>6, <2>7 DEF SettledInv
  <2> QED BY <1>1, <2>1, <2>2, <2>8, <2>9 DEF SettledInv
<1>7. ASSUME NEW w \in Workers, Complete(w) PROVE SettledInv'
  <2>1. PICK c \in in_flight[w] :
          /\ in_flight'[w] = in_flight[w] \ {c} /\ reapable'[w] = reapable[w] \cup {c}
          /\ UNCHANGED <<held, live, request>>
          /\ Settled' = Settled \cup {c.request}
          /\ \/ disk' = disk \cup {[write |-> c, intact |-> c.request \in live]}
             \/ disk' = disk
    BY <1>7, CompleteStep
  <2>2. UNCHANGED <<queue, pushed>> /\ InQueue' = InQueue
    BY <1>7 DEF Complete, Succeed, FailWrite, callers, InQueue
  <2>3. c \in InRing(w) /\ c.request \in Requested(w) /\ c.request \in Tasks(w)
    BY DEF InRing, Requested, Tasks
  <2>4. c.request \in pushed \cap live /\ c.request \notin InQueue
    BY <2>3 DEF PlaceInv
  <2>5. WrittenIntact'
    <3> DEFINE d == [write |-> c, intact |-> c.request \in live]
    <3>1. d.intact
      BY <2>4
    <3>2. disk' = disk \/ disk' = disk \cup {d}
      BY <2>1
    <3> HIDE DEF d
    <3> QED BY <3>1, <3>2 DEF SettledInv, WrittenIntact
  <2>6. InRing(w)' = InRing(w)
    BY <1>7, RingUnchanged DEF Complete
  <2>7. UNCHANGED <<InHand(w), Tasks(w)>>
    BY <2>1, <2>6 DEF InHand, Requested, Tasks
  <2>8. c.request \notin InHand(w) /\ \A v \in Workers : v # w => c.request \notin Tasks(v)
    BY <2>3 DEF PlaceInv
  <2>9. \A v \in Workers : v # w =>
          UNCHANGED <<InHand(v), held[v], in_flight[v], reapable[v], Tasks(v), InRing(v)>>
    BY <1>7, OtherWorkers
  <2>10. \A d \in held[w] \cup (in_flight[w] \ {c}) : d \in InRing(w) /\ d # c
    BY DEF InRing, RingInv
  <2>11. \A d \in held[w] \cup (in_flight[w] \ {c}) : d.request # c.request
    BY <2>3, <2>10 DEF PlaceInv
  <2>12. ASSUME NEW v \in Workers
         PROVE  /\ InHand(v)' \cap Settled' = {}
                /\ \A d \in (held[v] \cup in_flight[v])' : d.request \notin Settled'
                /\ \A d \in reapable'[v] : d.request \in Settled'
    <3>1. CASE v = w
      BY <2>1, <2>7, <2>8, <2>11, <3>1 DEF SettledInv
    <3>2. CASE v # w
      <4>1. InHand(v) \subseteq Tasks(v) /\ \A d \in InRing(v) : d.request \in Tasks(v)
        BY DEF Tasks, Requested
      <4>2. held[v] \cup in_flight[v] \cup reapable[v] = InRing(v)
        BY DEF InRing
      <4> QED BY <2>1, <2>8, <2>9, <3>2, <4>1, <4>2 DEF SettledInv
    <3> QED BY <3>1, <3>2
  <2>13. \A v \in Workers : Tasks(v)' = Tasks(v)
    BY <2>7, <2>9
  <2>14. \A r \in pushed' \ Settled' : r \in InQueue' \/ \E v \in Workers : r \in Tasks(v)'
    BY <2>1, <2>2, <2>13 DEF SettledInv
  <2>15. Settled' \subseteq pushed' /\ InQueue' \cap Settled' = {}
    BY <2>1, <2>2, <2>4 DEF SettledInv
  <2> QED BY <2>5, <2>12, <2>14, <2>15 DEF SettledInv
<1>8. ASSUME NEW p \in Producers, CallPush(p) PROVE SettledInv'
  BY <1>2, <1>8 DEF CallPush, CallerStep
<1>9. CASE Close \/ Wait \/ WaitReturns \/ UNCHANGED vars
  BY <1>2, <1>9 DEF Close, Wait, WaitReturns, vars, callers, CallerStep
<1> QED BY <1>3, <1>4, <1>5, <1>6, <1>7, <1>8, <1>9 DEF Next

-----------------------------------------------------------------------------
(* Where blocks go                                                         *)

\* Multiples of a size are that far apart.
LEMMA Multiples ==
    ASSUME NEW a \in Nat, NEW b \in Nat, NEW m \in Nat, a < b
    PROVE  a * m + m <= b * m
<1>1. PICK k \in Nat : b = a + 1 + k
  <2>1. b = a + 1 + (b - a - 1) /\ b - a - 1 \in Nat
    OBVIOUS
  <2> QED BY <2>1
<1>2. b * m = a * m + m + k * m /\ k * m \in Nat /\ a * m \in Nat
  BY <1>1
<1> QED BY <1>2

\* The initial state.
LEMMA ExtentInvInit == Init => ExtentInv
<1> SUFFICES ASSUME Init PROVE ExtentInv
  OBVIOUS
<1>1. Placed = {}
  BY DEF Init, Placed, Stored, InRing
<1> QED BY <1>1 DEF Init, ExtentInv

\* The write that a request becomes is new.
LEMMA NewWrite ==
    ASSUME TypeInv, StepInv, PlaceInv, SettledInv, NEW w \in Workers, NEW o \in Nat,
           Prepare(w, o), pc[w] \in {"place", "advance"}, PlaceAtomic(w) \/ PlacePlain(w)
    PROVE  LET c == Write(request[w], FileFor(w), o)
           IN  /\ c.request = request[w] /\ c.file = FileFor(w) /\ c.offset = o
               /\ c \in Writes /\ request[w] \in pushed \cap live
               /\ Placed' = Placed \cup {c}
               /\ \A d \in Placed : d.request # request[w]
<1> DEFINE c == Write(request[w], FileFor(w), o)
<1>1. UNCHANGED <<in_flight, reapable, disk, Stored>>
  BY DEF PlaceAtomic, PlacePlain, Stored
<1>2. /\ c.request = request[w] /\ c.file = FileFor(w) /\ c.offset = o
      /\ InHand(w) = {request[w]} /\ request[w] \notin Requested(w)
      /\ InRing(w)' = InRing(w) \cup {c}
  BY <1>1, PlaceTasks
<1>3. c \in Writes
  BY PrepareTypes DEF StepInv
<1> HIDE DEF c
<1>4. \A v \in Workers : v # w => InRing(v)' = InRing(v)
  BY OtherWorkers DEF Worker
<1>5. \A x : /\ x \in Placed <=> x \in Stored \/ \E v \in Workers : x \in InRing(v)
             /\ x \in Placed' <=> x \in Stored' \/ \E v \in Workers : x \in InRing(v)'
  BY DEF Placed
<1>6. Placed' = Placed \cup {c}
  <2>1. \A x : x \in Stored' <=> x \in Stored
    BY <1>1
  <2>2. \A x : x \in Placed' <=> x \in Placed \/ x = c
    BY <1>2, <1>4, <1>5, <2>1
  <2> QED BY <2>2
<1>7. request[w] \in Tasks(w) /\ request[w] \in pushed \cap live
  BY <1>2 DEF Tasks, PlaceInv
<1>8. \A v \in Workers : request[w] \notin Requested(v)
  BY <1>2, <1>7 DEF PlaceInv, Tasks
<1>9. request[w] \notin Settled
  BY <1>2 DEF SettledInv
<1>10. \A d \in Placed : d.request # request[w]
  BY <1>8, <1>9 DEF Placed, Requested, Settled
<1> QED BY <1>2, <1>3, <1>6, <1>7, <1>10 DEF c

\* What is placed stays so unless it is a new write, or is forgotten.
LEMMA PlacedKept ==
    ASSUME TypeInv, [Next]_vars,
           \A w \in Workers : ~PlaceAtomic(w) /\ ~PlacePlain(w)
    PROVE  Placed' \subseteq Placed /\ bytes_issued' = bytes_issued /\ use' = use
<1>1. \A x : /\ x \in Placed <=> x \in Stored \/ \E v \in Workers : x \in InRing(v)
             /\ x \in Placed' <=> x \in Stored' \/ \E v \in Workers : x \in InRing(v)'
  BY DEF Placed
<1>2. UNCHANGED disk => UNCHANGED Stored
  BY DEF Stored
<1>3. CASE CallerStep
  BY <1>1, <1>2, <1>3, CallersSteps
<1>4. ASSUME NEW w \in Workers, Worker(w) \/ Complete(w)
      PROVE  Placed' \subseteq Placed /\ bytes_issued' = bytes_issued /\ use' = use
  <2>1. InRing(w)' \subseteq InRing(w)
    <3>1. CASE Reap(w)
      <4>1. PICK c \in reapable[w] : reapable' = [reapable EXCEPT ![w] = @ \ {c}]
        BY <3>1 DEF Reap
      <4> QED BY <3>1, <4>1 DEF Reap, TypeInv, InRing
    <3>2. CASE ~Reap(w)
      BY <1>4, <3>2, RingUnchanged DEF Worker, Complete
    <3> QED BY <3>1, <3>2
  <2>2. \A v \in Workers : v # w => InRing(v)' = InRing(v)
    BY <1>4, OtherWorkers
  <2>3. Stored' \subseteq Stored \cup InRing(w)
    <3>1. CASE Complete(w)
      BY <3>1, CompleteStep DEF InRing
    <3>2. CASE ~Complete(w)
      BY <1>2, <1>4, <3>2, WorkersSteps
    <3> QED BY <3>1, <3>2
  <2> QED BY <1>1, <1>4, <2>1, <2>2, <2>3, WorkersSteps
<1> QED BY <1>3, <1>4 DEF Next, CallerStep

\* Every step keeps the places of the blocks apart.
LEMMA ExtentInvNext ==
    /\ TypeInv /\ StepInv /\ BlockInv /\ PlaceInv /\ SettledInv /\ ExtentInv
    /\ [Next]_vars
    => ExtentInv'
<1> SUFFICES ASSUME TypeInv, StepInv, BlockInv, PlaceInv, SettledInv, ExtentInv, [Next]_vars
             PROVE  ExtentInv'
  OBVIOUS
<1> DEFINE Rightly(c) ==
      /\ c.request \in pushed
      /\ c.request.file # -1 => c.file = c.request.file
      /\ IF use = "explicit" THEN c.offset = c.request.block * MaxSize
         ELSE c.offset + c.request.size <= bytes_issued[c.file]
    AtCursor(w) ==
      pc[w] = "advance" =>
        IF use = "explicit" THEN offset[w] = request[w].block * MaxSize
        ELSE offset[w] = bytes_issued[FileFor(w)]
<1>1. UNCHANGED use /\ pushed \subseteq pushed'
  <2>1. CASE CallerStep
    BY <2>1, CallersSteps DEF CallerStep, CallPush, Push, Close, Wait, WaitReturns, vars, callers
  <2> QED BY <2>1, WorkersSteps DEF Next, CallerStep
<1>2. ASSUME \A w \in Workers : ~PlaceAtomic(w) /\ ~PlacePlain(w) PROVE ExtentInv'
  <2>1. Placed' \subseteq Placed /\ bytes_issued' = bytes_issued /\ use' = use
    BY <1>2, PlacedKept
  <2>2. \A c \in Placed' : Rightly(c)'
    BY <1>1, <2>1 DEF ExtentInv
  <2>3. \A c, d \in Placed' : c.request = d.request => c = d
    BY <2>1 DEF ExtentInv
  <2>4. \A c, d \in Placed' : c # d => Store!Disjoint(c, d)
    BY <2>1 DEF ExtentInv
  <2>5. ASSUME NEW w \in Workers, UNCHANGED <<pc[w], offset[w], request[w], current_file[w]>>
        PROVE  AtCursor(w)'
    BY <1>1, <2>1, <2>5 DEF ExtentInv, FileFor
  <2>6. CASE CallerStep
    <3>1. \A w \in Workers : AtCursor(w)'
      BY <2>5, <2>6, CallersSteps
    <3> QED BY <2>2, <2>3, <2>4, <3>1 DEF ExtentInv
  <2>7. ASSUME NEW w \in Workers, Worker(w) \/ Complete(w) PROVE ExtentInv'
    <3>1. \A v \in Workers : v # w => AtCursor(v)'
      BY <2>5, <2>7, OtherWorkers
    <3>2. AtCursor(w)'
      <4>1. CASE ReadCursor(w)
        <5>1. /\ request[w] \in pushed /\ request[w] \in RequestsFor(request[w].block)
              /\ request[w] \in Requests
          BY <4>1 DEF ReadCursor, StepInv, InHand, Tasks, PlaceInv, BlockInv, Made, TypeInv
        <5>2. /\ offset'[w] = IF request[w].offset # -1 THEN request[w].offset
                              ELSE bytes_issued[FileFor(w)]
              /\ UNCHANGED <<request, bytes_issued, current_file, use>> /\ use # "shared"
          BY <4>1 DEF ReadCursor, callers, TypeInv
        <5>3. FileFor(w)' = FileFor(w)
          BY <5>2 DEF FileFor
        <5>4. CASE use = "explicit"
          <6>1. request[w].offset = request[w].block * MaxSize
            BY <5>1, <5>4 DEF RequestsFor
          <6>2. request[w].offset # -1
            BY <5>1, <6>1, RequestParts
          <6> QED BY <5>2, <5>4, <6>1, <6>2
        <5>5. CASE use # "explicit"
          <6>1. request[w].offset = -1
            BY <5>1, <5>5 DEF RequestsFor
          <6> QED BY <5>2, <5>3, <5>5, <6>1
        <5> QED BY <5>4, <5>5
      <4>2. CASE Complete(w)
        BY <2>5, <4>2 DEF Complete, Succeed, FailWrite, placing
      <4>3. CASE Worker(w) /\ ~ReadCursor(w)
        <5>1. pc'[w] # "advance"
          BY <1>2, <4>3
             DEF Worker, Reap, NothingToReap, Poll, BatchFull, PollFinish, Submit, Goto, TypeInv
        <5> QED BY <5>1
      <4> QED BY <2>7, <4>1, <4>2, <4>3
    <3>3. \A v \in Workers : AtCursor(v)'
      BY <3>1, <3>2
    <3> QED BY <2>2, <2>3, <2>4, <3>3 DEF ExtentInv
  <2> QED BY <2>6, <2>7 DEF Next, CallerStep
<1>3. ASSUME NEW w \in Workers, NEW o \in Nat, Prepare(w, o),
             pc[w] \in {"place", "advance"}, PlaceAtomic(w) \/ PlacePlain(w),
             IF use = "explicit" THEN o = request[w].block * MaxSize
             ELSE /\ o = bytes_issued[FileFor(w)]
                  /\ bytes_issued' = [bytes_issued EXCEPT
                                         ![FileFor(w)] = o + request[w].size]
      PROVE  ExtentInv'
  <2> DEFINE c == Write(request[w], FileFor(w), o)
  <2>1. /\ c.request = request[w] /\ c.file = FileFor(w) /\ c.offset = o
        /\ c \in Writes /\ request[w] \in pushed \cap live
        /\ Placed' = Placed \cup {c}
        /\ \A d \in Placed : d.request # request[w]
    BY <1>3, NewWrite
  <2> HIDE DEF c
  <2>2. /\ request[w] \in RequestsFor(request[w].block) /\ request[w] \in Requests
        /\ request[w].size \in Nat /\ FileFor(w) \in Files
        /\ request[w].file # -1 => FileFor(w) = request[w].file
    BY <2>1, RequestParts, FileForType DEF BlockInv, Made, TypeInv
  <2>3. Placed \subseteq Writes
    BY DEF Placed, Stored, InRing, TypeInv
  <2>4. ASSUME use # "explicit"
        PROVE  \A f \in Files : /\ bytes_issued[f] \in Nat /\ bytes_issued'[f] \in Nat
                               /\ bytes_issued[f] <= bytes_issued'[f]
                               /\ bytes_issued'[f] = IF f = FileFor(w) THEN o + request[w].size
                                                    ELSE bytes_issued[f]
    BY <1>3, <2>2, <2>4 DEF TypeInv
  <2>5. \A d \in Placed' : Rightly(d)'
    <3>1. ASSUME NEW d, d = c PROVE Rightly(d)'
      <4>1. d.request \in pushed' /\ (d.request.file # -1 => d.file = d.request.file)
        BY <1>1, <2>1, <2>2, <3>1
      <4>2. CASE use = "explicit"
        BY <1>1, <1>3, <2>1, <3>1, <4>1, <4>2
      <4>3. CASE use # "explicit"
        <5>1. /\ bytes_issued'[d.file] = d.offset + d.request.size
              /\ bytes_issued'[d.file] \in Nat
          BY <2>1, <2>2, <2>4, <3>1, <4>3
        <5> QED BY <1>1, <4>1, <4>3, <5>1
      <4> QED BY <4>2, <4>3
    <3>2. ASSUME NEW d \in Placed PROVE Rightly(d)'
      <4>1. d.offset \in Nat /\ d.request.size \in Nat /\ d.file \in Files
        BY <2>3, RequestParts DEF Writes
      <4>2. Rightly(d)
        BY DEF ExtentInv
      <4>3. CASE use = "explicit"
        BY <1>1, <4>2, <4>3
      <4>4. CASE use # "explicit"
        <5>1. /\ bytes_issued[d.file] <= bytes_issued'[d.file]
              /\ bytes_issued[d.file] \in Nat /\ bytes_issued'[d.file] \in Nat
              /\ d.offset + d.request.size \in Nat
          BY <2>4, <4>1, <4>4
        <5>2. d.offset + d.request.size <= bytes_issued'[d.file]
          BY <4>2, <4>4, <5>1
        <5> QED BY <1>1, <4>2, <4>4, <5>2
      <4> QED BY <4>3, <4>4
    <3> QED BY <2>1, <3>1, <3>2
  <2>6. ASSUME NEW d \in Placed
        PROVE  Store!Disjoint(c, d) /\ Store!Disjoint(d, c)
    <3>1. d.offset \in Nat /\ d.file \in Files /\ d.request \in Requests
      BY <2>3 DEF Writes
    <3>2. d.request.size \in Nat /\ d.request.block \in Nat /\ request[w].block \in Nat
      BY <2>2, <3>1, RequestParts
    <3>3. CASE use # "explicit"
      <4>1. d.offset + d.request.size <= bytes_issued[d.file]
        BY <3>3 DEF ExtentInv
      <4> QED BY <1>3, <2>1, <3>1, <3>2, <3>3, <4>1 DEF Store!Disjoint
    <3>4. CASE use = "explicit"
      <4>1. d.request \in RequestsFor(d.request.block) /\ d.request.block # request[w].block
        BY <2>1 DEF BlockInv, Made, ExtentInv
      <4>2. d.request.size = MaxSize /\ request[w].size = MaxSize
        BY <2>2, <3>4, <4>1 DEF RequestsFor
      <4>3. d.offset = d.request.block * MaxSize /\ c.offset = request[w].block * MaxSize
        BY <1>3, <2>1, <3>4 DEF ExtentInv
      <4>4. MaxSize \in Nat
        BY Sizes
      <4>5. \/ d.offset + MaxSize <= c.offset
            \/ c.offset + MaxSize <= d.offset
        <5>1. CASE d.request.block < request[w].block
          BY <3>2, <4>3, <4>4, <5>1, Multiples
        <5>2. CASE request[w].block < d.request.block
          BY <3>2, <4>3, <4>4, <5>2, Multiples
        <5> QED BY <3>2, <4>1, <5>1, <5>2
      <4> QED BY <2>1, <4>2, <4>5 DEF Store!Disjoint
    <3> QED BY <3>3, <3>4
  <2>7. \A d, e \in Placed' : d.request = e.request => d = e
    BY <2>1 DEF ExtentInv
  <2>8. \A d, e \in Placed' : d # e => Store!Disjoint(d, e)
    BY <2>1, <2>6 DEF ExtentInv
  <2>9. ASSUME NEW v \in Workers, pc'[v] = "advance" PROVE AtCursor(v)'
    <3>1. pc'[w] = "batch"
      BY <1>3 DEF Prepare, Goto, TypeInv
    <3>2. v # w
      BY <2>9, <3>1
    <3>3. /\ pc[v] = "advance" /\ offset'[v] = offset[v] /\ request'[v] = request[v]
          /\ current_file'[v] = current_file[v] /\ FileFor(v)' = FileFor(v)
      BY <1>3, <2>9, <3>2, OtherWorkers DEF Worker, FileFor
    <3>4. CASE use = "explicit"
      BY <1>1, <3>3, <3>4 DEF ExtentInv
    <3>5. CASE use # "explicit"
      <4>1. use = "append"
        <5>1. use \in KindsOfUse /\ use # "shared"
          BY <3>3, SizesAssumption DEF StepInv, TypeInv
        <5> QED BY <3>5, <5>1 DEF KindsOfUse
      <4>2. request[v] \in RequestsFor(request[v].block)
        BY <3>3 DEF StepInv, InHand, Tasks, PlaceInv, BlockInv, Made
      <4>3. request[v].file = -1 /\ request[w].file = -1
        BY <2>2, <4>1, <4>2 DEF RequestsFor
      <4>4. FileFor(v) % NumThreads = v /\ FileFor(w) % NumThreads = w /\ FileFor(v) \in Files
        BY <4>3, FileForType
      <4>5. bytes_issued'[FileFor(v)] = bytes_issued[FileFor(v)]
        BY <2>4, <3>2, <3>5, <4>4
      <4> QED BY <1>1, <3>3, <3>5, <4>5 DEF ExtentInv
    <3> QED BY <3>4, <3>5
  <2> QED BY <2>5, <2>7, <2>8, <2>9 DEF ExtentInv
<1>4. ASSUME NEW w \in Workers, PlaceAtomic(w) PROVE ExtentInv'
  <2>1. bytes_issued[FileFor(w)] \in Nat
    BY FileForType DEF TypeInv
  <2>2. use # "explicit"
    BY <1>4 DEF PlaceAtomic
  <2> QED BY <1>3, <1>4, <2>1, <2>2 DEF PlaceAtomic
<1>5. ASSUME NEW w \in Workers, PlacePlain(w) PROVE ExtentInv'
  <2>1. offset[w] \in Nat /\ pc[w] = "advance" /\ Prepare(w, offset[w])
    BY <1>5 DEF PlacePlain, TypeInv
  <2>2. CASE use = "explicit"
    <3>1. offset[w] = request[w].block * MaxSize
      BY <2>1, <2>2 DEF ExtentInv
    <3> QED BY <1>3, <1>5, <2>1, <2>2, <3>1
  <2>3. CASE use # "explicit"
    <3>1. offset[w] = bytes_issued[FileFor(w)]
      BY <2>1, <2>3 DEF ExtentInv
    <3>2. bytes_issued' = [bytes_issued EXCEPT ![FileFor(w)] = offset[w] + request[w].size]
      BY <1>5, <3>1 DEF PlacePlain, AdvanceCursor
    <3> QED BY <1>3, <1>5, <2>1, <2>3, <3>1, <3>2
  <2> QED BY <2>2, <2>3
<1> QED BY <1>2, <1>4, <1>5

-----------------------------------------------------------------------------
(* How far a file grows                                                    *)

\* There are no more requests than blocks.
LEMMA StartedFinite ==
    ASSUME TypeInv, BlockInv, BoundInv
    PROVE  /\ IsFiniteSet(Started) /\ Cardinality(Started) \in Nat
           /\ Cardinality(Started) <= MaxBlocks
<1>1. Started \subseteq Made /\ IsFiniteSet(Made) /\ Cardinality(Made) <= MaxBlocks
  BY DEF Started, Made, BlockInv, BoundInv
<1>2. /\ IsFiniteSet(Started) /\ Cardinality(Started) <= Cardinality(Made)
      /\ Cardinality(Started) \in Nat /\ Cardinality(Made) \in Nat
  BY <1>1, FS_Subset, FS_CardinalityType
<1> QED BY <1>1, <1>2, Sizes

\* The initial state.
LEMMA BoundInvInit == Init => BoundInv
<1> SUFFICES ASSUME Init PROVE BoundInv
  OBVIOUS
<1>1. Made = {} /\ Started = {}
  BY DEF Init, Made, Started
<1> QED BY <1>1, FS_EmptySet, Sizes DEF Init, BoundInv

\* Every step keeps the cursors within the blocks that were given a place.
LEMMA BoundInvNext ==
    /\ TypeInv /\ StepInv /\ BlockInv /\ PlaceInv /\ SettledInv /\ ExtentInv /\ BoundInv
    /\ TypeInv' /\ BlockInv'
    /\ [Next]_vars
    => BoundInv'
<1> SUFFICES ASSUME TypeInv, StepInv, BlockInv, PlaceInv, SettledInv, ExtentInv, BoundInv,
                    TypeInv', BlockInv', [Next]_vars
             PROVE  BoundInv'
  OBVIOUS
<1>1. Cardinality(Made') <= MaxBlocks
  <2>1. ASSUME NEW p \in Producers, CallPush(p) PROVE Cardinality(Made') <= MaxBlocks
    <3>1. PICK r : live' = live \cup {r} /\ pushed' = pushed
      BY <2>1 DEF CallPush
    <3>2. Made' = Made \cup {r} /\ Cardinality(Made) + 1 <= MaxBlocks
      BY <2>1, <3>1 DEF CallPush, Made, NextBlock, Blocks
    <3>3. Cardinality(Made) \in Nat /\ Cardinality(Made') \in Nat
      BY FS_CardinalityType DEF BlockInv
    <3>4. CASE r \in Made
      BY <3>2, <3>3, <3>4, Sizes
    <3>5. CASE r \notin Made
      <4>1. Cardinality(Made') = Cardinality(Made) + 1
        BY <3>2, <3>5, FS_AddElement DEF BlockInv
      <4> QED BY <3>2, <3>3, <4>1, Sizes
    <3> QED BY <3>4, <3>5
  <2>2. ASSUME Made' \subseteq Made PROVE Cardinality(Made') <= MaxBlocks
    <3>1. Cardinality(Made') <= Cardinality(Made) /\ Cardinality(Made) <= MaxBlocks
      BY <2>2, FS_Subset DEF BlockInv, BoundInv
    <3>2. Cardinality(Made) \in Nat /\ Cardinality(Made') \in Nat
      BY FS_CardinalityType DEF BlockInv
    <3> QED BY <3>1, <3>2, Sizes
  <2>3. ASSUME NEW p \in Producers, Push(p) PROVE Made' \subseteq Made
    BY <2>3 DEF Push, ring, Made, BlockInv
  <2>4. ASSUME NEW w \in Workers, Worker(w) \/ Complete(w) PROVE Made' \subseteq Made
    <3>1. pushed' = pushed /\ (~Reap(w) => live' = live)
      BY <2>4, WorkersSteps
    <3> QED BY <3>1 DEF Reap, Made
  <2>5. CASE Close \/ Wait \/ WaitReturns \/ UNCHANGED vars
    BY <2>2, <2>5 DEF Close, Wait, WaitReturns, vars, callers, ring, Made
  <2> QED BY <2>1, <2>2, <2>3, <2>4, <2>5 DEF Next
<1>2. IsFiniteSet(Started') /\ Cardinality(Started') \in Nat
  <2>1. Started' \subseteq Made' /\ IsFiniteSet(Made')
    BY DEF Started, Made, BlockInv
  <2> QED BY <2>1, FS_Subset, FS_CardinalityType
<1>3. IsFiniteSet(Started) /\ Cardinality(Started) \in Nat
  BY StartedFinite
<1>4. ASSUME UNCHANGED <<bytes_issued, use>>, Started \subseteq Started' PROVE BoundInv'
  <2>1. Cardinality(Started) <= Cardinality(Started')
    BY <1>2, <1>4, FS_Subset
  <2>2. Cardinality(Started) * MaxSize <= Cardinality(Started') * MaxSize
    <3>1. CASE Cardinality(Started) = Cardinality(Started')
      BY <1>2, <3>1, Sizes
    <3>2. CASE Cardinality(Started) < Cardinality(Started')
      BY <1>2, <1>3, <3>2, Multiples, Sizes
    <3> QED BY <1>2, <1>3, <2>1, <3>1, <3>2
  <2>3. Cardinality(Started) * MaxSize \in Nat /\ Cardinality(Started') * MaxSize \in Nat
    BY <1>2, <1>3, Sizes
  <2>4. ASSUME NEW f \in Files, use # "explicit"
        PROVE  bytes_issued'[f] <= Cardinality(Started') * MaxSize
    <3>1. bytes_issued[f] <= Cardinality(Started) * MaxSize /\ bytes_issued[f] \in Nat
      BY <2>4 DEF BoundInv, TypeInv
    <3> QED BY <1>4, <2>2, <2>3, <3>1
  <2> QED BY <1>1, <1>4, <2>4 DEF BoundInv
<1>5. CASE CallerStep
  <2>1. /\ UNCHANGED <<bytes_issued, use, request>> /\ pushed \subseteq pushed'
        /\ \/ UNCHANGED queue
           \/ \E p \in Producers : Push(p)
    BY <1>5, CallersSteps
       DEF CallerStep, CallPush, Push, Close, Wait, WaitReturns, vars, callers
  <2>2. InQueue' \cap pushed \subseteq InQueue
    <3>1. CASE UNCHANGED queue
      BY <3>1 DEF InQueue
    <3>2. ASSUME NEW p \in Producers, Push(p) PROVE InQueue' \cap pushed \subseteq InQueue
      <4>1. /\ producer[p] \in Requests /\ producer[p] \notin pushed
            /\ queue' = Append(queue, producer[p])
        BY <3>2 DEF Push, BlockInv, TypeInv
      <4>2. producer[p] \notin InQueue
        BY <4>1 DEF PlaceInv
      <4>3. InQueue' = InQueue \cup {producer[p]}
        BY <4>1, <4>2, QueuePush DEF PlaceInv
      <4> QED BY <4>1, <4>3
    <3> QED BY <2>1, <3>1, <3>2
  <2> QED BY <1>4, <2>1, <2>2 DEF Started
<1>6. ASSUME NEW w \in Workers, Worker(w) \/ Complete(w), ~PlaceAtomic(w), ~PlacePlain(w)
      PROVE  BoundInv'
  <2>1. UNCHANGED <<bytes_issued, use, pushed>>
    BY <1>6, WorkersSteps
  <2>2. CASE Poll(w)
    <3>1. Head(queue) \in InQueue /\ InQueue' = InQueue \ {Head(queue)}
      BY <2>2, QueuePoll DEF Poll, PlaceInv
    <3>2. \A v \in Workers : request'[v] = IF v = w THEN Head(queue) ELSE request[v]
      BY <2>2 DEF Poll, TypeInv
    <3>3. Started \subseteq Started'
      BY <2>1, <3>1, <3>2 DEF Started
    <3> QED BY <1>4, <2>1, <3>3
  <2>3. CASE ~Poll(w)
    <3>1. UNCHANGED request /\ UNCHANGED InQueue
      BY <1>6, <2>3
         DEF Worker, Complete, Reap, NothingToReap, ReadCursor, BatchFull, PollFinish, Submit,
             Succeed, FailWrite, placing, InQueue
    <3> QED BY <1>4, <2>1, <3>1 DEF Started
  <2> QED BY <2>2, <2>3
<1>7. ASSUME NEW w \in Workers, PlaceAtomic(w) \/ PlacePlain(w) PROVE BoundInv'
  <2> DEFINE r == request[w]
             n == Cardinality(Started)
             m == Cardinality(Started')
  <2>1. /\ r # NoRequest /\ r \in Requests /\ r \in pushed /\ r \notin InQueue
        /\ \A v \in Workers : v # w => request[v] # r
    <3>1. r # NoRequest
      BY <1>7 DEF PlaceAtomic, PlacePlain, StepInv
    <3>2. r \in InHand(w) /\ r \in Tasks(w)
      BY <3>1 DEF InHand, Tasks
    <3>3. \A v \in Workers : request[v] # NoRequest => request[v] \in Tasks(v)
      BY DEF InHand, Tasks
    <3> QED BY <3>1, <3>2, <3>3 DEF PlaceInv, TypeInv
  <2>2. /\ UNCHANGED <<queue, pushed, use, InQueue>>
        /\ \A v \in Workers : request'[v] = IF v = w THEN NoRequest ELSE request[v]
    BY <1>7 DEF PlaceAtomic, PlacePlain, Prepare, callers, InQueue, TypeInv
  <2>3. r \notin Started /\ Started \cup {r} \subseteq Started'
    <3>1. Started \subseteq Requests
      BY DEF Started, TypeInv
    <3> QED BY <2>1, <2>2, <3>1, Sizes DEF Started
  <2>4. n \in Nat /\ m \in Nat /\ n < m
    <3>1. Cardinality(Started \cup {r}) = n + 1
      BY <1>3, <2>3, FS_AddElement
    <3>2. Cardinality(Started \cup {r}) <= m
      BY <1>2, <2>3, FS_Subset
    <3> QED BY <1>2, <1>3, <3>1, <3>2
  <2> HIDE DEF n, m
  <2>5. n * MaxSize + MaxSize <= m * MaxSize
    BY <2>4, Multiples, Sizes
  <2>6. ASSUME NEW f \in Files, use # "explicit" PROVE bytes_issued'[f] <= m * MaxSize
    <3>1. bytes_issued[f] <= n * MaxSize /\ bytes_issued[f] \in Nat /\ MaxSize \in Nat
      BY <2>6, Sizes DEF BoundInv, TypeInv, n
    <3>2. r.size \in Nat /\ r.size <= MaxSize /\ FileFor(w) \in Files
      BY <2>1, <3>1, RequestParts, FileForType
    <3>3. bytes_issued'[f] = bytes_issued[f] \/ bytes_issued'[f] = bytes_issued[f] + r.size
      <4>1. CASE PlaceAtomic(w)
        BY <3>2, <4>1 DEF PlaceAtomic, TypeInv
      <4>2. CASE PlacePlain(w)
        <5>1. offset[w] = bytes_issued[FileFor(w)]
          BY <2>6, <4>2 DEF PlacePlain, ExtentInv
        <5>2. bytes_issued' = [bytes_issued EXCEPT ![FileFor(w)] = offset[w] + r.size]
          BY <4>2, <5>1 DEF PlacePlain, AdvanceCursor
        <5> QED BY <3>2, <5>1, <5>2 DEF TypeInv
      <4> QED BY <1>7, <4>1, <4>2
    <3>4. n * MaxSize \in Nat /\ m * MaxSize \in Nat
      BY <2>4, <3>1
    <3> HIDE DEF r
    <3> QED BY <2>5, <3>1, <3>2, <3>3, <3>4
  <2> QED BY <1>1, <2>2, <2>6 DEF BoundInv, m
<1> QED BY <1>5, <1>6, <1>7 DEF Next, CallerStep

-----------------------------------------------------------------------------
(* Every reachable state                                                   *)

RunInv ==
    /\ TypeInv /\ StepInv /\ CloseInv /\ BlockInv /\ PlaceInv /\ RingInv /\ SettledInv
    /\ ExtentInv /\ BoundInv

\* The invariant is inductive.
LEMMA RunInvariant == Spec => []RunInv
<1>1. Init => RunInv
  BY TypeInvInit, StepInvInit, CloseInvInit, BlockInvInit, PlaceInvInit, RingInvInit,
     SettledInvInit, ExtentInvInit, BoundInvInit
     DEF RunInv
<1>2. RunInv /\ [Next]_vars => RunInv'
  <2> SUFFICES ASSUME RunInv, [Next]_vars PROVE RunInv'
    OBVIOUS
  <2>1. TypeInv' /\ StepInv' /\ CloseInv' /\ BlockInv'
    BY TypeInvNext, StepInvNext, CloseInvNext, BlockInvNext DEF RunInv
  <2>2. PlaceInv' /\ RingInv' /\ SettledInv' /\ ExtentInv'
    BY PlaceInvNext, RingInvNext, SettledInvNext, ExtentInvNext DEF RunInv
  <2>3. BoundInv'
    BY <2>1, BoundInvNext DEF RunInv
  <2> QED BY <2>1, <2>2, <2>3 DEF RunInv
<1> QED BY <1>1, <1>2, PTL DEF Spec

\* In every reachable state the variables have their types.
THEOREM TypeCorrect == Spec => []TypeOK
<1>1. RunInv => TypeOK
  <2> SUFFICES ASSUME RunInv PROVE TypeOK
    OBVIOUS
  <2> DEFINE Request == {NoRequest} \cup [block : Blocks, size : 1..MaxSize,
                                          file : Files \cup {-1}, offset : Int]
             Wide == [request : Request, file : Files, offset : Nat]
  <2>1. Requests \cup {NoRequest} \subseteq Request
    <3>1. Offsets \subseteq Int
      BY Sizes DEF Offsets, Blocks
    <3> QED BY <3>1 DEF Requests
  <2>2. Writes \subseteq Wide
    BY <2>1 DEF Writes
  <2> HIDE DEF Request
  <2>3. queue \in Seq(Request)
    <3>1. queue \in Seq(Requests) /\ Requests \subseteq Request
      BY <2>1 DEF RunInv, TypeInv
    <3> QED BY <3>1
  <2>4. /\ producer \in [Producers -> Request] /\ request \in [Workers -> Request]
        /\ pushed \subseteq Request /\ live \subseteq Request /\ failed \subseteq Request
    BY <2>1 DEF RunInv, TypeInv
  <2>5. \A d \in disk : d.write \in Wide /\ d.intact \in BOOLEAN
    BY <2>2 DEF RunInv, TypeInv
  <2>6. \A w \in Workers : InRing(w) \subseteq Wide
    BY <2>2 DEF RunInv, TypeInv, InRing
  <2>7. \A w \in Workers : current_file[w] \in 0..(Cardinality(FilesOf(w)) - 1)
    BY FileTurns DEF RunInv, TypeInv
  <2>8. outstanding \in [Workers -> 0..MaxOutstanding]
    <3>1. \A w \in Workers : outstanding[w] \in 0..MaxOutstanding
      BY Sizes DEF RunInv, TypeInv, RingInv
    <3> QED BY <3>1 DEF RunInv, TypeInv
  <2> QED BY <2>3, <2>4, <2>5, <2>6, <2>7, <2>8 DEF RunInv, TypeInv, TypeOK, Places, Request
<1> QED BY <1>1, RunInvariant, PTL

\* A batch never asks the submission queue for an entry it has not got, and the
\* completions not yet seen never outgrow the completion queue
\* (unordered_file_writer.h lines 216, 251 and 260).
THEOREM RingIsNeverOverfull == Spec => []FitsRing
<1>1. RunInv => FitsRing
  <2> SUFFICES ASSUME RunInv, NEW w \in Workers
               PROVE  /\ pc[w] \in {"place", "advance"} => Cardinality(held[w]) < RingSize
                      /\ Cardinality(in_flight[w] \cup reapable[w]) <= 2 * RingSize
                      /\ outstanding[w] = Cardinality(InRing(w))
    BY DEF FitsRing
  <2>1. in_flight[w] \cup reapable[w] \subseteq InRing(w) /\ IsFiniteSet(InRing(w))
    BY DEF InRing, RunInv, RingInv
  <2>2. /\ IsFiniteSet(in_flight[w] \cup reapable[w])
        /\ Cardinality(in_flight[w] \cup reapable[w]) <= Cardinality(InRing(w))
    BY <2>1, FS_Subset
  <2>3. Cardinality(in_flight[w] \cup reapable[w]) \in Nat /\ Cardinality(InRing(w)) \in Nat
    BY <2>1, <2>2, FS_CardinalityType
  <2>4. Cardinality(InRing(w)) <= 2 * RingSize /\ 2 * RingSize \in Nat
    BY Sizes DEF RunInv, RingInv, MaxOutstanding
  <2> QED BY <2>2, <2>3, <2>4 DEF RunInv, RingInv
<1> QED BY <1>1, RunInvariant, PTL

\* The data of a block is there until the kernel has written it, however long a
\* batch waits (unordered_file_writer.h lines 232-238).
THEOREM DataIsKept == Spec => []WrittenIntact
<1>1. RunInv => WrittenIntact
  BY DEF RunInv, SettledInv
<1> QED BY <1>1, RunInvariant, PTL

-----------------------------------------------------------------------------
(* The writer is a store                                                   *)

\* Where the blocks are put, as the store knows it.
LEMMA StorePlaces ==
    ASSUME RunInv, NEW c \in Placed
    PROVE  /\ c.offset \in 0..(MaxBlocks * MaxSize) /\ c.file \in Files
           /\ c = [request |-> c.request, file |-> c.file, offset |-> c.offset]
           /\ c.request \in Requests
           /\ Store!Honours(c)
<1> USE DEF RunInv
<1>1. c \in Writes
  BY DEF Placed, Stored, InRing, TypeInv
<1>2. /\ c.request \in Requests /\ c.file \in Files /\ c.offset \in Nat
      /\ c = [request |-> c.request, file |-> c.file, offset |-> c.offset]
  BY <1>1 DEF Writes
<1>3. /\ c.request.block \in Nat /\ c.request.block <= MaxBlocks /\ c.request.size \in Nat
      /\ MaxBlocks \in Nat /\ MaxSize \in Nat
  BY <1>2, RequestParts, Sizes DEF Blocks
<1>4. c.request \in RequestsFor(c.request.block)
  BY DEF ExtentInv, BlockInv, Made
<1>5. \A n \in Nat : n <= MaxBlocks => n * MaxSize <= MaxBlocks * MaxSize
  <2> SUFFICES ASSUME NEW n \in Nat, n <= MaxBlocks PROVE n * MaxSize <= MaxBlocks * MaxSize
    OBVIOUS
  <2>1. CASE n < MaxBlocks
    <3>1. n * MaxSize + MaxSize <= MaxBlocks * MaxSize
      BY <1>3, <2>1, Multiples
    <3> QED BY <1>3, <3>1
  <2>2. CASE n = MaxBlocks
    BY <1>3, <2>2
  <2> QED BY <1>3, <2>1, <2>2
<1>6. CASE use = "explicit"
  <2>1. c.offset = c.request.block * MaxSize
    BY <1>6 DEF ExtentInv
  <2>2. c.request.offset = c.offset
    BY <1>4, <1>6, <2>1 DEF RequestsFor
  <2> QED BY <1>2, <1>3, <1>5, <2>1, <2>2 DEF ExtentInv, Store!Honours
<1>7. CASE use # "explicit"
  <2>1. c.offset + c.request.size <= bytes_issued[c.file]
    BY <1>7 DEF ExtentInv
  <2>2. Cardinality(Started) \in Nat /\ Cardinality(Started) <= MaxBlocks
    BY StartedFinite
  <2>3. bytes_issued[c.file] <= Cardinality(Started) * MaxSize /\ bytes_issued[c.file] \in Nat
    BY <1>2, <1>7 DEF BoundInv, TypeInv
  <2>4. /\ Cardinality(Started) * MaxSize <= MaxBlocks * MaxSize
        /\ Cardinality(Started) * MaxSize \in Nat /\ MaxBlocks * MaxSize \in Nat
    BY <1>3, <1>5, <2>2
  <2>5. c.offset <= MaxBlocks * MaxSize
    BY <1>2, <1>3, <2>1, <2>3, <2>4
  <2>6. c.request.offset = -1
    BY <1>4, <1>7 DEF RequestsFor
  <2> QED BY <1>2, <2>4, <2>5, <2>6 DEF ExtentInv, Store!Honours
<1> QED BY <1>6, <1>7

\* When Wait is about to return, everything pushed is dealt with.
LEMMA NothingLeftBehind ==
    ASSUME RunInv, \A w \in Workers : pc[w] = "exited"
    PROVE  pushed = Settled
<1> USE DEF RunInv
<1>1. \A w \in Workers : InRing(w) = {} /\ request[w] = NoRequest
                         /\ phase[w] = "WAITING_FOR_COMPLETION"
  BY DEF StepInv
<1>2. \A w \in Workers : Tasks(w) = {}
  BY <1>1 DEF Tasks, InHand, Requested
<1>3. queue = <<>>
  BY <1>1, Sizes DEF CloseInv
<1>4. InQueue = {}
  BY <1>3 DEF InQueue
<1> QED BY <1>2, <1>4 DEF SettledInv

\* Every step is a step of the store, or nothing the callers can tell.
LEMMA StoreStep ==
    ASSUME RunInv, [Next]_vars
    PROVE  [Store!Next]_(Store!vars)
<1> USE DEF RunInv
<1>1. Store!Settled = Settled
  BY DEF Store!Settled, Settled, Stored
<1>2. ASSUME UNCHANGED <<pushed, disk, failed, owner>> PROVE UNCHANGED Store!vars
  BY <1>2 DEF Store!vars
<1>3. ASSUME NEW p \in Producers, CallPush(p) PROVE UNCHANGED Store!vars
  BY <1>2, <1>3 DEF CallPush
<1>4. ASSUME NEW p \in Producers, Push(p) PROVE Store!Next
  <2>1. /\ producer[p] # NoRequest /\ pushed' = pushed \cup {producer[p]}
        /\ UNCHANGED <<disk, failed, owner>>
    BY <1>4 DEF Push, ring
  <2>2. owner = "open"
    BY <2>1 DEF CloseInv, AllPushed
  <2>3. producer[p] \in Requests /\ producer[p] \in live \ pushed
    BY <2>1 DEF BlockInv, TypeInv
  <2>4. \A q \in pushed : q.block # producer[p].block
    BY <2>3 DEF BlockInv, Made
  <2>5. Store!Accept(producer[p])
    BY <2>1, <2>2, <2>4 DEF Store!Accept
  <2> QED BY <2>3, <2>5 DEF Store!Next, Requests, Offsets
<1>5. CASE Close
  BY <1>2, <1>5 DEF Close, ring
<1>6. CASE Wait
  <2>1. Store!Wait
    BY <1>6 DEF Wait, ring, Store!Wait
  <2> QED BY <2>1 DEF Store!Next
<1>7. CASE WaitReturns
  <2>1. pushed = Settled
    BY <1>7, NothingLeftBehind DEF WaitReturns
  <2>2. Store!Finish
    BY <1>1, <1>7, <2>1 DEF WaitReturns, ring, Store!Finish
  <2> QED BY <2>2 DEF Store!Next
<1>8. ASSUME NEW w \in Workers, Worker(w) PROVE UNCHANGED Store!vars
  <2>1. UNCHANGED <<pushed, owner>>
    BY <1>8, WorkersSteps
  <2>2. UNCHANGED <<disk, failed>>
    BY <1>8 DEF Worker, Reap, NothingToReap, Poll, PlaceAtomic, ReadCursor, PlacePlain,
                BatchFull, PollFinish, Submit, ring
  <2> QED BY <1>2, <2>1, <2>2
<1>9. ASSUME NEW w \in Workers, Complete(w) PROVE Store!Next
  <2>1. PICK c \in in_flight[w] :
          \/ /\ Stored' = Stored \cup {c} /\ failed' = failed
             /\ Succeed(w)
          \/ /\ disk' = disk /\ Stored' = Stored
             /\ failed' = failed \cup {c.request}
             /\ FailWrite(w)
    BY <1>9, CompleteStep
  <2>2. UNCHANGED <<pushed, owner>>
    BY <1>9, WorkersSteps
  <2>3. c \in InRing(w) /\ c \in Placed
    BY DEF InRing, Placed
  <2>4. /\ c.offset \in 0..(MaxBlocks * MaxSize) /\ c.file \in Files
        /\ c = [request |-> c.request, file |-> c.file, offset |-> c.offset]
        /\ c.request \in Requests /\ Store!Honours(c)
    BY <2>3, StorePlaces
  <2>5. c.request \in pushed \ Settled
    BY <2>3 DEF ExtentInv, SettledInv
  <2>6. CASE Stored' = Stored \cup {c} /\ failed' = failed
    <3> DEFINE place == [file |-> c.file, offset |-> c.offset]
    <3>1. place \in [file : Files, offset : 0..(MaxBlocks * MaxSize)]
      BY <2>4
    <3>2. place.file = c.file /\ place.offset = c.offset
      OBVIOUS
    <3> HIDE DEF place
    <3>3. c = [request |-> c.request, file |-> place.file, offset |-> place.offset]
      BY <2>4, <3>2
    <3>4. \A d \in Stored : Store!Disjoint(c, d)
      <4>1. \A d \in Stored : d \in Placed /\ d # c
        BY <2>5 DEF Placed, Settled
      <4> QED BY <2>3, <4>1 DEF ExtentInv
    <3>5. Store!Store(c.request)
      BY <1>1, <2>2, <2>4, <2>5, <2>6, <3>1, <3>3, <3>4 DEF Store!Store, Stored
    <3> QED BY <2>4, <3>5 DEF Store!Next, Requests, Offsets
  <2>7. CASE disk' = disk /\ failed' = failed \cup {c.request}
    <3>1. Store!Fail(c.request)
      BY <1>1, <2>2, <2>5, <2>7 DEF Store!Fail
    <3> QED BY <2>4, <3>1 DEF Store!Next, Requests, Offsets
  <2> QED BY <2>1, <2>6, <2>7
<1>10. CASE UNCHANGED vars
  BY <1>2, <1>10 DEF vars, callers, ring
<1> QED BY <1>3, <1>4, <1>5, <1>6, <1>7, <1>8, <1>9, <1>10 DEF Next

\* To its callers the writer is a store: each block it takes it puts, once, where
\* it was asked to or on a place of its own, or reports; and Wait returns only
\* when that is so of all of them (unordered_file_writer.h lines 84-93, 132-147,
\* 220-302 and unordered_file_writer_modified.h lines 297-305).
THEOREM WriterIsAStore == Spec => ImplementsStoreSafely
<1>1. Init => Store!Init
  BY DEF Init, Store!Init
<1>2. RunInv /\ [Next]_vars => [Store!Next]_(Store!vars)
  BY StoreStep
<1> QED
  BY <1>1, <1>2, RunInvariant, PTL
     DEF Spec, ImplementsStoreSafely, Store!SafeSpec

=============================================================================
