---------------------- MODULE UnorderedChunkReaderProofs ----------------------
(***************************************************************************)
(* UnorderedChunkReader for any number of workers, requests, chunks and    *)
(* consumers: a buffer is handed out under the header of the chunk it      *)
(* holds, and to its consumers the reader is a stream.                     *)
(***************************************************************************)
EXTENDS UnorderedChunkReader, Integers, FiniteSetTheorems, TLAPS

Places == {"joined", "test", "reap", "issue", "cleanup", "last", "exited", "aborted"}

\* The workers that active_threads counts.
Counted == {w \in Workers : pc[w] \in {"test", "reap", "issue", "cleanup", "aborted"}}

\* The reads of a worker and their chunks; the chunks that left the workers.
Reads(w) == in_flight[w] \cup reapable[w]
Reading(w) == {d[2] : d \in Reads(w)}
Pushed == {b.header : b \in queue \cup got}

-----------------------------------------------------------------------------
(* What is known of a reachable state                                      *)

\* The types of the variables.
TypeInv ==
    /\ owner \in {"idle", "running", "resetting", "destroying", "gone"}
    /\ queue_open \in BOOLEAN
    /\ active_threads = Cardinality(Counted)
    /\ consumer \in [Consumers -> {"polling", "told", "stopped"}]
    /\ headers \subseteq Chunks
    /\ pc \in [Workers -> Places]
    /\ queue \subseteq [bytes : Chunks, header : Chunks]
    /\ got \subseteq [bytes : Chunks, header : Chunks]
    /\ next_chunk \in [Workers -> Nat]
    /\ completed \in [Workers -> Nat]
    /\ chunk_idx \in [Workers -> [Requests -> Nat]]
    /\ available \in [Workers -> SUBSET Requests]
    /\ in_flight \in [Workers -> SUBSET (Requests \X Chunks)]
    /\ reapable \in [Workers -> SUBSET (Requests \X Chunks)]

\* Between two uses all workers are joined and the queue is open and empty.
OwnerInv ==
    /\ \A w \in Workers : owner = "idle" <=> pc[w] = "joined"
    /\ owner = "idle" => Pushed = headers /\ queue = {} /\ queue_open

\* A request that is in use is not free, and names the chunk that is read.
LabelInv ==
    /\ \A w \in Workers : \A d \in Reads(w) :
         /\ d[1] \notin available[w]
         /\ chunk_idx[w][d[1]] = d[2]
    /\ LabelsMatch

\* Where the chunks are.
PlaceInv ==
    /\ \A w \in Workers :
         /\ in_flight[w] \cap reapable[w] = {}
         /\ \A d, e \in Reads(w) : d[2] = e[2] => d = e
         /\ owner # "idle" => next_chunk[w] > 0 /\ (next_chunk[w] - 1) % NumThreads = w
         /\ \A ch \in Reading(w) :
              ch \in ListOf(w) /\ ch < next_chunk[w] /\ ch \notin Pushed
         /\ \A ch \in ListOf(w) : ch \in Pushed => ch < next_chunk[w]
         /\ pc[w] # "aborted" =>
              \A ch \in ListOf(w) : ch < next_chunk[w] => ch \in Reading(w) \cup Pushed
         /\ pc[w] \in {"joined", "last", "exited", "aborted"} => Reads(w) = {}
    /\ Pushed \subseteq headers
    /\ queue \cap got = {}
    /\ \A b, c \in queue \cup got : b.header = c.header => b = c

\* What the workers count is what was pushed.
CountInv ==
    \A w \in Workers :
        /\ completed[w] = Cardinality(ListOf(w) \cap Pushed)
        /\ pc[w] \in {"last", "exited"} => ListOf(w) \subseteq Pushed

\* The queue is closed by the last worker.
EndInv == ~queue_open => \A w \in Workers : pc[w] \in {"last", "exited"}

ReaderInv == TypeInv /\ OwnerInv /\ LabelInv /\ PlaceInv /\ CountInv /\ EndInv

-----------------------------------------------------------------------------
(* Numbers and sets                                                        *)

\* What the assumption says of the numbers.
LEMMA Sizes ==
    /\ NumThreads \in Nat \ {0} /\ MaxChunks \in Nat
    /\ \A w \in Workers : w \in Nat /\ w < NumThreads
    /\ \A ch \in Chunks : ch \in Nat /\ ch > 0
BY SizesAssumption DEF Workers, Chunks

\* Numbers with the same remainder are that far apart.
LEMMA Remainders ==
    ASSUME NEW t \in Nat \ {0}, NEW a \in Nat, NEW b \in Nat
    PROVE  /\ (a + t) % t = a % t
           /\ a % t = b % t /\ a < b => a + t <= b
<1> DEFINE p == a \div t
           q == b \div t
<1>1. /\ p \in Nat /\ q \in Nat /\ a % t \in Nat /\ b % t \in Nat
      /\ a = t * p + (a % t) /\ b = t * q + (b % t)
  <2>1. t \in Int /\ t > 0
    OBVIOUS
  <2>2. ASSUME NEW n \in Nat
        PROVE  n \div t \in Nat /\ n % t \in Nat /\ n = t * (n \div t) + (n % t)
    <3>1. n = t * (n \div t) + (n % t)
      BY <2>1
    <3>2. n \div t \in Nat /\ n % t \in Nat
      BY <2>1
    <3> QED BY <3>1, <3>2
  <2> QED BY <2>2
<1> HIDE DEF p, q
<1>2. (a + t) % t = a % t
  <2>1. ASSUME NEW r \in Nat, NEW k \in Nat, r < t PROVE (r + t * k) % t = r
    <3>1. t \in Int /\ t > 0 /\ r \in 0..(t - 1)
      BY <2>1
    <3> QED BY <3>1
  <2>2. a % t \in Nat /\ a % t < t
    BY <1>1
  <2>3. a + t = (a % t) + t * (p + 1) /\ p + 1 \in Nat
    BY <1>1
  <2> QED BY <2>1, <2>2, <2>3
<1>3. ASSUME a % t = b % t, a < b PROVE a + t <= b
  <2>1. t * p < t * q /\ t * p \in Nat /\ t * q \in Nat
    BY <1>1, <1>3
  <2>2. p < q
    BY <1>1, <2>1
  <2>3. PICK k \in Nat : q = p + 1 + k
    <3>1. q = p + 1 + (q - p - 1) /\ q - p - 1 \in Nat
      BY <1>1, <2>2
    <3> QED BY <3>1
  <2>4. t * q = t * p + t + t * k /\ t * k \in Nat
    BY <1>1, <2>3
  <2> QED BY <1>1, <1>3, <2>1, <2>4
<1> QED BY <1>2, <1>3

\* Every chunk is on the list of one worker; lists are finite.
LEMMA Lists ==
    ASSUME TypeInv
    PROVE  /\ \A ch \in headers : \E w \in Workers : ch \in ListOf(w)
           /\ \A v, w \in Workers : v # w => ListOf(v) \cap ListOf(w) = {}
           /\ \A w \in Workers : \A S \in SUBSET ListOf(w) :
                /\ IsFiniteSet(S) /\ Cardinality(S) \in Nat
                /\ Cardinality(S) = Cardinality(ListOf(w)) => S = ListOf(w)
<1>1. ASSUME NEW ch \in headers PROVE \E w \in Workers : ch \in ListOf(w)
  <2>1. ch \in Nat /\ ch > 0
    BY Sizes DEF TypeInv
  <2>2. ch - 1 \in Nat /\ NumThreads \in Int /\ NumThreads > 0
    BY <2>1, Sizes
  <2>3. (ch - 1) % NumThreads \in Workers
    BY <2>2 DEF Workers
  <2> QED BY <2>3 DEF ListOf
<1>2. \A v, w \in Workers : v # w => ListOf(v) \cap ListOf(w) = {}
  BY DEF ListOf
<1>3. ASSUME NEW w \in Workers, NEW S \in SUBSET ListOf(w)
      PROVE  /\ IsFiniteSet(S) /\ Cardinality(S) \in Nat
             /\ Cardinality(S) = Cardinality(ListOf(w)) => S = ListOf(w)
  <2>1. IsFiniteSet(Chunks)
    BY Sizes, FS_Interval DEF Chunks
  <2>2. ListOf(w) \in SUBSET Chunks
    BY DEF ListOf, TypeInv
  <2>3. IsFiniteSet(ListOf(w))
    BY <2>1, <2>2, FS_Subset
  <2> QED BY <2>3, FS_Subset, FS_CardinalityType
<1> QED BY <1>1, <1>2, <1>3

\* The counted workers are finitely many.
LEMMA CountedFinite ==
    /\ IsFiniteSet(Counted) /\ Cardinality(Counted) \in Nat
    /\ IsFiniteSet(Workers) /\ Cardinality(Workers) = NumThreads
<1>1. IsFiniteSet(Workers) /\ Cardinality(Workers) = NumThreads
  BY Sizes, FS_Interval DEF Workers
<1>2. Counted \in SUBSET Workers
  BY DEF Counted
<1> QED BY <1>1, <1>2, FS_Subset, FS_CardinalityType

\* What a read is.
LEMMA ReadShape ==
    ASSUME TypeInv, NEW w \in Workers, NEW d \in Reads(w)
    PROVE  d = <<d[1], d[2]>> /\ d[1] \in Requests /\ d[2] \in Chunks
BY DEF Reads, TypeInv

-----------------------------------------------------------------------------
(* Types                                                                   *)

\* The initial state.
LEMMA TypeInvInit == Init => TypeInv
<1> SUFFICES ASSUME Init PROVE TypeInv
  OBVIOUS
<1>1. Counted = {}
  BY DEF Init, Counted
<1>2. active_threads = Cardinality(Counted)
  BY <1>1, FS_EmptySet DEF Init
<1> QED BY <1>2 DEF Init, TypeInv, Places

\* A step of a worker that only goes to another place.
LEMMA GotoType ==
    ASSUME TypeInv, NEW w \in Workers, NEW place \in Places,
           \/ pc[w] \in {"test", "reap", "issue"}
              /\ place \in {"test", "reap", "issue", "cleanup"}
           \/ pc[w] = "last" /\ place = "exited",
           Goto(w, place), queue_open' \in BOOLEAN,
           UNCHANGED <<owner, active_threads, consumer, headers, queue, got, next_chunk,
                       completed, chunk_idx, available, in_flight, reapable>>
    PROVE  TypeInv'
<1>1. pc' \in [Workers -> Places]
  BY DEF Goto, TypeInv
<1>2. Counted' = Counted
  BY DEF Goto, Counted, TypeInv
<1> QED BY <1>1, <1>2 DEF TypeInv

\* Every step keeps the types.
LEMMA TypeInvNext == TypeInv /\ LabelInv /\ [Next]_vars => TypeInv'
<1> SUFFICES ASSUME TypeInv, LabelInv, [Next]_vars PROVE TypeInv'
  OBVIOUS
<1>1. ASSUME NEW n \in 0..MaxChunks, NEW none, Start(n, none) PROVE TypeInv'
  <2>1. Counted' = Workers
    BY <1>1 DEF Start, Counted
  <2>2. active_threads' = Cardinality(Counted')
    BY <1>1, <2>1, CountedFinite DEF Start
  <2>3. 1..n \subseteq Chunks
    BY Sizes DEF Chunks
  <2>4. next_chunk' \in [Workers -> Nat]
    BY <1>1, Sizes DEF Start
  <2> QED BY <1>1, <2>2, <2>3, <2>4 DEF Start, Places, TypeInv
<1>2. CASE CallReset \/ CallDestroy \/ Destroyed
  BY <1>2 DEF CallReset, CallDestroy, Destroyed, Counted, ring, TypeInv
<1>3. CASE Reset
  <2>1. Counted' = {}
    BY <1>3 DEF Reset, Counted
  <2>2. active_threads' = Cardinality(Counted')
    BY <1>3, <2>1, FS_EmptySet DEF Reset
  <2> QED BY <1>3, <2>2 DEF Reset, Places, ring, TypeInv
<1>4. ASSUME NEW w \in Workers, TestLoop(w) \/ NothingToReap(w) \/ NothingToIssue(w)
      PROVE  TypeInv'
  <2>1. \E place \in {"test", "reap", "issue", "cleanup"} :
          /\ Goto(w, place) /\ pc[w] \in {"test", "reap", "issue"}
          /\ UNCHANGED <<shell, ring, queue, got, next_chunk, completed>>
    BY <1>4 DEF TestLoop, NothingToReap, NothingToIssue
  <2> QED BY <2>1, GotoType DEF Places, shell, ring, TypeInv
<1>5. ASSUME NEW w \in Workers, CloseIfLast(w) PROVE TypeInv'
  BY <1>5, GotoType DEF CloseIfLast, Places, ring, TypeInv
<1>6. ASSUME NEW w \in Workers, Reap(w) PROVE TypeInv'
  <2>1. PICK d \in reapable[w] :
          /\ queue' = queue \cup {Buffer(d[2], chunk_idx[w][d[1]])}
          /\ reapable' = [reapable EXCEPT ![w] = @ \ {d}]
          /\ available' = [available EXCEPT ![w] = @ \cup {d[1]}]
    BY <1>6 DEF Reap, PushBuffer
  <2>2. d \in Reads(w) /\ d[1] \in Requests /\ d[2] \in Chunks /\ chunk_idx[w][d[1]] = d[2]
    BY ReadShape DEF Reads, LabelInv
  <2>3. Buffer(d[2], chunk_idx[w][d[1]]) \in [bytes : Chunks, header : Chunks]
    BY <2>2 DEF Buffer
  <2>4. /\ reapable' \in [Workers -> SUBSET (Requests \X Chunks)]
        /\ available' \in [Workers -> SUBSET Requests]
        /\ completed' \in [Workers -> Nat]
    BY <1>6, <2>1, <2>2 DEF Reap, TypeInv
  <2>5. queue' \subseteq [bytes : Chunks, header : Chunks]
    BY <2>1, <2>3 DEF TypeInv
  <2> QED BY <1>6, <2>4, <2>5 DEF Reap, shell, Counted, TypeInv
<1>7. ASSUME NEW w \in Workers, Issue(w) PROVE TypeInv'
  <2> DEFINE ch == next_chunk[w]
  <2>1. ch \in headers /\ ch \in Chunks
    BY <1>7 DEF Issue, HasNext, TypeInv
  <2>2. next_chunk' \in [Workers -> Nat] /\ UNCHANGED <<shell, pc, got, Counted>>
    BY <1>7, Sizes DEF Issue, Counted, TypeInv
  <2>3. CASE IssueEmpty(w)
    <3>1. Buffer(ch, ch) \in [bytes : Chunks, header : Chunks]
      BY <2>1 DEF Buffer
    <3>2. queue' \subseteq [bytes : Chunks, header : Chunks]
      BY <2>3, <3>1 DEF IssueEmpty, PushBuffer, TypeInv
    <3>3. completed' \in [Workers -> Nat]
      BY <2>3 DEF IssueEmpty, TypeInv
    <3> QED BY <2>2, <2>3, <3>2, <3>3 DEF IssueEmpty, shell, ring, TypeInv
  <2>4. CASE IssueRead(w)
    <3>1. PICK r \in available[w] :
            /\ available' = [available EXCEPT ![w] = @ \ {r}]
            /\ chunk_idx' = [chunk_idx EXCEPT ![w][r] = ch]
            /\ in_flight' = [in_flight EXCEPT ![w] = @ \cup {<<r, ch>>}]
      BY <2>4 DEF IssueRead
    <3>2. r \in Requests /\ <<r, ch>> \in Requests \X Chunks /\ ch \in Nat
      BY <2>1, Sizes DEF TypeInv
    <3> HIDE DEF ch
    <3>3. [chunk_idx[w] EXCEPT ![r] = ch] \in [Requests -> Nat]
      BY <3>2 DEF TypeInv
    <3>4. chunk_idx' = [chunk_idx EXCEPT ![w] = [chunk_idx[w] EXCEPT ![r] = ch]]
      BY <3>1 DEF TypeInv
    <3>5. chunk_idx' \in [Workers -> [Requests -> Nat]]
      BY <3>3, <3>4 DEF TypeInv
    <3>6. /\ available' \in [Workers -> SUBSET Requests]
          /\ in_flight' \in [Workers -> SUBSET (Requests \X Chunks)]
      BY <3>1, <3>2 DEF TypeInv
    <3> QED BY <2>2, <2>4, <3>5, <3>6 DEF IssueRead, shell, TypeInv
  <2> QED BY <1>7, <2>3, <2>4 DEF Issue
<1>8. ASSUME NEW w \in Workers, Cleanup(w) PROVE TypeInv'
  <2>1. /\ in_flight' \in [Workers -> SUBSET (Requests \X Chunks)]
        /\ reapable' \in [Workers -> SUBSET (Requests \X Chunks)]
    BY <1>8 DEF Cleanup, TypeInv
  <2>2. w \in Counted
    BY <1>8 DEF Cleanup, Counted
  <2>3. CASE active_threads' = active_threads - 1 /\ Goto(w, "last")
    <3>1. Counted' = Counted \ {w} /\ pc' \in [Workers -> Places]
      BY <2>3 DEF Goto, Counted, Places, TypeInv
    <3>2. Cardinality(Counted') = Cardinality(Counted) - 1
      BY <2>2, <3>1, CountedFinite, FS_RemoveElement
    <3> QED BY <1>8, <2>1, <2>3, <3>1, <3>2 DEF Cleanup, TypeInv
  <2>4. CASE UNCHANGED active_threads /\ Goto(w, "aborted")
    <3>1. Counted' = Counted /\ pc' \in [Workers -> Places]
      BY <2>2, <2>4 DEF Goto, Counted, Places, TypeInv
    <3> QED BY <1>8, <2>1, <2>4, <3>1 DEF Cleanup, TypeInv
  <2> QED BY <1>8, <2>3, <2>4 DEF Cleanup
<1>9. ASSUME NEW w \in Workers, Complete(w) PROVE TypeInv'
  <2>1. /\ in_flight' \in [Workers -> SUBSET (Requests \X Chunks)]
        /\ reapable' \in [Workers -> SUBSET (Requests \X Chunks)]
    BY <1>9 DEF Complete, TypeInv
  <2> QED BY <1>9, <2>1 DEF Complete, Counted, shell, TypeInv
<1>10. ASSUME NEW c \in Consumers, PollData(c) \/ PollEnd(c) \/ StopPolling(c)
       PROVE  TypeInv'
  <2>1. CASE PollData(c)
    BY <2>1 DEF PollData, Counted, shell, ring, TypeInv
  <2>2. CASE PollEnd(c) \/ StopPolling(c)
    BY <2>2 DEF PollEnd, StopPolling, Counted, ring, TypeInv
  <2> QED BY <1>10, <2>1, <2>2
<1>11. CASE UNCHANGED vars
  BY <1>11 DEF vars, shell, ring, Counted, TypeInv
<1> QED
  BY <1>1, <1>2, <1>3, <1>4, <1>5, <1>6, <1>7, <1>8, <1>9, <1>10, <1>11
     DEF Next, Owner, Worker

-----------------------------------------------------------------------------
(* Steps of the workers                                                    *)

\* A buffer that is pushed under the header of its chunk.
LEMMA PushedBuffer ==
    ASSUME NEW ch, queue' = queue \cup {Buffer(ch, ch)}, got' = got
    PROVE  Pushed' = Pushed \cup {ch}
<1> DEFINE b == Buffer(ch, ch)
<1>1. b.header = ch
  BY DEF Buffer
<1>2. queue' = queue \cup {b}
  OBVIOUS
<1> HIDE DEF b
<1> QED BY <1>1, <1>2 DEF Pushed

\* A read that is reaped becomes a buffer.
LEMMA ReapStep ==
    ASSUME TypeInv, LabelInv, PlaceInv, NEW w \in Workers, Reap(w)
    PROVE  \E d \in Reads(w) :
             /\ d[1] \in Requests /\ d[2] \in Chunks /\ d[2] \in ListOf(w) /\ d[2] \notin Pushed
             /\ queue' = queue \cup {Buffer(d[2], d[2])} /\ got' = got
             /\ Pushed' = Pushed \cup {d[2]}
             /\ \A v \in Workers : Reads(v)' = IF v = w THEN Reads(w) \ {d} ELSE Reads(v)
             /\ in_flight' = in_flight /\ reapable'[w] = reapable[w] \ {d} /\ d \in reapable[w]
             /\ \A v \in Workers : v # w => reapable'[v] = reapable[v]
             /\ available' = [available EXCEPT ![w] = @ \cup {d[1]}]
             /\ completed' = [completed EXCEPT ![w] = @ + 1]
             /\ UNCHANGED <<chunk_idx, next_chunk, headers, owner, pc>>
<1>1. PICK d \in reapable[w] :
        /\ queue' = queue \cup {Buffer(d[2], chunk_idx[w][d[1]])}
        /\ reapable' = [reapable EXCEPT ![w] = @ \ {d}]
        /\ available' = [available EXCEPT ![w] = @ \cup {d[1]}]
  BY DEF Reap, PushBuffer
<1>2. /\ completed' = [completed EXCEPT ![w] = @ + 1] /\ got' = got
      /\ UNCHANGED <<chunk_idx, next_chunk, headers, owner, pc, in_flight>>
  BY DEF Reap, shell
<1>3. d \in Reads(w) /\ d[1] \in Requests /\ d[2] \in Chunks /\ chunk_idx[w][d[1]] = d[2]
  BY ReadShape DEF Reads, LabelInv
<1>4. d[2] \in ListOf(w) /\ d[2] \notin Pushed
  BY <1>3 DEF PlaceInv, Reading
<1>5. Pushed' = Pushed \cup {d[2]}
  BY <1>1, <1>2, <1>3, PushedBuffer
<1>6. /\ reapable'[w] = reapable[w] \ {d}
      /\ \A v \in Workers : v # w => reapable'[v] = reapable[v]
  BY <1>1 DEF TypeInv
<1>7. \A v \in Workers : Reads(v)' = IF v = w THEN Reads(w) \ {d} ELSE Reads(v)
  BY <1>2, <1>3, <1>6 DEF Reads, PlaceInv
<1> QED BY <1>1, <1>2, <1>3, <1>4, <1>5, <1>6, <1>7

\* The next chunk of a worker is on its list, and nobody has seen it yet.
LEMMA NextChunk ==
    ASSUME TypeInv, OwnerInv, PlaceInv, NEW w \in Workers, Issue(w)
    PROVE  LET ch == next_chunk[w]
           IN  /\ ch \in ListOf(w) /\ ch \in Chunks /\ ch \in Nat /\ ch > 0
               /\ ch \notin Pushed /\ ch \notin Reading(w)
               /\ \A x \in ListOf(w) : x < ch + NumThreads => x < ch \/ x = ch
               /\ next_chunk' = [next_chunk EXCEPT ![w] = ch + NumThreads]
               /\ ch + NumThreads > 0 /\ (ch + NumThreads - 1) % NumThreads = w
               /\ pc[w] = "issue" /\ owner # "idle"
<1> DEFINE ch == next_chunk[w]
<1>1. ch \in headers /\ ch \in Chunks /\ ch \in Nat /\ ch > 0
  BY Sizes DEF Issue, HasNext, TypeInv
<1>2. pc[w] = "issue" /\ owner # "idle"
  BY DEF Issue, OwnerInv
<1>3. (ch - 1) % NumThreads = w
  BY <1>2 DEF PlaceInv
<1>4. ch \in ListOf(w)
  BY <1>1, <1>3 DEF ListOf
<1>5. ch \notin Pushed /\ ch \notin Reading(w)
  BY <1>1, <1>4 DEF PlaceInv
<1>6. next_chunk' = [next_chunk EXCEPT ![w] = ch + NumThreads]
  BY DEF Issue
<1> HIDE DEF ch
<1>7. ASSUME NEW x \in ListOf(w), x < ch + NumThreads PROVE x < ch \/ x = ch
  <2>1. x \in Nat /\ x > 0 /\ (x - 1) % NumThreads = w
    BY Sizes DEF ListOf, TypeInv
  <2>2. ch - 1 \in Nat /\ x - 1 \in Nat /\ NumThreads \in Nat \ {0}
    BY <1>1, <2>1, Sizes
  <2>3. ch - 1 < x - 1 => (ch - 1) + NumThreads <= x - 1
    BY <1>3, <2>1, <2>2, Remainders
  <2> QED BY <1>1, <1>7, <2>1, <2>2, <2>3
<1>8. ch + NumThreads > 0 /\ (ch + NumThreads - 1) % NumThreads = w
  <2>1. /\ ch - 1 \in Nat /\ NumThreads \in Nat \ {0}
        /\ ch + NumThreads - 1 = (ch - 1) + NumThreads
    BY <1>1, Sizes
  <2>2. ((ch - 1) + NumThreads) % NumThreads = w
    BY <1>3, <2>1, Remainders
  <2> QED BY <1>1, <2>1, <2>2
<1> QED BY <1>1, <1>2, <1>4, <1>5, <1>6, <1>7, <1>8 DEF ch

\* A chunk that is read, or pushed at once because nothing of it is valid.
LEMMA IssueStep ==
    ASSUME TypeInv, LabelInv, OwnerInv, PlaceInv, NEW w \in Workers, Issue(w)
    PROVE  LET ch == next_chunk[w]
           IN  /\ UNCHANGED <<headers, owner, pc, got, reapable>>
               /\ \/ /\ queue' = queue \cup {Buffer(ch, ch)} /\ Pushed' = Pushed \cup {ch}
                     /\ completed' = [completed EXCEPT ![w] = @ + 1]
                     /\ UNCHANGED <<chunk_idx, available, in_flight>>
                     /\ \A v \in Workers : Reads(v)' = Reads(v)
                  \/ \E r \in available[w] :
                       /\ r \in Requests
                       /\ available' = [available EXCEPT ![w] = @ \ {r}]
                       /\ chunk_idx'[w] = [chunk_idx[w] EXCEPT ![r] = ch]
                       /\ \A v \in Workers : v # w => chunk_idx'[v] = chunk_idx[v]
                       /\ in_flight' = [in_flight EXCEPT ![w] = @ \cup {<<r, ch>>}]
                       /\ UNCHANGED <<queue, completed>> /\ Pushed' = Pushed
                       /\ \A v \in Workers :
                            Reads(v)' = IF v = w THEN Reads(w) \cup {<<r, ch>>} ELSE Reads(v)
<1> DEFINE ch == next_chunk[w]
<1>1. UNCHANGED <<headers, owner, pc, got>>
  BY DEF Issue, shell
<1>2. CASE IssueEmpty(w)
  <2>1. queue' = queue \cup {Buffer(ch, ch)} /\ UNCHANGED ring
        /\ completed' = [completed EXCEPT ![w] = @ + 1]
    BY <1>2 DEF IssueEmpty, PushBuffer
  <2>2. Pushed' = Pushed \cup {ch}
    BY <1>1, <2>1, PushedBuffer
  <2> QED BY <1>1, <2>1, <2>2 DEF ring, Reads
<1>3. CASE IssueRead(w)
  <2>1. PICK r \in available[w] :
          /\ available' = [available EXCEPT ![w] = @ \ {r}]
          /\ chunk_idx' = [chunk_idx EXCEPT ![w][r] = ch]
          /\ in_flight' = [in_flight EXCEPT ![w] = @ \cup {<<r, ch>>}]
    BY <1>3 DEF IssueRead
  <2>2. UNCHANGED <<queue, completed, reapable>> /\ Pushed' = Pushed
    BY <1>1, <1>3 DEF IssueRead, Pushed
  <2> HIDE DEF ch
  <2>3. /\ r \in Requests /\ chunk_idx'[w] = [chunk_idx[w] EXCEPT ![r] = ch]
        /\ \A v \in Workers : v # w => chunk_idx'[v] = chunk_idx[v]
    BY <2>1 DEF TypeInv
  <2>4. \A v \in Workers : Reads(v)' = IF v = w THEN Reads(w) \cup {<<r, ch>>} ELSE Reads(v)
    BY <2>1, <2>2 DEF Reads, TypeInv
  <2> QED BY <1>1, <2>1, <2>2, <2>3, <2>4 DEF ch
<1> QED BY <1>2, <1>3 DEF Issue

\* The kernel moves a read, and Cleanup forgets them.
LEMMA KernelStep ==
    ASSUME TypeInv, PlaceInv, NEW w \in Workers, Complete(w)
    PROVE  /\ UNCHANGED <<shell, pc, queue, got, next_chunk, completed, chunk_idx, available>>
           /\ Pushed' = Pushed
           /\ \A v \in Workers : Reads(v)' = Reads(v) /\ in_flight'[v] \cap reapable'[v] = {}
<1>1. PICK d \in in_flight[w] :
        /\ in_flight' = [in_flight EXCEPT ![w] = @ \ {d}]
        /\ reapable' = [reapable EXCEPT ![w] = @ \cup {d}]
  BY DEF Complete
<1>2. \A v \in Workers : Reads(v)' = Reads(v) /\ in_flight'[v] \cap reapable'[v] = {}
  BY <1>1 DEF Reads, PlaceInv, TypeInv
<1> QED BY <1>2 DEF Complete, Pushed

\* Everything else leaves the reads and the counts alone.
LEMMA OtherSteps ==
    ASSUME TypeInv,
           \/ CallReset \/ Reset \/ CallDestroy \/ Destroyed
           \/ \E w \in Workers : TestLoop(w) \/ NothingToReap(w) \/ NothingToIssue(w)
                                   \/ CloseIfLast(w)
           \/ \E c \in Consumers : PollData(c) \/ PollEnd(c) \/ StopPolling(c)
           \/ UNCHANGED vars
    PROVE  /\ UNCHANGED <<headers, next_chunk, completed, chunk_idx, available>>
           /\ UNCHANGED <<in_flight, reapable>>
           /\ Pushed' = Pushed /\ queue' \cup got' = queue \cup got
           /\ queue \cap got = {} => queue' \cap got' = {}
           /\ \A w : Reads(w)' = Reads(w)
<1>1. /\ UNCHANGED <<headers, next_chunk, completed, chunk_idx, available>>
      /\ UNCHANGED <<in_flight, reapable>>
      /\ queue' \cup got' = queue \cup got
      /\ queue \cap got = {} => queue' \cap got' = {}
  <2>1. CASE CallReset \/ Reset \/ CallDestroy \/ Destroyed \/ UNCHANGED vars
    BY <2>1 DEF CallReset, Reset, CallDestroy, Destroyed, vars, shell, ring
  <2>2. ASSUME NEW w \in Workers,
               TestLoop(w) \/ NothingToReap(w) \/ NothingToIssue(w) \/ CloseIfLast(w)
        PROVE  UNCHANGED <<headers, next_chunk, completed, ring, queue, got>>
    BY <2>2 DEF TestLoop, NothingToReap, NothingToIssue, CloseIfLast, shell
  <2>3. ASSUME NEW c \in Consumers, PollData(c)
        PROVE  /\ UNCHANGED <<headers, next_chunk, completed, ring>>
               /\ queue' \cup got' = queue \cup got
               /\ queue \cap got = {} => queue' \cap got' = {}
    BY <2>3 DEF PollData, shell
  <2>4. ASSUME NEW c \in Consumers, PollEnd(c) \/ StopPolling(c)
        PROVE  UNCHANGED <<headers, next_chunk, completed, ring, queue, got>>
    BY <2>4 DEF PollEnd, StopPolling
  <2> QED BY <2>1, <2>2, <2>3, <2>4 DEF ring
<1> QED BY <1>1 DEF Reads, Pushed

-----------------------------------------------------------------------------
(* Where the chunks are                                                    *)

\* The initial state.
LEMMA InvariantsInit ==
    Init => OwnerInv /\ LabelInv /\ PlaceInv /\ CountInv /\ EndInv
<1> SUFFICES ASSUME Init PROVE OwnerInv /\ LabelInv /\ PlaceInv /\ CountInv /\ EndInv
  OBVIOUS
<1>1. /\ Pushed = {} /\ headers = {}
      /\ \A w \in Workers : Reads(w) = {} /\ Reading(w) = {} /\ ListOf(w) = {}
  BY DEF Init, Pushed, Reads, Reading, ListOf
<1>2. \A w \in Workers : ListOf(w) \cap Pushed = {}
  BY <1>1
<1> QED
  BY <1>1, <1>2, FS_EmptySet
     DEF Init, OwnerInv, LabelInv, LabelsMatch, PlaceInv, CountInv, EndInv

\* A new use of the reader starts afresh.
LEMMA StartStep ==
    ASSUME TypeInv, OwnerInv, PlaceInv, NEW n \in 0..MaxChunks, NEW none, Start(n, none)
    PROVE  OwnerInv' /\ LabelInv' /\ PlaceInv' /\ CountInv' /\ EndInv'
<1>1. /\ owner = "idle" /\ owner' = "running" /\ queue' = {} /\ got' = {}
      /\ queue_open' = TRUE
      /\ \A w \in Workers : /\ pc'[w] = "test" /\ next_chunk'[w] = w + 1
                            /\ completed'[w] = 0
  BY DEF Start, OwnerInv
<1>2. Pushed' = {}
  BY <1>1 DEF Pushed
<1>3. \A w \in Workers : Reads(w)' = {}
  <2>1. \A w \in Workers : Reads(w) = {}
    BY <1>1 DEF OwnerInv, PlaceInv
  <2> QED BY <2>1 DEF Start, Reads
<1>4. \A w \in Workers : Reading(w)' = {} /\ in_flight'[w] \cap reapable'[w] = {}
  BY <1>3 DEF Reading, Reads
<1>5. \A w \in Workers : \A ch \in ListOf(w)' : ~(ch < next_chunk'[w])
  <2> SUFFICES ASSUME NEW w \in Workers, NEW ch \in ListOf(w)' PROVE ~(ch < next_chunk'[w])
    OBVIOUS
  <2>1. headers' = 1..n /\ n \in Nat
    BY Sizes DEF Start
  <2>2. ch \in Nat /\ ch > 0 /\ (ch - 1) % NumThreads = w
    BY <2>1 DEF ListOf
  <2>3. w \in Nat /\ w < NumThreads /\ NumThreads \in Nat \ {0} /\ ch - 1 \in Nat
    BY <2>2, Sizes
  <2>4. ~(ch - 1 < w)
    <3> DEFINE m == ch - 1
    <3>1. m \in Nat /\ m % NumThreads = w
      BY <2>2, <2>3
    <3> HIDE DEF m
    <3>2. m < NumThreads => m % NumThreads = m
      BY <2>3, <3>1
    <3>3. m < w => m < NumThreads
      BY <2>3, <3>1
    <3>4. ~(m < w)
      BY <2>3, <3>1, <3>2, <3>3
    <3> QED BY <3>4 DEF m
  <2> QED BY <1>1, <2>2, <2>3, <2>4
<1>6. \A w \in Workers : next_chunk'[w] > 0 /\ (next_chunk'[w] - 1) % NumThreads = w
  <2> SUFFICES ASSUME NEW w \in Workers
               PROVE  next_chunk'[w] > 0 /\ (next_chunk'[w] - 1) % NumThreads = w
    OBVIOUS
  <2>1. w \in 0..(NumThreads - 1) /\ NumThreads \in Int /\ NumThreads > 0
    BY Sizes
  <2>2. w % NumThreads = w
    BY <2>1
  <2>3. next_chunk'[w] - 1 = w /\ next_chunk'[w] > 0
    BY <1>1, <2>1
  <2> QED BY <2>2, <2>3
<1>7. OwnerInv' /\ LabelInv' /\ EndInv'
  BY <1>1, <1>2, <1>3 DEF OwnerInv, LabelInv, LabelsMatch, EndInv
<1>8. PlaceInv'
  BY <1>1, <1>2, <1>3, <1>4, <1>5, <1>6 DEF PlaceInv
<1>9. CountInv'
  <2>1. \A w \in Workers : (ListOf(w) \cap Pushed)' = {}
    BY <1>2
  <2> QED BY <1>1, <2>1, FS_EmptySet DEF CountInv
<1> QED BY <1>7, <1>8, <1>9

\* Every step keeps the requests apart and their labels true.
LEMMA LabelInvNext ==
    TypeInv /\ OwnerInv /\ LabelInv /\ PlaceInv /\ [Next]_vars => LabelInv'
<1> SUFFICES ASSUME TypeInv, OwnerInv, LabelInv, PlaceInv, [Next]_vars PROVE LabelInv'
  OBVIOUS
<1> DEFINE Labelled(v) ==
      \A d \in Reads(v) : d[1] \notin available[v] /\ chunk_idx[v][d[1]] = d[2]
<1>1. \A v \in Workers : Labelled(v)
  BY DEF LabelInv
<1>2. ASSUME NEW w \in Workers, Reap(w) PROVE LabelInv'
  <2>1. PICK d \in Reads(w) :
          /\ d[1] \in Requests /\ d[2] \in Chunks
          /\ queue' = queue \cup {Buffer(d[2], d[2])} /\ got' = got
          /\ \A v \in Workers : Reads(v)' = IF v = w THEN Reads(w) \ {d} ELSE Reads(v)
          /\ available' = [available EXCEPT ![w] = @ \cup {d[1]}]
          /\ UNCHANGED chunk_idx
    BY <1>2, ReapStep
  <2>2. LabelsMatch'
    <3>1. Buffer(d[2], d[2]).bytes = Buffer(d[2], d[2]).header
      BY DEF Buffer
    <3> QED BY <2>1, <3>1 DEF LabelInv, LabelsMatch
  <2>3. \A v \in Workers :
          available'[v] = IF v = w THEN available[w] \cup {d[1]} ELSE available[v]
    BY <2>1 DEF TypeInv
  <2>4. \A e \in Reads(w) \ {d} : e[1] # d[1]
    BY <1>1, ReadShape
  <2>5. \A v \in Workers : Labelled(v)'
    BY <1>1, <2>1, <2>3, <2>4
  <2> QED BY <2>2, <2>5 DEF LabelInv
<1>3. ASSUME NEW w \in Workers, Issue(w) PROVE LabelInv'
  <2> DEFINE ch == next_chunk[w]
  <2>1. got' = got
    BY <1>3, IssueStep
  <2>2. CASE /\ queue' = queue \cup {Buffer(ch, ch)}
             /\ UNCHANGED <<chunk_idx, available>>
             /\ \A v \in Workers : Reads(v)' = Reads(v)
    <3>1. Buffer(ch, ch).bytes = Buffer(ch, ch).header
      BY DEF Buffer
    <3>2. LabelsMatch'
      BY <2>1, <2>2, <3>1 DEF LabelInv, LabelsMatch
    <3>3. \A v \in Workers : Labelled(v)'
      BY <1>1, <2>2
    <3> QED BY <3>2, <3>3 DEF LabelInv
  <2>3. ASSUME NEW r \in available[w], r \in Requests,
               available' = [available EXCEPT ![w] = @ \ {r}],
               chunk_idx'[w] = [chunk_idx[w] EXCEPT ![r] = ch],
               \A v \in Workers : v # w => chunk_idx'[v] = chunk_idx[v],
               UNCHANGED queue,
               \A v \in Workers :
                 Reads(v)' = IF v = w THEN Reads(w) \cup {<<r, ch>>} ELSE Reads(v)
        PROVE  LabelInv'
    <3> HIDE DEF ch
    <3>1. LabelsMatch'
      BY <2>1, <2>3 DEF LabelInv, LabelsMatch
    <3>2. \A v \in Workers :
            available'[v] = IF v = w THEN available[w] \ {r} ELSE available[v]
      BY <2>3 DEF TypeInv
    <3>3. \A d \in Reads(w) : d[1] \in Requests /\ d[1] # r
      BY <1>1, ReadShape
    <3>4. \A x \in Requests : chunk_idx'[w][x] = IF x = r THEN ch ELSE chunk_idx[w][x]
      BY <2>3 DEF TypeInv
    <3>5. Labelled(w)'
      <4>1. \A d \in Reads(w)' : d \in Reads(w) \/ d = <<r, ch>>
        BY <2>3
      <4> QED BY <1>1, <2>3, <3>2, <3>3, <3>4, <4>1
    <3>6. \A v \in Workers : v # w => Labelled(v)'
      BY <1>1, <2>3, <3>2
    <3> QED BY <3>1, <3>5, <3>6 DEF LabelInv
  <2> QED BY <1>3, <2>2, <2>3, IssueStep
<1>4. ASSUME NEW w \in Workers, Cleanup(w) PROVE LabelInv'
  <2>1. UNCHANGED <<chunk_idx, available, queue, got>>
        /\ \A v \in Workers : Reads(v)' \subseteq Reads(v)
    BY <1>4 DEF Cleanup, Reads, TypeInv
  <2>2. LabelsMatch' /\ \A v \in Workers : Labelled(v)'
    BY <1>1, <2>1 DEF LabelInv, LabelsMatch
  <2> QED BY <2>2 DEF LabelInv
<1>5. ASSUME UNCHANGED <<chunk_idx, available>>, queue' \cup got' = queue \cup got,
             \A v \in Workers : Reads(v)' = Reads(v)
      PROVE  LabelInv'
  BY <1>5 DEF LabelInv, LabelsMatch
<1>6. ASSUME NEW w \in Workers, Complete(w) PROVE LabelInv'
  BY <1>5, <1>6, KernelStep
<1> QED BY <1>2, <1>3, <1>4, <1>5, <1>6, StartStep, OtherSteps DEF Next, Owner, Worker

\* A worker that has counted all of its list has pushed all of it.
LEMMA CountedAll ==
    ASSUME TypeInv, PlaceInv, CountInv, NEW w \in Workers,
           completed[w] = Cardinality(ListOf(w))
    PROVE  ListOf(w) \subseteq Pushed /\ Reading(w) = {} /\ Reads(w) = {}
<1>1. ListOf(w) \cap Pushed = ListOf(w)
  BY Lists DEF CountInv
<1>2. Reading(w) = {}
  BY <1>1 DEF PlaceInv
<1> QED BY <1>1, <1>2 DEF Reading

\* Where a worker is, after a step that is none of the next lemma's.
LEMMA OtherPlaces ==
    ASSUME TypeInv, OwnerInv,
           \/ CallReset \/ Reset \/ CallDestroy \/ Destroyed
           \/ \E w \in Workers : TestLoop(w) \/ NothingToReap(w) \/ NothingToIssue(w)
                                   \/ CloseIfLast(w)
           \/ \E c \in Consumers : PollData(c) \/ PollEnd(c) \/ StopPolling(c)
           \/ UNCHANGED vars
    PROVE  /\ owner' # "idle" => owner # "idle"
           /\ \A v \in Workers :
                /\ pc'[v] # "aborted" => pc[v] # "aborted"
                /\ pc'[v] \in {"joined", "last", "exited", "aborted"}
                     => pc[v] \in {"joined", "last", "exited", "aborted"}
                /\ pc'[v] \in {"last", "exited"} => pc[v] \in {"last", "exited"}
                /\ pc[v] \in {"last", "exited"} /\ owner' # "idle" => pc'[v] \in {"last", "exited"}
<1>1. CASE CallReset \/ CallDestroy \/ Destroyed \/ UNCHANGED vars
  BY <1>1 DEF CallReset, CallDestroy, Destroyed, vars, shell
<1>2. CASE Reset
  BY <1>2 DEF Reset, WorkersGone
<1>3. ASSUME NEW w \in Workers,
             TestLoop(w) \/ NothingToReap(w) \/ NothingToIssue(w) \/ CloseIfLast(w)
      PROVE  /\ UNCHANGED owner
             /\ \/ /\ pc[w] \in {"test", "reap", "issue"}
                   /\ \E place \in {"test", "reap", "issue", "cleanup"} : Goto(w, place)
                \/ pc[w] = "last" /\ Goto(w, "exited")
  BY <1>3 DEF TestLoop, NothingToReap, NothingToIssue, CloseIfLast, shell
<1>4. ASSUME NEW c \in Consumers, PollData(c) \/ PollEnd(c) \/ StopPolling(c)
      PROVE  UNCHANGED <<owner, pc>>
  BY <1>4 DEF PollData, PollEnd, StopPolling, shell
<1> QED BY <1>1, <1>2, <1>3, <1>4 DEF Goto, TypeInv

\* Every step keeps a chunk in one place.
LEMMA PlaceInvNext ==
    TypeInv /\ OwnerInv /\ LabelInv /\ PlaceInv /\ CountInv /\ [Next]_vars => PlaceInv'
<1> SUFFICES ASSUME TypeInv, OwnerInv, LabelInv, PlaceInv, CountInv, [Next]_vars
             PROVE  PlaceInv'
  OBVIOUS
<1> DEFINE Right(v) ==
      /\ in_flight[v] \cap reapable[v] = {}
      /\ \A d, e \in Reads(v) : d[2] = e[2] => d = e
      /\ owner # "idle" => next_chunk[v] > 0 /\ (next_chunk[v] - 1) % NumThreads = v
      /\ \A ch \in Reading(v) :
           ch \in ListOf(v) /\ ch < next_chunk[v] /\ ch \notin Pushed
      /\ \A ch \in ListOf(v) : ch \in Pushed => ch < next_chunk[v]
      /\ pc[v] # "aborted" =>
           \A ch \in ListOf(v) : ch < next_chunk[v] => ch \in Reading(v) \cup Pushed
      /\ pc[v] \in {"joined", "last", "exited", "aborted"} => Reads(v) = {}
    Once ==
      /\ Pushed \subseteq headers
      /\ queue \cap got = {}
      /\ \A b, c \in queue \cup got : b.header = c.header => b = c
<1>1. \A v \in Workers : Right(v)
  BY DEF PlaceInv
<1>2. Once
  BY DEF PlaceInv
<1>3. headers' = headers => \A v : ListOf(v)' = ListOf(v)
  BY DEF ListOf
<1>4. ASSUME Once', \A v \in Workers : Right(v)' PROVE PlaceInv'
  BY <1>4 DEF PlaceInv
<1>5. ASSUME NEW ch, ch \notin Pushed, ch \in headers, headers' = headers,
             queue' = queue \cup {Buffer(ch, ch)}, got' = got, Pushed' = Pushed \cup {ch}
      PROVE  Once'
  <2> DEFINE b == Buffer(ch, ch)
  <2>1. b.header = ch /\ queue' = queue \cup {b}
    BY <1>5 DEF Buffer
  <2> HIDE DEF b
  <2>2. \A c \in queue \cup got : c.header # ch
    BY <1>5 DEF Pushed
  <2>3. b \notin got
    BY <2>1, <2>2
  <2> QED BY <1>2, <1>5, <2>1, <2>2, <2>3
<1>6. ASSUME NEW w \in Workers, Reap(w) PROVE PlaceInv'
  <2>1. PICK d \in Reads(w) :
          /\ d[1] \in Requests /\ d[2] \in Chunks /\ d[2] \in ListOf(w) /\ d[2] \notin Pushed
          /\ queue' = queue \cup {Buffer(d[2], d[2])} /\ got' = got
          /\ Pushed' = Pushed \cup {d[2]}
          /\ \A v \in Workers : Reads(v)' = IF v = w THEN Reads(w) \ {d} ELSE Reads(v)
          /\ in_flight' = in_flight /\ reapable'[w] = reapable[w] \ {d} /\ d \in reapable[w]
          /\ \A v \in Workers : v # w => reapable'[v] = reapable[v]
          /\ UNCHANGED <<next_chunk, headers, owner, pc>>
    BY <1>6, ReapStep
  <2>2. Once'
    BY <1>5, <2>1 DEF ListOf
  <2>3. d[2] \in Reading(w) /\ d[2] < next_chunk[w]
    BY <1>1 DEF Reading
  <2>4. Reading(w)' = Reading(w) \ {d[2]}
    BY <1>1, <2>1 DEF Reading
  <2> HIDE DEF Once
  <2>5. Right(w)'
    <3>1. in_flight'[w] \cap reapable'[w] = {} /\ Reads(w)' \subseteq Reads(w)
      BY <1>1, <2>1
    <3>2. ListOf(w)' = ListOf(w)
      BY <1>3, <2>1
    <3> QED BY <1>1, <2>1, <2>3, <2>4, <3>1, <3>2
  <2>6. ASSUME NEW v \in Workers, v # w PROVE Right(v)'
    <3>1. /\ Reads(v)' = Reads(v) /\ Reading(v)' = Reading(v) /\ ListOf(v)' = ListOf(v)
          /\ in_flight'[v] = in_flight[v] /\ reapable'[v] = reapable[v]
      BY <1>3, <2>1, <2>6 DEF Reading
    <3>2. d[2] \notin ListOf(v)
      BY <2>1, <2>6, Lists
    <3> QED BY <1>1, <2>1, <3>1, <3>2
  <2> QED BY <1>4, <2>2, <2>5, <2>6
<1>7. ASSUME NEW w \in Workers, Issue(w) PROVE PlaceInv'
  <2> DEFINE ch == next_chunk[w]
  <2>1. /\ ch \in ListOf(w) /\ ch \in Nat /\ ch > 0
        /\ ch \notin Pushed /\ ch \notin Reading(w)
        /\ \A x \in ListOf(w) : x < ch + NumThreads => x < ch \/ x = ch
        /\ next_chunk' = [next_chunk EXCEPT ![w] = ch + NumThreads]
        /\ ch + NumThreads > 0 /\ (ch + NumThreads - 1) % NumThreads = w
        /\ pc[w] = "issue" /\ owner # "idle"
    BY <1>7, NextChunk
  <2>2. UNCHANGED <<headers, owner, pc, got, reapable>>
    BY <1>7, IssueStep
  <2>3. \A v \in Workers : ListOf(v)' = ListOf(v)
    BY <1>3, <2>2
  <2>4. \A x \in ListOf(w) : x \in Nat
    BY Sizes DEF ListOf, TypeInv
  <2>5. \A v \in Workers : next_chunk'[v] = IF v = w THEN ch + NumThreads ELSE next_chunk[v]
    BY <2>1 DEF TypeInv
  <2>6. \A v \in Workers : v # w => ch \notin ListOf(v)
    BY <2>1, Lists
  <2>7. NumThreads \in Nat \ {0}
    BY Sizes
  <2>8. \A x \in ListOf(w) : x < ch + NumThreads <=> x < ch \/ x = ch
    BY <2>1, <2>4, <2>7
  <2>9. CASE /\ queue' = queue \cup {Buffer(ch, ch)} /\ Pushed' = Pushed \cup {ch}
             /\ UNCHANGED in_flight
             /\ \A v \in Workers : Reads(v)' = Reads(v)
    <3>1. Once'
      BY <1>5, <2>1, <2>2, <2>9 DEF ListOf
    <3>2. \A v \in Workers : Reading(v)' = Reading(v)
      BY <2>9 DEF Reading
    <3> HIDE DEF Once, ch
    <3>3. Right(w)'
      <4>1. \A x \in ListOf(w) : x \in Reading(w) \/ x \in Pushed => x < ch
        BY <1>1 DEF ch
      <4>2. \A x \in ListOf(w) : x < ch => x \in Reading(w) \cup Pushed
        BY <1>1, <2>1 DEF ch
      <4>3. next_chunk'[w] = ch + NumThreads
        BY <2>5
      <4>4. \A x \in Reading(w)' : x \in ListOf(w)' /\ x < next_chunk'[w] /\ x \notin Pushed'
        <5>1. \A x \in Reading(w) : x \in ListOf(w) /\ x \notin Pushed /\ x # ch
          BY <1>1, <2>1
        <5> QED BY <2>3, <2>8, <2>9, <3>2, <4>1, <4>3, <5>1
      <4>5. \A x \in ListOf(w)' : x \in Pushed' => x < next_chunk'[w]
        BY <2>1, <2>3, <2>8, <2>9, <4>1, <4>3
      <4>6. \A x \in ListOf(w)' : x < next_chunk'[w] => x \in Reading(w)' \cup Pushed'
        BY <2>1, <2>3, <2>8, <2>9, <3>2, <4>2, <4>3
      <4>7. next_chunk'[w] > 0 /\ (next_chunk'[w] - 1) % NumThreads = w
        BY <2>1, <2>7, <4>3
      <4> QED BY <1>1, <2>1, <2>2, <2>9, <4>4, <4>5, <4>6, <4>7
    <3>4. ASSUME NEW v \in Workers, v # w PROVE Right(v)'
      BY <1>1, <2>2, <2>3, <2>5, <2>6, <2>9, <3>2, <3>4
    <3> QED BY <1>4, <3>1, <3>3, <3>4
  <2>10. ASSUME NEW r \in available[w],
                in_flight' = [in_flight EXCEPT ![w] = @ \cup {<<r, ch>>}],
                UNCHANGED queue, Pushed' = Pushed,
                \A v \in Workers :
                  Reads(v)' = IF v = w THEN Reads(w) \cup {<<r, ch>>} ELSE Reads(v)
         PROVE  PlaceInv'
    <3>1. Once'
      BY <1>2, <2>2, <2>10
    <3> DEFINE d == <<r, ch>>
    <3>2. d[2] = ch /\ Reads(w)' = Reads(w) \cup {d} /\ in_flight'[w] = in_flight[w] \cup {d}
          /\ \A v \in Workers : v # w => in_flight'[v] = in_flight[v]
      BY <2>10 DEF TypeInv
    <3> HIDE DEF Once, ch, d
    <3>3. Reading(w)' = Reading(w) \cup {ch} /\ \A v \in Workers : v # w => Reading(v)' = Reading(v)
      BY <2>10, <3>2 DEF Reading
    <3>4. \A e \in Reads(w) : e[2] # ch
      BY <2>1 DEF Reading
    <3>5. Right(w)'
      <4>1. \A x \in ListOf(w) : x \in Reading(w) \/ x \in Pushed => x < ch
        BY <1>1 DEF ch
      <4>2. \A x \in ListOf(w) : x < ch => x \in Reading(w) \cup Pushed
        BY <1>1, <2>1 DEF ch
      <4>3. in_flight'[w] \cap reapable'[w] = {}
        BY <1>1, <2>2, <3>2, <3>4 DEF Reads
      <4>4. \A e, g \in Reads(w)' : e[2] = g[2] => e = g
        BY <1>1, <3>2, <3>4
      <4>5. next_chunk'[w] = ch + NumThreads
        BY <2>5
      <4>6. \A x \in Reading(w)' : x \in ListOf(w)' /\ x < next_chunk'[w] /\ x \notin Pushed'
        <5>1. \A x \in Reading(w) : x \in ListOf(w) /\ x \notin Pushed
          BY <1>1
        <5> QED BY <2>1, <2>3, <2>8, <2>10, <3>3, <4>1, <4>5, <5>1
      <4>7. \A x \in ListOf(w)' : x \in Pushed' => x < next_chunk'[w]
        BY <2>3, <2>8, <2>10, <4>1, <4>5
      <4>8. \A x \in ListOf(w)' : x < next_chunk'[w] => x \in Reading(w)' \cup Pushed'
        BY <2>1, <2>3, <2>8, <2>10, <3>3, <4>2, <4>5
      <4>9. next_chunk'[w] > 0 /\ (next_chunk'[w] - 1) % NumThreads = w
        BY <2>1, <2>7, <4>5
      <4> QED BY <2>1, <2>2, <4>3, <4>4, <4>6, <4>7, <4>8, <4>9
    <3>6. ASSUME NEW v \in Workers, v # w PROVE Right(v)'
      BY <1>1, <2>2, <2>3, <2>5, <2>10, <3>2, <3>3, <3>6
    <3> QED BY <1>4, <3>1, <3>5, <3>6
  <2> QED BY <1>7, <2>9, <2>10, IssueStep
<1>8. ASSUME NEW w \in Workers, Cleanup(w) PROVE PlaceInv'
  <2>1. /\ UNCHANGED <<headers, owner, queue, got, next_chunk>> /\ Pushed' = Pushed
        /\ \A v \in Workers : /\ Reads(v)' = IF v = w THEN {} ELSE Reads(v)
                              /\ in_flight'[v] \cap reapable'[v] = {}
    BY <1>1, <1>8 DEF Cleanup, Pushed, Reads, TypeInv
  <2>2. \A v \in Workers : /\ Reading(v)' = IF v = w THEN {} ELSE Reading(v)
                           /\ ListOf(v)' = ListOf(v)
    BY <1>3, <2>1 DEF Reading
  <2>3. \A v \in Workers : v # w => pc'[v] = pc[v]
    BY <1>8 DEF Cleanup, Goto, TypeInv
  <2>4. pc'[w] # "aborted" => ListOf(w) \subseteq Pushed
    <3>1. pc'[w] # "aborted" => completed[w] = Cardinality(ListOf(w))
      BY <1>8 DEF Cleanup, Goto, TypeInv
    <3> QED BY <3>1, CountedAll
  <2>5. Once'
    BY <1>2, <2>1
  <2> HIDE DEF Once
  <2>6. ASSUME NEW v \in Workers PROVE Right(v)'
    <3>1. CASE v = w
      BY <1>1, <2>1, <2>2, <2>4, <3>1
    <3>2. CASE v # w
      BY <1>1, <2>1, <2>2, <2>3, <3>2
    <3> QED BY <3>1, <3>2
  <2> QED BY <1>4, <2>5, <2>6
<1>9. ASSUME NEW w \in Workers, Complete(w) PROVE PlaceInv'
  <2>1. /\ UNCHANGED <<owner, headers, pc, queue, got, next_chunk>> /\ Pushed' = Pushed
        /\ \A v \in Workers : Reads(v)' = Reads(v) /\ in_flight'[v] \cap reapable'[v] = {}
    BY <1>9, KernelStep DEF shell
  <2>2. \A v \in Workers : Reading(v)' = Reading(v) /\ ListOf(v)' = ListOf(v)
    BY <1>3, <2>1 DEF Reading
  <2>3. Once' /\ \A v \in Workers : Right(v)'
    BY <1>1, <1>2, <2>1, <2>2
  <2> QED BY <1>4, <2>3
<1>10. CASE \/ CallReset \/ Reset \/ CallDestroy \/ Destroyed
            \/ \E w \in Workers : TestLoop(w) \/ NothingToReap(w) \/ NothingToIssue(w)
                                    \/ CloseIfLast(w)
            \/ \E c \in Consumers : PollData(c) \/ PollEnd(c) \/ StopPolling(c)
            \/ UNCHANGED vars
  <2>1. /\ UNCHANGED <<headers, next_chunk, in_flight, reapable>>
        /\ Pushed' = Pushed /\ queue' \cup got' = queue \cup got
        /\ queue' \cap got' = {}
        /\ \A v : Reads(v)' = Reads(v)
    BY <1>2, <1>10, OtherSteps
  <2>2. \A v \in Workers : Reading(v)' = Reading(v) /\ ListOf(v)' = ListOf(v)
    BY <1>3, <2>1 DEF Reading
  <2>3. /\ owner' # "idle" => owner # "idle"
        /\ \A v \in Workers :
             /\ pc'[v] # "aborted" => pc[v] # "aborted"
             /\ pc'[v] \in {"joined", "last", "exited", "aborted"}
                  => pc[v] \in {"joined", "last", "exited", "aborted"}
    BY <1>10, OtherPlaces
  <2>4. Once'
    BY <1>2, <2>1
  <2> HIDE DEF Once
  <2>5. ASSUME NEW v \in Workers PROVE Right(v)'
    BY <1>1, <2>1, <2>2, <2>3
  <2> QED BY <1>4, <2>4, <2>5
<1> HIDE DEF Right, Once
<1> QED BY <1>6, <1>7, <1>8, <1>9, <1>10, StartStep DEF Next, Owner, Worker


-----------------------------------------------------------------------------
(* The owner, the counts and the end                                       *)

\* When the workers are gone, every chunk was pushed.
LEMMA AllPushed ==
    ASSUME TypeInv, PlaceInv, CountInv, \A w \in Workers : pc[w] \in {"last", "exited"}
    PROVE  Pushed = headers
BY Lists DEF PlaceInv, CountInv

\* Every step keeps what is true between two uses.
LEMMA OwnerInvNext ==
    TypeInv /\ OwnerInv /\ PlaceInv /\ CountInv /\ [Next]_vars => OwnerInv'
<1> SUFFICES ASSUME TypeInv, OwnerInv, PlaceInv, CountInv, [Next]_vars PROVE OwnerInv'
  OBVIOUS
<1>1. CASE CallReset \/ CallDestroy \/ Destroyed \/ UNCHANGED vars
  <2>1. UNCHANGED <<pc, queue, got, headers, queue_open>>
        /\ (owner' = "idle" <=> owner = "idle")
    BY <1>1 DEF CallReset, CallDestroy, Destroyed, vars, shell
  <2> QED BY <2>1 DEF OwnerInv, Pushed
<1>2. CASE Reset
  <2>1. /\ owner' = "idle" /\ queue' = {} /\ queue_open' = TRUE
        /\ \A w \in Workers : pc'[w] = "joined"
        /\ UNCHANGED <<headers, queue, got>>
    BY <1>2 DEF Reset
  <2>2. Pushed = headers
    BY <1>2, AllPushed DEF Reset, WorkersGone
  <2>3. Pushed' = headers'
    BY <2>1, <2>2 DEF Pushed
  <2> QED BY <2>1, <2>3 DEF OwnerInv
<1>3. ASSUME NEW w \in Workers, Worker(w) PROVE OwnerInv'
  <2>1. /\ pc[w] # "joined" /\ pc'[w] # "joined" /\ owner' = owner
        /\ \A v \in Workers : v # w => pc'[v] = pc[v]
    BY <1>3
       DEF Worker, TestLoop, Reap, NothingToReap, Issue, NothingToIssue, Cleanup,
           CloseIfLast, Goto, shell, TypeInv
  <2> QED BY <2>1 DEF OwnerInv
<1>4. ASSUME NEW w \in Workers, Complete(w) PROVE OwnerInv'
  BY <1>4 DEF Complete, shell, OwnerInv, Pushed
<1>5. ASSUME NEW c \in Consumers, PollData(c) \/ PollEnd(c) \/ StopPolling(c) PROVE OwnerInv'
  <2>1. UNCHANGED <<owner, pc, headers, queue_open>>
        /\ (queue = {} => queue' = queue /\ got' = got)
    BY <1>5 DEF PollData, PollEnd, StopPolling, shell
  <2> QED BY <2>1 DEF OwnerInv, Pushed
<1> QED BY <1>1, <1>2, <1>3, <1>4, <1>5, StartStep DEF Next, Owner

\* Every step keeps the counts.
LEMMA CountInvNext ==
    TypeInv /\ OwnerInv /\ LabelInv /\ PlaceInv /\ CountInv /\ [Next]_vars => CountInv'
<1> SUFFICES ASSUME TypeInv, OwnerInv, LabelInv, PlaceInv, CountInv, [Next]_vars
             PROVE  CountInv'
  OBVIOUS
<1>1. headers' = headers => \A v : ListOf(v)' = ListOf(v)
  BY DEF ListOf
<1>2. ASSUME NEW w \in Workers, NEW ch \in ListOf(w), ch \notin Pushed,
             Pushed' = Pushed \cup {ch}, headers' = headers, pc' = pc,
             completed' = [completed EXCEPT ![w] = @ + 1]
      PROVE  CountInv'
  <2>1. /\ (ListOf(w) \cap Pushed)' = (ListOf(w) \cap Pushed) \cup {ch}
        /\ ch \notin ListOf(w) \cap Pushed
    BY <1>1, <1>2
  <2>2. Cardinality((ListOf(w) \cap Pushed)') = Cardinality(ListOf(w) \cap Pushed) + 1
    BY <2>1, Lists, FS_AddElement
  <2>3. completed'[w] = completed[w] + 1
    BY <1>2 DEF TypeInv
  <2>4. \A v \in Workers : v # w => /\ (ListOf(v) \cap Pushed)' = ListOf(v) \cap Pushed
                                    /\ completed'[v] = completed[v]
    BY <1>1, <1>2, Lists DEF TypeInv
  <2>5. \A v \in Workers : completed'[v] = Cardinality((ListOf(v) \cap Pushed)')
    BY <2>2, <2>3, <2>4 DEF CountInv
  <2>6. \A v \in Workers : pc'[v] \in {"last", "exited"} => ListOf(v)' \subseteq Pushed'
    BY <1>1, <1>2 DEF CountInv
  <2> QED BY <2>5, <2>6 DEF CountInv
<1>3. ASSUME Pushed' = Pushed, UNCHANGED <<headers, completed>>,
             \A v \in Workers :
               pc'[v] \in {"last", "exited"} => ListOf(v) \subseteq Pushed
      PROVE  CountInv'
  BY <1>1, <1>3 DEF CountInv
<1>4. ASSUME NEW w \in Workers, Reap(w) PROVE CountInv'
  BY <1>2, <1>4, ReapStep
<1>5. ASSUME NEW w \in Workers, Issue(w) PROVE CountInv'
  <2> DEFINE ch == next_chunk[w]
  <2>1. ch \in ListOf(w) /\ ch \notin Pushed
    BY <1>5, NextChunk
  <2> HIDE DEF ch
  <2>2. UNCHANGED <<headers, pc>>
        /\ \/ Pushed' = Pushed \cup {ch} /\ completed' = [completed EXCEPT ![w] = @ + 1]
           \/ UNCHANGED completed /\ Pushed' = Pushed
    BY <1>5, IssueStep DEF ch
  <2> QED BY <1>2, <1>3, <2>1, <2>2 DEF CountInv
<1>6. ASSUME NEW w \in Workers, Cleanup(w) PROVE CountInv'
  <2>1. /\ UNCHANGED <<headers, completed>> /\ Pushed' = Pushed
        /\ \A v \in Workers : v # w => pc'[v] = pc[v]
        /\ pc'[w] # "aborted" => completed[w] = Cardinality(ListOf(w))
        /\ pc'[w] \in {"last", "aborted"}
    BY <1>6 DEF Cleanup, Goto, Pushed, TypeInv
  <2> QED BY <1>3, <2>1, CountedAll DEF CountInv
<1>7. ASSUME NEW w \in Workers, Complete(w) PROVE CountInv'
  BY <1>3, <1>7, KernelStep DEF CountInv, shell
<1>8. CASE \/ CallReset \/ Reset \/ CallDestroy \/ Destroyed
           \/ \E w \in Workers : TestLoop(w) \/ NothingToReap(w) \/ NothingToIssue(w)
                                   \/ CloseIfLast(w)
           \/ \E c \in Consumers : PollData(c) \/ PollEnd(c) \/ StopPolling(c)
           \/ UNCHANGED vars
  <2>1. Pushed' = Pushed /\ UNCHANGED <<headers, completed>>
    BY <1>8, OtherSteps
  <2>2. \A v \in Workers : pc'[v] \in {"last", "exited"} => pc[v] \in {"last", "exited"}
    BY <1>8, OtherPlaces
  <2> QED BY <1>3, <2>1, <2>2 DEF CountInv
<1> QED BY <1>4, <1>5, <1>6, <1>7, <1>8, StartStep DEF Next, Owner, Worker

\* Every step keeps the queue open until the last worker is done.
LEMMA EndInvNext ==
    TypeInv /\ OwnerInv /\ LabelInv /\ PlaceInv /\ CountInv /\ EndInv /\ [Next]_vars => EndInv'
<1> SUFFICES ASSUME TypeInv, OwnerInv, LabelInv, PlaceInv, CountInv, EndInv, [Next]_vars
             PROVE  EndInv'
  OBVIOUS
<1> DEFINE Gone(v) == pc[v] \in {"last", "exited"}
<1>1. ASSUME queue_open' = queue_open, \A v \in Workers : Gone(v) => Gone(v)' PROVE EndInv'
  BY <1>1 DEF EndInv
<1>2. CASE Reset
  BY <1>2 DEF Reset, EndInv
<1>3. CASE CallReset \/ CallDestroy \/ Destroyed \/ UNCHANGED vars
  BY <1>1, <1>3 DEF CallReset, CallDestroy, Destroyed, vars, shell
<1>4. ASSUME NEW w \in Workers, CloseIfLast(w) PROVE EndInv'
  <2>1. \A v \in Workers : Gone(v) => Gone(v)'
    BY <1>4 DEF CloseIfLast, Goto, TypeInv
  <2>2. CASE Last
    <3>1. Counted = {}
      BY <2>2, CountedFinite, FS_EmptySet DEF Last, TypeInv
    <3>2. \A v \in Workers : pc[v] # "joined"
      BY <1>4 DEF CloseIfLast, OwnerInv
    <3>3. \A v \in Workers : Gone(v)
      BY <3>1, <3>2 DEF Counted, TypeInv, Places
    <3> QED BY <2>1, <3>3 DEF EndInv
  <2>3. CASE ~Last
    <3>1. queue_open' = queue_open
      BY <1>4, <2>3 DEF CloseIfLast, TypeInv
    <3> QED BY <1>1, <2>1, <3>1
  <2> QED BY <2>2, <2>3
<1>5. ASSUME NEW w \in Workers, Worker(w), ~CloseIfLast(w) PROVE EndInv'
  <2>1. queue_open' = queue_open /\ \A v \in Workers : Gone(v) => Gone(v)'
    BY <1>5
       DEF Worker, TestLoop, Reap, NothingToReap, Issue, NothingToIssue, Cleanup,
           Goto, shell, TypeInv
  <2> QED BY <1>1, <2>1
<1>6. ASSUME NEW w \in Workers, Complete(w) PROVE EndInv'
  BY <1>1, <1>6 DEF Complete, shell
<1>7. ASSUME NEW c \in Consumers, PollData(c) \/ PollEnd(c) \/ StopPolling(c) PROVE EndInv'
  BY <1>1, <1>7 DEF PollData, PollEnd, StopPolling, shell
<1> QED BY <1>2, <1>3, <1>4, <1>5, <1>6, <1>7, StartStep DEF Next, Owner


-----------------------------------------------------------------------------
(* Theorems                                                                *)

\* The invariant holds in every reachable state.
LEMMA ReaderInvariant == Spec => []ReaderInv
<1>1. Init => ReaderInv
  BY TypeInvInit, InvariantsInit DEF ReaderInv
<1>2. ReaderInv /\ [Next]_vars => ReaderInv'
  BY TypeInvNext, OwnerInvNext, LabelInvNext, PlaceInvNext, CountInvNext, EndInvNext
     DEF ReaderInv
<1> QED BY <1>1, <1>2, PTL DEF Spec

\* However the requests are recycled and the reads completed, a buffer is handed
\* out under the header of the chunk whose bytes it holds
\* (unordered_file_reader_modified.h lines 280-287 and 316-334).
THEOREM LabelsAreRight == Spec => []LabelsMatch
<1>1. ReaderInv => LabelsMatch
  BY DEF ReaderInv, LabelInv
<1> QED BY <1>1, ReaderInvariant, PTL

\* What the consumers of the stream have seen.
Handed == {b.header : b \in got}
Told == {c \in Consumers : consumer[c] = "told"}

\* Every step hands out one chunk, tells a consumer the end, begins a new use,
\* or is not seen by the consumers.
LEMMA StreamStep ==
    ASSUME ReaderInv, ReaderInv', [Next]_vars
    PROVE  [Stream!Next]_(Stream!vars)
<1> USE DEF ReaderInv
<1>1. ASSUME UNCHANGED <<headers, got, consumer>> PROVE UNCHANGED Stream!vars
  BY <1>1 DEF Stream!vars
<1>2. ASSUME NEW n \in 0..MaxChunks, NEW none, Start(n, none) PROVE Stream!Next
  <2>1. Handed = headers
    BY <1>2 DEF Start, OwnerInv, Pushed, Handed
  <2>2. headers' = 1..n /\ 1..n \in SUBSET Chunks
    BY <1>2, Sizes DEF Start, Chunks
  <2>3. Handed' = {} /\ Told' = {}
    BY <1>2 DEF Start, Handed, Told
  <2>4. Stream!Begin(1..n)
    BY <2>1, <2>2, <2>3 DEF Handed, Told, Stream!Begin
  <2> QED BY <2>2, <2>4 DEF Stream!Next
<1>3. CASE CallReset \/ CallDestroy \/ Destroyed \/ Reset
  BY <1>1, <1>3 DEF CallReset, CallDestroy, Destroyed, Reset
<1>4. ASSUME NEW w \in Workers, Worker(w) \/ Complete(w) PROVE UNCHANGED Stream!vars
  BY <1>1, <1>4 DEF Worker, TestLoop, Reap, NothingToReap, Issue, NothingToIssue,
                    Cleanup, CloseIfLast, Complete, shell
<1>5. ASSUME NEW c \in Consumers, PollData(c) PROVE Stream!Next
  <2>1. PICK b \in queue : got' = got \cup {b}
    BY <1>5 DEF PollData
  <2>2. b.header \in headers /\ b.header \notin Handed
    BY <2>1 DEF PlaceInv, Pushed, Handed
  <2>3. Handed' = Handed \cup {b.header} /\ UNCHANGED <<headers, Told>> /\ c \notin Told
    BY <1>5, <2>1 DEF PollData, shell, Handed, Told
  <2>4. Stream!Deliver(c)
    BY <2>2, <2>3 DEF Handed, Told, Stream!Deliver
  <2> QED BY <2>4 DEF Stream!Next
<1>6. ASSUME NEW c \in Consumers, PollEnd(c) PROVE Stream!Next
  <2>1. Handed = headers
    BY <1>6, AllPushed DEF PollEnd, EndInv, Pushed, Handed
  <2>2. Told' = Told \cup {c} /\ UNCHANGED <<headers, got>>
    BY <1>6 DEF PollEnd, Told, TypeInv
  <2>3. Stream!TellEnd(c)
    BY <2>1, <2>2 DEF Handed, Told, Stream!TellEnd
  <2> QED BY <2>3 DEF Stream!Next
<1>7. ASSUME NEW c \in Consumers, StopPolling(c) PROVE UNCHANGED Stream!vars
  <2>1. Told' = Told /\ UNCHANGED <<headers, got>>
    BY <1>7 DEF StopPolling, Told, TypeInv
  <2> QED BY <2>1 DEF Told, Stream!vars
<1>8. CASE UNCHANGED vars
  BY <1>1, <1>8 DEF vars, shell
<1> QED BY <1>2, <1>3, <1>4, <1>5, <1>6, <1>7, <1>8 DEF Next, Owner

\* To its consumers the reader of a list of chunks is the same stream as the
\* reader of whole files: each chunk of the list once, the empty ones included,
\* then the end (unordered_file_reader_modified.h lines 275-310 and 348-356).
THEOREM ReaderIsAStream == Spec => ImplementsStreamSafely
<1>1. Init => Stream!Init
  BY DEF Init, Stream!Init
<1>2. ReaderInv /\ ReaderInv' /\ [Next]_vars => [Stream!Next]_(Stream!vars)
  BY StreamStep
<1> QED
  BY <1>1, <1>2, ReaderInvariant, PTL
     DEF Spec, ImplementsStreamSafely, Stream!SafeSpec

=============================================================================
