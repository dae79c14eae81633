---------------------- MODULE UnorderedFileReaderProofs ----------------------
(***************************************************************************)
(* UnorderedFileReader for any number of workers, files, chunks, requests  *)
(* and consumers: each active chunk is in one place, the end of the stream *)
(* is told only when all are handed out, a reader that is drained does not *)
(* abort, and every step is a step of the abstract stream.                 *)
(***************************************************************************)
EXTENDS UnorderedFileReader, FiniteSetTheorems, FunctionTheorems, TLAPS

\* The workers that active_threads counts.
Counted == {w \in Workers : pc[w] \in {"test", "reap", "submit", "cleanup", "aborted"}}

\* The chunks that left the workers.
Pushed == queue \cup got

\* active_threads is the number of workers before their decrement; a worker has
\* only files of its own to issue.
TypeInv ==
    /\ TypeOK
    /\ \A w \in Workers : available_files[w] \in Seq(FilesOf(w))
    /\ active_threads = Cardinality(Counted)

\* Between two uses all workers are joined and the queue is open and empty.
OwnerInv ==
    /\ \A w \in Workers : owner = "idle" <=> pc[w] = "joined"
    /\ owner = "idle" => got = active /\ queue = {} /\ queue_open
    /\ ~is_open => owner \in {"destroying", "gone"}

\* Where the chunks are.
PlaceInv ==
    /\ \A w \in Workers : in_flight[w] \cap reapable[w] = {}
    /\ \A w \in Workers : \A ch \in Outstanding(w) :
         /\ ch \in active /\ ch \notin Pushed
         /\ ch[1] \in FilesOf(w) /\ ch[2] < bytes_issued[ch[1]]
    /\ queue \cap got = {}
    /\ \A ch \in Pushed : ch \in active /\ ch[2] < bytes_issued[ch[1]]
    /\ \A w \in Workers : pc[w] # "aborted" =>
         \A ch \in active : ch[1] \in FilesOf(w) /\ ch[2] < bytes_issued[ch[1]]
                                => ch \in Outstanding(w) \cup Pushed
    /\ \A w \in Workers : pc[w] \in {"joined", "last", "exited", "aborted"}
                              => Outstanding(w) = {}

\* What the workers count is what was pushed.
CompleteInv ==
    /\ \A f \in Files : chunks_completed[f] = Cardinality(ActiveOf(f) \cap Pushed)
    /\ \A w \in Workers : completed_files[w] \subseteq FilesOf(w)
    /\ owner # "idle" =>
         \A w \in Workers : \A f \in FilesOf(w) :
            f \in completed_files[w] <=> ActiveOf(f) \subseteq Pushed
    /\ \A w \in Workers :
         /\ pc[w] \in {"last", "exited"} => completed_files[w] = FilesOf(w)
         /\ pc[w] = "cleanup" => completed_files[w] = FilesOf(w) \/ ~is_open

\* The queue is closed by the last worker, and the end is told after that.
EndInv ==
    /\ ~queue_open => \A w \in Workers : pc[w] \in {"last", "exited"}
    /\ EndMeansAll

ReaderInv == TypeInv /\ OwnerInv /\ PlaceInv /\ CompleteInv /\ EndInv

\* What holds when consumers do not stop early.
DrainedInv ==
    /\ \A c \in Consumers : consumer[c] # "polling" => got = active
    /\ ~is_open => got = active
    /\ NoAbort

-----------------------------------------------------------------------------
(* Files, chunks and the deque of files                                    *)

\* What the assumption says of the numbers.
LEMMA Sizes ==
    /\ NumThreads \in Nat \ {0} /\ NumFiles \in Nat /\ QueueSize \in Nat \ {0}
    /\ MaxRequests \in Nat \ {0} /\ MaxRounds \in Nat
    /\ NumChunks \in [Files -> Nat]
    /\ \A f \in Files : NumChunks[f] \in Nat /\ f \in Nat \ {0}
    /\ \A w \in Workers : w \in Nat
    /\ 0 \in Workers
BY SizesAssumption DEF Files, Workers

\* A chunk is a file and an index below the file's number of chunks.
LEMMA ChunkShape ==
    ASSUME NEW ch \in Chunks
    PROVE  /\ ch = <<ch[1], ch[2]>>
           /\ ch[1] \in Files /\ ch[2] \in Nat /\ ch[2] < NumChunks[ch[1]]
<1>1. PICK f \in Files : ch \in {f} \X (0..(NumChunks[f] - 1))
  BY DEF Chunks
<1>2. NumChunks[f] \in Nat
  BY Sizes
<1> QED BY <1>1, <1>2

\* Every file belongs to one worker.
LEMMA FilesParted ==
    /\ \A w \in Workers : FilesOf(w) \subseteq Files
    /\ \A v, w \in Workers : v # w => FilesOf(v) \cap FilesOf(w) = {}
    /\ \A f \in Files : \E w \in Workers : f \in FilesOf(w)
<1>1. \A f \in Files : (f - 1) % NumThreads \in Workers
  BY Sizes DEF Workers, Files
<1> QED BY <1>1 DEF FilesOf

\* Sets of workers, of files and of chunks of a file are finite.
LEMMA FiniteParts ==
    /\ IsFiniteSet(Workers) /\ Cardinality(Workers) = NumThreads
    /\ \A S \in SUBSET Files : IsFiniteSet(S) /\ Cardinality(S) \in Nat
    /\ active \subseteq Chunks =>
         \A f \in Files : \A S \in SUBSET ActiveOf(f) :
            /\ IsFiniteSet(S) /\ Cardinality(S) \in Nat
            /\ Cardinality(S) = Cardinality(ActiveOf(f)) <=> S = ActiveOf(f)
<1>1. IsFiniteSet(Workers) /\ Cardinality(Workers) = NumThreads
  BY Sizes, FS_Interval DEF Workers
<1>2. IsFiniteSet(Files)
  BY Sizes, FS_Interval DEF Files
<1>3. ASSUME active \subseteq Chunks, NEW f \in Files, NEW S \in SUBSET ActiveOf(f)
      PROVE  /\ IsFiniteSet(S) /\ Cardinality(S) \in Nat
             /\ Cardinality(S) = Cardinality(ActiveOf(f)) <=> S = ActiveOf(f)
  <2> DEFINE All == {f} \X (0..(NumChunks[f] - 1))
  <2>1. NumChunks[f] \in Nat
    BY Sizes
  <2>2. NumChunks[f] - 1 \in Int /\ 0 \in Int
    BY <2>1
  <2>3. IsFiniteSet({f}) /\ IsFiniteSet(0..(NumChunks[f] - 1))
    BY <2>2, FS_Singleton, FS_Interval
  <2>4. IsFiniteSet(All)
    BY <2>3, FS_Product
  <2>5. ActiveOf(f) \in SUBSET All
    BY <1>3, <2>1, ChunkShape DEF ActiveOf
  <2>6. IsFiniteSet(ActiveOf(f))
    BY <2>4, <2>5, FS_Subset
  <2> QED BY <2>6, FS_Subset, FS_CardinalityType
<1> QED BY <1>1, <1>2, <1>3, FS_Subset, FS_CardinalityType

\* A finite set of numbers can be put in order: the place of an element is the
\* number of elements that are not above it.
LEMMA Ordered ==
    ASSUME NEW S \in SUBSET Nat, IsFiniteSet(S)
    PROVE  /\ Cardinality(S) \in Nat
           /\ \E s \in [1..Cardinality(S) -> S] :
                \A i, j \in 1..Cardinality(S) : i < j => s[i] < s[j]
<1> DEFINE n == Cardinality(S)
           Upto(x) == {y \in S : y <= x}
           rank == [x \in S |-> Cardinality(Upto(x))]
           s == [i \in 1..n |-> CHOOSE x \in S : rank[x] = i]
<1>1. n \in Nat
  BY FS_CardinalityType
<1>2. \A x \in S : IsFiniteSet(Upto(x)) /\ Cardinality(Upto(x)) \in Nat
                   /\ Cardinality(Upto(x)) <= n
  BY FS_Subset, FS_CardinalityType
<1>3. \A x \in S : rank[x] \in 1..n
  <2> SUFFICES ASSUME NEW x \in S PROVE rank[x] \in 1..n
    OBVIOUS
  <2>1. x \in Upto(x)
    OBVIOUS
  <2>2. Cardinality(Upto(x)) # 0
    BY <1>2, <2>1, FS_EmptySet
  <2> QED BY <1>1, <1>2, <2>2
<1>4. \A x, z \in S : x < z => rank[x] < rank[z]
  <2> SUFFICES ASSUME NEW x \in S, NEW z \in S, x < z PROVE rank[x] < rank[z]
    OBVIOUS
  <2>1. Upto(x) \in SUBSET Upto(z) /\ z \in Upto(z) /\ z \notin Upto(x)
    <3>1. \A y \in S : y \in Int
      OBVIOUS
    <3>2. \A y \in S : y <= x => y <= z
      BY <3>1
    <3>3. z <= z /\ ~(z <= x)
      BY <3>1
    <3> QED BY <3>2, <3>3
  <2>2. /\ Cardinality(Upto(x)) <= Cardinality(Upto(z))
        /\ Cardinality(Upto(x)) # Cardinality(Upto(z))
    <3> HIDE DEF Upto
    <3> QED BY <1>2, <2>1, FS_Subset
  <2> QED BY <1>2, <2>2
<1>5. rank \in Surjection(S, 1..n)
  <2>1. rank \in [S -> 1..n]
    BY <1>3
  <2>2. \A x, z \in S : rank[x] = rank[z] => x = z
    <3> SUFFICES ASSUME NEW x \in S, NEW z \in S, x # z PROVE rank[x] # rank[z]
      OBVIOUS
    <3>1. (x < z \/ z < x) /\ rank[x] \in Int /\ rank[z] \in Int
      BY <1>3
    <3> HIDE DEF rank
    <3> QED BY <1>4, <3>1
  <2> HIDE DEF rank
  <2>3. rank \in Injection(S, 1..n)
    BY <2>1, <2>2, Fun_IsInj
  <2>4. IsFiniteSet(1..n) /\ Cardinality(1..n) = n
    BY <1>1, FS_Interval
  <2> QED BY <2>3, <2>4, FS_Injection
<1>6. \A i \in 1..n : \E x \in S : rank[x] = i
  <2> HIDE DEF rank
  <2> QED BY <1>5, Fun_SurjectionProperties
<1>7. \A i \in 1..n : s[i] \in S /\ rank[s[i]] = i
  BY <1>6
<1>8. \A i, j \in 1..n : i < j => s[i] < s[j]
  <2> SUFFICES ASSUME NEW i \in 1..n, NEW j \in 1..n, i < j PROVE s[i] < s[j]
    OBVIOUS
  <2> HIDE DEF rank, s
  <2>1. s[i] \in Nat /\ s[j] \in Nat /\ (s[j] < s[i] => j < i) /\ (s[i] = s[j] => i = j)
    BY <1>4, <1>7
  <2> QED BY <2>1
<1>9. s \in [1..n -> S]
  BY <1>7
<1> HIDE DEF s
<1> QED BY <1>1, <1>8, <1>9

\* The deque a worker starts with holds files of its own.
LEMMA InOrderOfFiles ==
    ASSUME NEW S \in SUBSET Files
    PROVE  InOrder(S) \in Seq(S)
<1>1. IsFiniteSet(S) /\ S \in SUBSET Nat
  BY FiniteParts, Sizes
<1>2. InOrder(S) \in [1..Cardinality(S) -> S] /\ Cardinality(S) \in Nat
  BY <1>1, Ordered DEF InOrder
<1> QED BY <1>2

-----------------------------------------------------------------------------
(* Types                                                                   *)

\* The initial state.
LEMMA TypeInvInit == Init => TypeInv
<1> SUFFICES ASSUME Init PROVE TypeInv
  OBVIOUS
<1>1. Counted = {}
  BY DEF Init, Counted
<1>2. active_threads = Cardinality(Counted)
  BY <1>1, FS_EmptySet DEF Init
<1>3. TypeOK
  BY Sizes DEF Init, TypeOK, Places
<1> QED BY <1>2, <1>3 DEF Init, TypeInv

\* The count of workers is in its range.
LEMMA CountedInRange ==
    /\ IsFiniteSet(Counted)
    /\ Cardinality(Counted) \in 0..NumThreads
<1>1. Counted \in SUBSET Workers
  BY DEF Counted
<1>2. IsFiniteSet(Counted) /\ Cardinality(Counted) <= NumThreads
  BY <1>1, FiniteParts, FS_Subset
<1> QED BY <1>2, Sizes, FS_CardinalityType

\* What a worker pushes or reads is a chunk of its file.
LEMMA ReapType ==
    ASSUME TypeInv, NEW w \in Workers, Reap(w)
    PROVE  TypeInv'
<1>1. PICK ch \in reapable[w] :
        /\ queue' = queue \cup {ch}
        /\ reapable' = [reapable EXCEPT ![w] = @ \ {ch}]
        /\ chunks_completed' = [chunks_completed EXCEPT ![ch[1]] = @ + 1]
        /\ \/ completed_files' = [completed_files EXCEPT ![w] = @ \cup {ch[1]}]
           \/ completed_files' = completed_files
  BY DEF Reap
<1>2. ch \in Chunks /\ ch[1] \in Files
  BY ChunkShape DEF TypeInv, TypeOK
<1>3. Counted' = Counted
  BY DEF Reap, Counted
<1>4. completed_files' \in [Workers -> SUBSET Files]
  <2>1. completed_files \in [Workers -> SUBSET Files]
    BY DEF TypeInv, TypeOK
  <2> QED BY <1>1, <1>2, <2>1
<1>5. reapable' \in [Workers -> SUBSET Chunks]
  BY <1>1 DEF TypeInv, TypeOK
<1>6. chunks_completed' \in [Files -> Nat]
  BY <1>1, <1>2 DEF TypeInv, TypeOK
<1> QED BY <1>1, <1>2, <1>3, <1>4, <1>5, <1>6 DEF Reap, TypeInv, TypeOK

\* A worker issues a read of a chunk, or is done with the file it looked at.
LEMMA SubmitType ==
    ASSUME TypeInv, NEW w \in Workers, Submit(w)
    PROVE  TypeInv'
<1> DEFINE f == Head(available_files[w])
           rest == Tail(available_files[w])
<1>1. available_files[w] \in Seq(FilesOf(w)) /\ available_files[w] # <<>>
  BY DEF Submit, TypeInv
<1>2. f \in FilesOf(w) /\ rest \in Seq(FilesOf(w)) /\ Append(rest, f) \in Seq(FilesOf(w))
  BY <1>1
<1>3. f \in Files /\ NumChunks[f] \in Nat
  BY <1>2, FilesParted, Sizes
<1>4. Counted' = Counted
  BY DEF Submit, Counted
<1>5. ASSUME NEW files \in Seq(FilesOf(w)),
             available_files' = [available_files EXCEPT ![w] = files]
      PROVE  /\ available_files' \in [Workers -> Seq(Files)]
             /\ \A v \in Workers : available_files'[v] \in Seq(FilesOf(v))
  <2>1. files \in Seq(Files)
    BY FilesParted
  <2> QED BY <1>5, <2>1 DEF TypeInv, TypeOK
<1> HIDE DEF f, rest
<1>6. CASE /\ available_files' = [available_files EXCEPT ![w] = rest]
           /\ bytes_issued' = [bytes_issued EXCEPT ![f] = NumChunks[f]]
           /\ UNCHANGED in_flight
  BY <1>2, <1>3, <1>4, <1>5, <1>6 DEF Submit, TypeInv, TypeOK
<1>7. ASSUME NEW ch \in Ahead(f),
             in_flight' = [in_flight EXCEPT ![w] = @ \cup {ch}],
             bytes_issued' = [bytes_issued EXCEPT ![f] = ch[2] + 1],
             available_files' =
               [available_files EXCEPT ![w] =
                  IF ch[2] + 1 < NumChunks[f] THEN Append(rest, f) ELSE rest]
      PROVE  TypeInv'
  <2>1. ch \in Chunks /\ ch[2] \in Nat
    BY ChunkShape DEF Ahead, ActiveOf, TypeInv, TypeOK
  <2>2. in_flight' \in [Workers -> SUBSET Chunks]
    BY <1>7, <2>1 DEF TypeInv, TypeOK
  <2>3. bytes_issued' \in [Files -> Nat]
    <3>1. bytes_issued \in [Files -> Nat] /\ ch[2] + 1 \in Nat
      BY <2>1 DEF TypeInv, TypeOK
    <3> QED BY <1>7, <3>1
  <2> QED BY <1>2, <1>4, <1>5, <1>7, <2>2, <2>3 DEF Submit, TypeInv, TypeOK
<1> QED BY <1>6, <1>7 DEF Submit, f, rest

\* A worker that is done is counted no longer.
LEMMA CleanupType ==
    ASSUME TypeInv, NEW w \in Workers, Cleanup(w)
    PROVE  TypeInv'
<1>1. pc[w] = "cleanup" /\ pc \in [Workers -> Places] /\ {"last", "aborted"} \subseteq Places
  BY DEF Cleanup, Places, TypeInv, TypeOK
<1>2. /\ in_flight' \in [Workers -> SUBSET Chunks]
      /\ reapable' \in [Workers -> SUBSET Chunks]
  BY DEF Cleanup, TypeInv, TypeOK
<1>3. CASE active_threads' = active_threads - 1 /\ Goto(w, "last")
  <2>1. Counted' = Counted \ {w} /\ w \in Counted
    BY <1>1, <1>3 DEF Goto, Counted
  <2>2. IsFiniteSet(Counted) /\ Cardinality(Counted) \in 0..NumThreads
    BY CountedInRange
  <2>3. /\ Cardinality(Counted \ {w}) = Cardinality(Counted) - 1
        /\ Cardinality(Counted \ {w}) \in Nat
    BY <2>1, <2>2, FS_RemoveElement, FS_CardinalityType
  <2>4. active_threads' = Cardinality(Counted')
    BY <1>3, <2>1, <2>3 DEF TypeInv
  <2>5. active_threads' \in 0..NumThreads
    BY <2>1, <2>2, <2>3, <2>4, Sizes
  <2>6. pc' \in [Workers -> Places]
    BY <1>1, <1>3 DEF Goto
  <2>7. \A v \in Workers : available_files'[v] \in Seq(FilesOf(v))
    BY DEF Cleanup, TypeInv, worker_vars
  <2>8. TypeOK'
    BY <1>2, <2>5, <2>6 DEF Cleanup, TypeInv, TypeOK, worker_vars
  <2> QED BY <2>4, <2>7, <2>8 DEF TypeInv
<1>4. CASE UNCHANGED active_threads /\ Goto(w, "aborted")
  <2>1. Counted' = Counted
    BY <1>1, <1>4 DEF Goto, Counted
  <2>2. pc' \in [Workers -> Places]
    BY <1>1, <1>4 DEF Goto
  <2>3. \A v \in Workers : available_files'[v] \in Seq(FilesOf(v))
    BY DEF Cleanup, TypeInv, worker_vars
  <2>4. TypeOK'
    BY <1>2, <1>4, <2>2 DEF Cleanup, TypeInv, TypeOK, worker_vars
  <2> QED BY <1>4, <2>1, <2>3, <2>4 DEF TypeInv
<1> QED BY <1>3, <1>4 DEF Cleanup

\* A step of a worker that only goes to another place.
LEMMA GotoType ==
    ASSUME TypeInv, NEW w \in Workers, NEW place \in Places,
           \/ pc[w] \in {"test", "reap", "submit"}
              /\ place \in {"test", "reap", "submit", "cleanup"}
           \/ pc[w] = "last" /\ place = "exited",
           Goto(w, place), queue_open' \in BOOLEAN,
           UNCHANGED <<round, owner, active, is_open, active_threads,
                       worker_vars, in_flight, reapable, queue, got, consumer>>
    PROVE  TypeInv'
<1>1. pc' \in [Workers -> Places]
  BY DEF Goto, TypeInv, TypeOK
<1>2. Counted' = Counted
  BY DEF Goto, Counted, TypeInv, TypeOK
<1> QED BY <1>1, <1>2 DEF TypeInv, TypeOK, worker_vars

\* Every step keeps the types.
LEMMA TypeInvNext == TypeInv /\ [Next]_vars => TypeInv'
<1> SUFFICES ASSUME TypeInv, [Next]_vars PROVE TypeInv'
  OBVIOUS
<1>1. ASSUME NEW request \in SUBSET Chunks, Start(request) PROVE TypeInv'
  <2>1. Counted' = Workers
    BY <1>1 DEF Start, Counted
  <2>2. active_threads' = Cardinality(Counted') /\ active_threads' \in 0..NumThreads
    BY <1>1, <2>1, FiniteParts, Sizes DEF Start
  <2>3. \A w \in Workers : available_files'[w] \in Seq(FilesOf(w))
    BY <1>1, InOrderOfFiles, FilesParted DEF Start
  <2>4. available_files' \in [Workers -> Seq(Files)]
    BY <1>1, InOrderOfFiles, FilesParted DEF Start
  <2>5. completed_files' \in [Workers -> SUBSET Files]
    BY <1>1, FilesParted DEF Start, NothingActive
  <2> QED
    BY <1>1, <2>2, <2>3, <2>4, <2>5, Sizes DEF Start, Places, TypeInv, TypeOK
<1>2. CASE CallReset \/ CallDestroy \/ Destroyed
  BY <1>2 DEF CallReset, CallDestroy, Destroyed, Counted, worker_vars, TypeInv, TypeOK
<1>3. CASE Reset
  <2>1. Counted' = {}
    BY <1>3 DEF Reset, Counted
  <2>2. active_threads' = Cardinality(Counted') /\ active_threads' \in 0..NumThreads
    BY <1>3, <2>1, FS_EmptySet, Sizes DEF Reset
  <2> QED BY <1>3, <2>2 DEF Reset, Places, worker_vars, TypeInv, TypeOK
<1>4. ASSUME NEW w \in Workers, Worker(w) PROVE TypeInv'
  <2>1. CASE TestLoop(w)
    BY <2>1, GotoType DEF TestLoop, Places, TypeInv, TypeOK
  <2>2. CASE NothingToReap(w)
    BY <2>2, GotoType DEF NothingToReap, Places, TypeInv, TypeOK
  <2>3. CASE NothingToSubmit(w)
    BY <2>3, GotoType DEF NothingToSubmit, Places, TypeInv, TypeOK
  <2>4. CASE CloseIfLast(w)
    BY <2>4, GotoType DEF CloseIfLast, Places, TypeInv, TypeOK
  <2> QED
    BY <1>4, <2>1, <2>2, <2>3, <2>4, ReapType, SubmitType, CleanupType DEF Worker
<1>5. ASSUME NEW w \in Workers, Complete(w) PROVE TypeInv'
  BY <1>5 DEF Complete, Counted, worker_vars, TypeInv, TypeOK
<1>6. ASSUME NEW c \in Consumers, Consumer(c) PROVE TypeInv'
  <2>1. CASE PollData(c)
    BY <2>1 DEF PollData, Counted, worker_vars, TypeInv, TypeOK
  <2>2. CASE PollEnd(c) \/ StopPolling(c)
    BY <2>2 DEF PollEnd, StopPolling, Counted, worker_vars, TypeInv, TypeOK
  <2> QED BY <1>6, <2>1, <2>2 DEF Consumer
<1>7. CASE UNCHANGED vars
  BY <1>7 DEF vars, Counted, worker_vars, TypeInv, TypeOK
<1> QED BY <1>1, <1>2, <1>3, <1>4, <1>5, <1>6, <1>7 DEF Next, Owner

-----------------------------------------------------------------------------
(* Where the chunks are                                                    *)

\* An outstanding or pushed chunk is an active chunk of a file; the chunks of
\* a file that is completely read have been pushed.
LEMMA Placed ==
    ASSUME TypeInv, PlaceInv
    PROVE  /\ \A w \in Workers : \A ch \in Outstanding(w) :
                ch \in Chunks /\ ch \in ActiveOf(ch[1]) /\ ch[1] \in Files
           /\ \A ch \in Pushed :
                ch \in Chunks /\ ch \in ActiveOf(ch[1]) /\ ch[1] \in Files
           /\ Pushed \subseteq active
BY ChunkShape DEF TypeInv, TypeOK, PlaceInv, ActiveOf

\* A worker whose files are completely read has nothing in its ring.
LEMMA CompleteMeansEmptyRing ==
    ASSUME TypeInv, PlaceInv, CompleteInv, owner # "idle",
           NEW w \in Workers, completed_files[w] = FilesOf(w)
    PROVE  Outstanding(w) = {}
<1> SUFFICES ASSUME NEW ch \in Outstanding(w) PROVE FALSE
  OBVIOUS
<1>1. ch \notin Pushed /\ ch[1] \in FilesOf(w)
  BY DEF PlaceInv
<1>2. ch \in ActiveOf(ch[1]) /\ ActiveOf(ch[1]) \subseteq Pushed
  BY <1>1, Placed DEF CompleteInv
<1> QED BY <1>1, <1>2

\* When all files are completely read, all active chunks have been pushed.
LEMMA CompleteMeansPushed ==
    ASSUME TypeInv, PlaceInv, CompleteInv, owner # "idle",
           \A w \in Workers : completed_files[w] = FilesOf(w)
    PROVE  active = Pushed
<1> SUFFICES ASSUME NEW ch \in active PROVE ch \in Pushed
  BY Placed
<1>1. ch[1] \in Files /\ ch \in ActiveOf(ch[1])
  BY ChunkShape DEF TypeInv, TypeOK, ActiveOf
<1>2. PICK w \in Workers : ch[1] \in FilesOf(w)
  BY <1>1, FilesParted
<1>3. ActiveOf(ch[1]) \subseteq Pushed
  BY <1>2 DEF CompleteInv
<1> QED BY <1>1, <1>3

\* The owner's part of the invariant, initially and after every step.
LEMMA OwnerInvInit == Init => OwnerInv
BY DEF Init, OwnerInv

LEMMA OwnerInvNext ==
    TypeInv /\ OwnerInv /\ PlaceInv /\ CompleteInv /\ [Next]_vars => OwnerInv'
<1> SUFFICES ASSUME TypeInv, OwnerInv, PlaceInv, CompleteInv, [Next]_vars
             PROVE  OwnerInv'
  OBVIOUS
<1>1. ASSUME NEW request \in SUBSET Chunks, Start(request) PROVE OwnerInv'
  BY <1>1 DEF Start, OwnerInv
<1>2. CASE CallReset \/ CallDestroy \/ Destroyed
  BY <1>2 DEF CallReset, CallDestroy, Destroyed, OwnerInv
<1>3. CASE Reset
  <2>1. active = Pushed
    BY <1>3, CompleteMeansPushed DEF Reset, WorkersGone, CompleteInv
  <2> QED BY <1>3, <2>1 DEF Reset, Pushed, OwnerInv
<1>4. ASSUME NEW w \in Workers, Worker(w) PROVE OwnerInv'
  <2>1. pc[w] # "joined" /\ owner # "idle"
    BY <1>4 DEF Worker, TestLoop, Reap, NothingToReap, Submit, NothingToSubmit,
                Cleanup, CloseIfLast, OwnerInv
  <2>2. \/ UNCHANGED pc
        \/ \E place \in {"test", "reap", "submit", "cleanup", "last", "exited", "aborted"} :
              Goto(w, place)
    BY <1>4 DEF Worker, TestLoop, Reap, NothingToReap, Submit, NothingToSubmit,
                Cleanup, CloseIfLast
  <2>3. \A v \in Workers : pc'[v] # "joined"
    BY <2>1, <2>2 DEF Goto, OwnerInv, TypeInv, TypeOK
  <2>4. UNCHANGED <<owner, is_open>>
    BY <1>4 DEF Worker, TestLoop, Reap, NothingToReap, Submit, NothingToSubmit,
                Cleanup, CloseIfLast
  <2> QED BY <2>1, <2>3, <2>4 DEF OwnerInv
<1>5. ASSUME NEW w \in Workers, Complete(w) PROVE OwnerInv'
  BY <1>5 DEF Complete, OwnerInv
<1>6. ASSUME NEW c \in Consumers, Consumer(c) PROVE OwnerInv'
  BY <1>6 DEF Consumer, PollData, PollEnd, StopPolling, OwnerInv
<1>7. CASE UNCHANGED vars
  BY <1>7 DEF vars, OwnerInv
<1> QED BY <1>1, <1>2, <1>3, <1>4, <1>5, <1>6, <1>7 DEF Next, Owner

\* A completion that is reaped moves its chunk into the queue.
LEMMA ReapPlace ==
    ASSUME TypeInv, PlaceInv, NEW w \in Workers, Reap(w)
    PROVE  PlaceInv'
<1>1. PICK ch \in reapable[w] :
        /\ queue' = queue \cup {ch}
        /\ reapable' = [reapable EXCEPT ![w] = @ \ {ch}]
  BY DEF Reap
<1>2. UNCHANGED <<active, pc, bytes_issued, in_flight, got>>
  BY DEF Reap
<1>3. ch \in Outstanding(w) /\ ch \in active /\ ch[2] < bytes_issued[ch[1]]
      /\ ch \notin Pushed /\ ch \notin in_flight[w]
  BY <1>1 DEF Outstanding, PlaceInv
<1>4. Pushed' = Pushed \cup {ch}
  BY <1>1, <1>2 DEF Pushed
<1>5. \A v \in Workers : Outstanding(v)' = Outstanding(v) \ {ch}
  <2> SUFFICES ASSUME NEW v \in Workers PROVE Outstanding(v)' = Outstanding(v) \ {ch}
    OBVIOUS
  <2>1. CASE v = w
    BY <1>1, <1>2, <1>3, <2>1 DEF Outstanding, TypeInv, TypeOK
  <2>2. CASE v # w
    <3>1. ch \notin Outstanding(v)
      BY <1>3, <2>2, FilesParted DEF PlaceInv
    <3> QED BY <1>1, <1>2, <2>2, <3>1 DEF Outstanding, TypeInv, TypeOK
  <2> QED BY <2>1, <2>2
<1>6. \A v \in Workers : in_flight'[v] \cap reapable'[v] = {}
  BY <1>1, <1>2 DEF PlaceInv, TypeInv, TypeOK
<1>7. queue' \cap got' = {}
  BY <1>1, <1>2, <1>3 DEF PlaceInv, Pushed
<1> HIDE DEF Pushed
<1> QED BY <1>2, <1>3, <1>4, <1>5, <1>6, <1>7 DEF PlaceInv

\* A read that is issued is the next active chunk of its file; a file with no
\* chunk ahead has none left to issue.
LEMMA SubmitPlace ==
    ASSUME TypeInv, PlaceInv, NEW w \in Workers, Submit(w)
    PROVE  PlaceInv'
<1> DEFINE f == Head(available_files[w])
           rest == Tail(available_files[w])
<1>1. f \in FilesOf(w) /\ f \in Files /\ NumChunks[f] \in Nat
  BY FilesParted, Sizes, SMTT(30) DEF Submit, TypeInv
<1>2. /\ pc[w] = "submit"
      /\ UNCHANGED <<active, pc, reapable, queue, got>> /\ Pushed' = Pushed
  BY DEF Submit, Pushed
<1>3. bytes_issued \in [Files -> Nat] /\ active \subseteq Chunks
  BY DEF TypeInv, TypeOK
<1>4. \A v \in Workers : v # w => f \notin FilesOf(v)
  BY <1>1, FilesParted
<1>5. \A ch \in active : ch[1] \in Files /\ ch[2] \in Nat /\ ch[2] < NumChunks[ch[1]]
                         /\ bytes_issued[ch[1]] \in Nat
  BY <1>3, ChunkShape
<1>6. CASE /\ Ahead(f) = {}
           /\ bytes_issued' = [bytes_issued EXCEPT ![f] = NumChunks[f]]
           /\ UNCHANGED in_flight
  <2>1. \A ch \in active : ch[2] < bytes_issued'[ch[1]] <=> ch[2] < bytes_issued[ch[1]]
    <3> SUFFICES ASSUME NEW ch \in active
                 PROVE  ch[2] < bytes_issued'[ch[1]] <=> ch[2] < bytes_issued[ch[1]]
      OBVIOUS
    <3>1. CASE ch[1] = f
      <4>1. ch \notin Ahead(f) /\ ch \in ActiveOf(f)
        BY <1>6, <3>1 DEF ActiveOf
      <4>2. ch[2] < bytes_issued[f] /\ bytes_issued'[f] = NumChunks[f]
        BY <1>1, <1>3, <1>5, <1>6, <3>1, <4>1 DEF Ahead
      <4> QED BY <1>5, <3>1, <4>2
    <3>2. CASE ch[1] # f
      BY <1>3, <1>5, <1>6, <3>2
    <3> QED BY <3>1, <3>2
  <2>2. \A v \in Workers : Outstanding(v)' = Outstanding(v)
    BY <1>2, <1>6 DEF Outstanding
  <2> HIDE DEF f
  <2> QED BY <1>2, <1>6, <2>1, <2>2 DEF PlaceInv
<1>7. ASSUME NEW ch \in Ahead(f),
             \A other \in Ahead(f) : ch[2] <= other[2],
             in_flight' = [in_flight EXCEPT ![w] = @ \cup {ch}],
             bytes_issued' = [bytes_issued EXCEPT ![f] = ch[2] + 1]
      PROVE  PlaceInv'
  <2>1. /\ ch \in active /\ ch[1] = f /\ bytes_issued[f] <= ch[2]
        /\ ch = <<f, ch[2]>> /\ ch[2] \in Nat
    BY <1>3, <1>5, ChunkShape DEF Ahead, ActiveOf
  <2>2. \A v \in Workers : ch \notin Outstanding(v)
    BY <1>1, <1>3, <2>1 DEF PlaceInv
  <2>3. ch \notin Pushed
    BY <1>1, <1>3, <2>1 DEF PlaceInv
  <2>4. \A x \in active : x[2] < bytes_issued[x[1]] => x[2] < bytes_issued'[x[1]]
    <3> SUFFICES ASSUME NEW x \in active, x[2] < bytes_issued[x[1]]
                 PROVE  x[2] < bytes_issued'[x[1]]
      OBVIOUS
    <3>1. CASE x[1] = f
      BY <1>1, <1>3, <1>5, <1>7, <2>1, <3>1
    <3>2. CASE x[1] # f
      BY <1>3, <1>5, <1>7, <3>2
    <3> QED BY <3>1, <3>2
  <2>5. \A x \in active : x[2] < bytes_issued'[x[1]] => x = ch \/ x[2] < bytes_issued[x[1]]
    <3> SUFFICES ASSUME NEW x \in active, x[2] < bytes_issued'[x[1]], x # ch
                 PROVE  x[2] < bytes_issued[x[1]]
      OBVIOUS
    <3>1. CASE x[1] = f
      <4>1. x[2] < ch[2] + 1 /\ x[2] # ch[2]
        BY <1>1, <1>3, <1>7, <2>1, <3>1, ChunkShape
      <4>2. x \notin Ahead(f)
        BY <1>5, <1>7, <2>1, <4>1
      <4> QED BY <1>5, <3>1, <4>2 DEF Ahead, ActiveOf
    <3>2. CASE x[1] # f
      BY <1>3, <1>5, <1>7, <3>2
    <3> QED BY <3>1, <3>2
  <2>6. ch[2] < bytes_issued'[f]
    BY <1>1, <1>3, <1>7, <2>1
  <2>7. \A v \in Workers :
          Outstanding(v)' = IF v = w THEN Outstanding(v) \cup {ch} ELSE Outstanding(v)
    BY <1>2, <1>7 DEF Outstanding, TypeInv, TypeOK
  <2>8. \A v \in Workers : in_flight'[v] \cap reapable'[v] = {}
    BY <1>2, <1>7, <2>2 DEF PlaceInv, Outstanding, TypeInv, TypeOK
  <2> HIDE DEF f
  <2> QED BY <1>1, <1>2, <1>4, <2>1, <2>2, <2>3, <2>4, <2>5, <2>6, <2>7, <2>8 DEF PlaceInv
<1> QED BY <1>6, <1>7 DEF Submit

\* The places initially and after every step.
LEMMA PlaceInvInit == Init => PlaceInv
BY DEF Init, PlaceInv, Outstanding, Pushed

LEMMA PlaceInvNext ==
    TypeInv /\ OwnerInv /\ PlaceInv /\ CompleteInv /\ [Next]_vars => PlaceInv'
<1> SUFFICES ASSUME TypeInv, OwnerInv, PlaceInv, CompleteInv, [Next]_vars
             PROVE  PlaceInv'
  OBVIOUS
<1>1. ASSUME NEW request \in SUBSET Chunks, Start(request) PROVE PlaceInv'
  <2>1. \A w \in Workers : Outstanding(w) = {}
    BY <1>1 DEF Start, OwnerInv, PlaceInv
  <2>2. \A w \in Workers : Outstanding(w)' = {}
    BY <1>1, <2>1 DEF Start, Outstanding
  <2>3. Pushed' = {} /\ queue' \cap got' = {}
    BY <1>1 DEF Start, OwnerInv, Pushed
  <2>4. \A ch \in active' : ch[1] \in Files /\ ~(ch[2] < bytes_issued'[ch[1]])
    BY <1>1, ChunkShape DEF Start
  <2>5. \A w \in Workers : in_flight'[w] \cap reapable'[w] = {}
    BY <2>2 DEF Outstanding
  <2> QED BY <2>2, <2>3, <2>4, <2>5 DEF PlaceInv
<1>2. CASE CallReset \/ CallDestroy \/ Destroyed
  BY <1>2 DEF CallReset, CallDestroy, Destroyed, worker_vars, PlaceInv, Outstanding, Pushed
<1>3. CASE Reset
  BY <1>3 DEF Reset, WorkersGone, worker_vars, PlaceInv, Outstanding, Pushed
<1>4. ASSUME NEW w \in Workers, Worker(w) PROVE PlaceInv'
  <2>1. CASE TestLoop(w) \/ NothingToReap(w) \/ NothingToSubmit(w) \/ CloseIfLast(w)
    <3>1. UNCHANGED <<active, bytes_issued, in_flight, reapable, queue, got>>
      BY <2>1 DEF TestLoop, NothingToReap, NothingToSubmit, CloseIfLast, worker_vars
    <3>2. \E place \in {"test", "reap", "submit", "cleanup", "exited"} :
             /\ Goto(w, place) /\ pc[w] # "aborted"
             /\ place = "exited" => pc[w] = "last"
      BY <2>1 DEF TestLoop, NothingToReap, NothingToSubmit, CloseIfLast
    <3>3. \A v \in Workers :
             /\ pc'[v] # "aborted" => pc[v] # "aborted"
             /\ pc'[v] \in {"joined", "last", "exited", "aborted"}
                   => pc[v] \in {"joined", "last", "exited", "aborted"}
      BY <3>2 DEF Goto, TypeInv, TypeOK
    <3> QED BY <3>1, <3>3 DEF PlaceInv, Outstanding, Pushed
  <2>2. CASE Cleanup(w)
    <3>1. UNCHANGED <<active, bytes_issued, queue, got, owner>> /\ Pushed' = Pushed
      BY <2>2 DEF Cleanup, worker_vars, Pushed
    <3>2. \A v \in Workers : /\ Outstanding(v)' = IF v = w THEN {} ELSE Outstanding(v)
                             /\ in_flight'[v] \cap reapable'[v] = {}
      BY <2>2 DEF Cleanup, Outstanding, PlaceInv, TypeInv, TypeOK
    <3>3. \A v \in Workers : v # w => pc'[v] = pc[v]
      BY <2>2 DEF Cleanup, Goto, TypeInv, TypeOK
    <3>4. pc'[w] # "aborted" => Outstanding(w) = {}
      <4>1. owner # "idle"
        BY <2>2 DEF Cleanup, OwnerInv
      <4>2. pc'[w] # "aborted" => completed_files[w] = FilesOf(w)
        BY <2>2 DEF Cleanup, Goto, TypeInv, TypeOK
      <4> QED BY <4>1, <4>2, CompleteMeansEmptyRing
    <3>5. pc[w] # "aborted"
      BY <2>2 DEF Cleanup
    <3> QED BY <3>1, <3>2, <3>3, <3>4, <3>5 DEF PlaceInv
  <2> QED BY <1>4, <2>1, <2>2, ReapPlace, SubmitPlace DEF Worker
<1>5. ASSUME NEW w \in Workers, Complete(w) PROVE PlaceInv'
  <2>1. UNCHANGED <<active, pc, bytes_issued, queue, got>> /\ Pushed' = Pushed
    BY <1>5 DEF Complete, worker_vars, Pushed
  <2>2. \A v \in Workers : /\ Outstanding(v)' = Outstanding(v)
                           /\ in_flight'[v] \cap reapable'[v] = {}
    BY <1>5 DEF Complete, Outstanding, PlaceInv, TypeInv, TypeOK
  <2> QED BY <2>1, <2>2 DEF PlaceInv
<1>6. ASSUME NEW c \in Consumers, Consumer(c) PROVE PlaceInv'
  <2>1. UNCHANGED <<active, pc, bytes_issued, in_flight, reapable>>
    BY <1>6 DEF Consumer, PollData, PollEnd, StopPolling, worker_vars
  <2>2. Pushed' = Pushed /\ queue' \cap got' = {}
    BY <1>6 DEF Consumer, PollData, PollEnd, StopPolling, Pushed, PlaceInv
  <2>3. \A v \in Workers : Outstanding(v)' = Outstanding(v)
    BY <2>1 DEF Outstanding
  <2> QED BY <2>1, <2>2, <2>3 DEF PlaceInv
<1>7. CASE UNCHANGED vars
  BY <1>7 DEF vars, worker_vars, PlaceInv, Outstanding, Pushed
<1> QED BY <1>1, <1>2, <1>3, <1>4, <1>5, <1>6, <1>7 DEF Next, Owner

-----------------------------------------------------------------------------
(* What the workers count                                                  *)

\* One more chunk of a file was pushed, and the count says so.
LEMMA ReapCount ==
    ASSUME TypeInv, PlaceInv, NEW w \in Workers, Reap(w),
           \A f \in Files : chunks_completed[f] = Cardinality(ActiveOf(f) \cap Pushed)
    PROVE  /\ \A f \in Files :
                chunks_completed'[f] = Cardinality(ActiveOf(f)' \cap Pushed')
           /\ \E ch \in Outstanding(w) :
                /\ Pushed' = Pushed \cup {ch}
                /\ completed_files' =
                     IF ActiveOf(ch[1]) \subseteq Pushed'
                     THEN [completed_files EXCEPT ![w] = @ \cup {ch[1]}]
                     ELSE completed_files
<1>1. PICK ch \in reapable[w] :
        /\ queue' = queue \cup {ch}
        /\ chunks_completed' = [chunks_completed EXCEPT ![ch[1]] = @ + 1]
        /\ completed_files' =
             IF chunks_completed'[ch[1]] = Cardinality(ActiveOf(ch[1]))
             THEN [completed_files EXCEPT ![w] = @ \cup {ch[1]}]
             ELSE completed_files
  BY DEF Reap
<1>2. UNCHANGED <<active, got>> /\ Pushed' = Pushed \cup {ch}
  BY <1>1 DEF Reap, Pushed
<1>3. ch \in Outstanding(w) /\ ch[1] \in Files /\ ch \in ActiveOf(ch[1]) /\ ch \notin Pushed
  BY <1>1, Placed DEF Outstanding, PlaceInv
<1>4. \A f \in Files : ActiveOf(f)' = ActiveOf(f)
  BY <1>2 DEF ActiveOf
<1>5. \A f \in Files : chunks_completed'[f] = Cardinality(ActiveOf(f) \cap Pushed')
  <2> SUFFICES ASSUME NEW f \in Files
               PROVE  chunks_completed'[f] = Cardinality(ActiveOf(f) \cap Pushed')
    OBVIOUS
  <2>1. CASE f = ch[1]
    <3>1. /\ IsFiniteSet(ActiveOf(f) \cap Pushed)
          /\ Cardinality(ActiveOf(f) \cap Pushed) \in Nat
      BY FiniteParts DEF TypeInv, TypeOK
    <3>2. /\ ActiveOf(f) \cap Pushed' = (ActiveOf(f) \cap Pushed) \cup {ch}
          /\ ch \notin ActiveOf(f) \cap Pushed
      BY <1>2, <1>3, <2>1
    <3>3. Cardinality(ActiveOf(f) \cap Pushed') = Cardinality(ActiveOf(f) \cap Pushed) + 1
      BY <3>1, <3>2, FS_AddElement
    <3>4. chunks_completed'[f] = chunks_completed[f] + 1
      BY <1>1, <2>1 DEF TypeInv, TypeOK
    <3> QED BY <3>3, <3>4
  <2>2. CASE f # ch[1]
    <3>1. chunks_completed'[f] = chunks_completed[f]
      BY <1>1, <2>2 DEF TypeInv, TypeOK
    <3>2. ActiveOf(f) \cap Pushed' = ActiveOf(f) \cap Pushed
      BY <1>2, <2>2 DEF ActiveOf
    <3> QED BY <3>1, <3>2
  <2> QED BY <2>1, <2>2
<1>6. chunks_completed'[ch[1]] = Cardinality(ActiveOf(ch[1]))
        <=> ActiveOf(ch[1]) \subseteq Pushed'
  <2>1. Cardinality(ActiveOf(ch[1]) \cap Pushed') = Cardinality(ActiveOf(ch[1]))
          <=> ActiveOf(ch[1]) \cap Pushed' = ActiveOf(ch[1])
    BY <1>3, FiniteParts DEF TypeInv, TypeOK
  <2>2. chunks_completed'[ch[1]] = Cardinality(ActiveOf(ch[1]) \cap Pushed')
    BY <1>3, <1>5
  <2> QED BY <2>1, <2>2
<1> QED BY <1>1, <1>2, <1>3, <1>4, <1>5, <1>6

\* The worker that reaps the last chunk of a file marks the file complete.
LEMMA ReapComplete ==
    ASSUME TypeInv, PlaceInv, CompleteInv, NEW w \in Workers, Reap(w)
    PROVE  CompleteInv'
<1>1. \A f \in Files : chunks_completed'[f] = Cardinality(ActiveOf(f)' \cap Pushed')
  BY ReapCount DEF CompleteInv
<1>2. PICK ch \in Outstanding(w) :
        /\ Pushed' = Pushed \cup {ch}
        /\ completed_files' =
             IF ActiveOf(ch[1]) \subseteq Pushed'
             THEN [completed_files EXCEPT ![w] = @ \cup {ch[1]}]
             ELSE completed_files
  BY ReapCount DEF CompleteInv
<1>3. ch[1] \in FilesOf(w) /\ ch \in ActiveOf(ch[1])
  BY Placed DEF PlaceInv
<1>4. \A f \in Files : ActiveOf(f)' = ActiveOf(f)
  BY DEF Reap, ActiveOf
<1>5. /\ UNCHANGED <<owner, is_open, pc>> /\ pc[w] = "reap"
      /\ completed_files \in [Workers -> SUBSET Files]
  BY DEF Reap, TypeInv, TypeOK
<1>6. \A v \in Workers : v # w => completed_files'[v] = completed_files[v]
  BY <1>2, <1>5
<1>7. completed_files'[w] = IF ActiveOf(ch[1]) \subseteq Pushed'
                            THEN completed_files[w] \cup {ch[1]}
                            ELSE completed_files[w]
  BY <1>2, <1>5
<1>8. \A f \in Files : f # ch[1] =>
        (ActiveOf(f) \subseteq Pushed' <=> ActiveOf(f) \subseteq Pushed)
  BY <1>2 DEF ActiveOf
<1>9. \A v \in Workers : completed_files'[v] \subseteq FilesOf(v)
  BY <1>3, <1>6, <1>7 DEF CompleteInv
<1>10. ASSUME owner' # "idle", NEW v \in Workers, NEW f \in FilesOf(v)
       PROVE  f \in completed_files'[v] <=> ActiveOf(f)' \subseteq Pushed'
  <2>1. f \in Files /\ owner # "idle"
    BY <1>5, <1>10, FilesParted
  <2>2. CASE f = ch[1]
    <3>1. v = w
      BY <1>3, <2>2, FilesParted
    <3>2. ActiveOf(f) \subseteq Pushed => ActiveOf(f) \subseteq Pushed'
      BY <1>2
    <3>3. f \in completed_files[w] <=> ActiveOf(f) \subseteq Pushed
      BY <2>1, <3>1 DEF CompleteInv
    <3> QED BY <1>4, <1>7, <2>1, <2>2, <3>1, <3>2, <3>3
  <2>3. CASE f # ch[1]
    <3>1. f \in completed_files'[v] <=> f \in completed_files[v]
      BY <1>6, <1>7, <2>3
    <3>2. f \in completed_files[v] <=> ActiveOf(f) \subseteq Pushed
      BY <2>1 DEF CompleteInv
    <3> QED BY <1>4, <1>8, <2>1, <2>3, <3>1, <3>2
  <2> QED BY <2>2, <2>3
<1>11. \A v \in Workers :
         /\ pc'[v] \in {"last", "exited"} => completed_files'[v] = FilesOf(v)
         /\ pc'[v] = "cleanup" => completed_files'[v] = FilesOf(v) \/ ~is_open'
  BY <1>5, <1>6 DEF CompleteInv
<1> QED BY <1>1, <1>9, <1>10, <1>11 DEF CompleteInv

\* The counts initially and after every step.
LEMMA CompleteInvInit == Init => CompleteInv
<1> SUFFICES ASSUME Init PROVE CompleteInv
  OBVIOUS
<1>1. \A f \in Files : ActiveOf(f) \cap Pushed = {}
  BY DEF Init, ActiveOf
<1>2. \A f \in Files : chunks_completed[f] = Cardinality(ActiveOf(f) \cap Pushed)
  BY <1>1, FS_EmptySet DEF Init
<1> QED BY <1>2 DEF Init, CompleteInv

LEMMA CompleteInvNext ==
    TypeInv /\ OwnerInv /\ PlaceInv /\ CompleteInv /\ [Next]_vars => CompleteInv'
<1> SUFFICES ASSUME TypeInv, OwnerInv, PlaceInv, CompleteInv, [Next]_vars
             PROVE  CompleteInv'
  OBVIOUS
<1>1. ASSUME NEW request \in SUBSET Chunks, Start(request) PROVE CompleteInv'
  <2>1. Pushed' = {}
    BY <1>1 DEF Start, OwnerInv, Pushed
  <2>2. \A f \in Files : chunks_completed'[f] = Cardinality(ActiveOf(f)' \cap Pushed')
    BY <1>1, <2>1, FS_EmptySet DEF Start
  <2>3. \A w \in Workers : completed_files'[w] = NothingActive(w, active')
    BY <1>1 DEF Start
  <2>4. \A w \in Workers : \A f \in FilesOf(w) :
          f \in completed_files'[w] <=> ActiveOf(f)' \subseteq Pushed'
    BY <2>1, <2>3 DEF NothingActive, ActiveOf
  <2>5. \A w \in Workers : pc'[w] = "test"
    BY <1>1 DEF Start
  <2> QED BY <2>2, <2>3, <2>4, <2>5 DEF NothingActive, CompleteInv
<1>2. ASSUME UNCHANGED <<active, chunks_completed, completed_files>>,
             Pushed' = Pushed,
             owner' # "idle" => owner # "idle",
             is_open' => is_open \/ \A w \in Workers : pc'[w] = "joined",
             \A w \in Workers :
               \/ pc'[w] = pc[w]
               \/ pc'[w] \in {"joined", "test", "reap", "submit", "aborted"}
               \/ pc[w] = "last" /\ pc'[w] = "exited"
               \/ pc'[w] \in {"last", "cleanup"} /\ completed_files[w] = FilesOf(w)
               \/ pc'[w] = "cleanup" /\ ~is_open'
      PROVE  CompleteInv'
  <2>1. \A f \in Files : ActiveOf(f)' = ActiveOf(f)
    BY <1>2 DEF ActiveOf
  <2>2. \A w \in Workers : FilesOf(w) \subseteq Files
    BY FilesParted
  <2>3. \A w \in Workers :
          /\ pc'[w] \in {"last", "exited"} => completed_files'[w] = FilesOf(w)
          /\ pc'[w] = "cleanup" => completed_files'[w] = FilesOf(w) \/ ~is_open'
    BY <1>2 DEF CompleteInv
  <2> HIDE DEF Pushed
  <2> QED BY <1>2, <2>1, <2>2, <2>3 DEF CompleteInv
<1>3. CASE CallReset \/ CallDestroy \/ Destroyed
  <2>1. UNCHANGED <<active, chunks_completed, completed_files, pc>> /\ Pushed' = Pushed
    BY <1>3 DEF CallReset, CallDestroy, Destroyed, worker_vars, Pushed
  <2>2. /\ owner' # "idle" => owner # "idle"
        /\ is_open' => is_open
    BY <1>3 DEF CallReset, CallDestroy, Destroyed
  <2> QED BY <1>2, <2>1, <2>2
<1>4. CASE Reset
  <2>1. UNCHANGED <<active, chunks_completed, completed_files>> /\ Pushed' = Pushed
    BY <1>4 DEF Reset, worker_vars, Pushed
  <2>2. owner' = "idle" /\ \A w \in Workers : pc'[w] = "joined"
    BY <1>4 DEF Reset
  <2> QED BY <1>2, <2>1, <2>2
<1>5. ASSUME NEW w \in Workers, Worker(w) PROVE CompleteInv'
  <2>1. CASE TestLoop(w) \/ NothingToReap(w) \/ Submit(w) \/ NothingToSubmit(w)
             \/ Cleanup(w) \/ CloseIfLast(w)
    <3>1. /\ UNCHANGED <<active, chunks_completed, completed_files, owner, is_open>>
          /\ Pushed' = Pushed
      BY <2>1 DEF TestLoop, NothingToReap, Submit, NothingToSubmit, Cleanup,
                  CloseIfLast, worker_vars, Pushed
    <3>2. \/ UNCHANGED pc
          \/ \E place \in {"test", "reap", "submit", "aborted"} : Goto(w, place)
          \/ Goto(w, "exited") /\ pc[w] = "last"
          \/ Goto(w, "last") /\ completed_files[w] = FilesOf(w)
          \/ Goto(w, "cleanup") /\ (completed_files[w] = FilesOf(w) \/ ~is_open)
      BY <2>1 DEF TestLoop, NothingToReap, Submit, NothingToSubmit, Cleanup,
                  CloseIfLast
    <3>3. \A v \in Workers :
            \/ pc'[v] = pc[v]
            \/ pc'[v] \in {"joined", "test", "reap", "submit", "aborted"}
            \/ pc[v] = "last" /\ pc'[v] = "exited"
            \/ pc'[v] \in {"last", "cleanup"} /\ completed_files[v] = FilesOf(v)
            \/ pc'[v] = "cleanup" /\ ~is_open'
      BY <3>1, <3>2 DEF Goto, TypeInv, TypeOK
    <3> QED BY <1>2, <3>1, <3>3
  <2> QED BY <1>5, <2>1, ReapComplete DEF Worker
<1>6. ASSUME NEW w \in Workers, Complete(w) PROVE CompleteInv'
  <2>1. /\ UNCHANGED <<active, chunks_completed, completed_files, owner, is_open, pc>>
        /\ Pushed' = Pushed
    BY <1>6 DEF Complete, worker_vars, Pushed
  <2> QED BY <1>2, <2>1
<1>7. ASSUME NEW c \in Consumers, Consumer(c) PROVE CompleteInv'
  <2>1. /\ UNCHANGED <<active, chunks_completed, completed_files, owner, is_open, pc>>
        /\ Pushed' = Pushed
    BY <1>7 DEF Consumer, PollData, PollEnd, StopPolling, worker_vars, Pushed
  <2> QED BY <1>2, <2>1
<1>8. CASE UNCHANGED vars
  <2>1. /\ UNCHANGED <<active, chunks_completed, completed_files, owner, is_open, pc>>
        /\ Pushed' = Pushed
    BY <1>8 DEF vars, worker_vars, Pushed
  <2> QED BY <1>2, <2>1
<1> QED BY <1>1, <1>3, <1>4, <1>5, <1>6, <1>7, <1>8 DEF Next, Owner

-----------------------------------------------------------------------------
(* The end of the stream                                                   *)

\* A worker that reads zero in active_threads knows that every worker is done.
LEMMA LastMeansAllDone ==
    ASSUME TypeInv, active_threads = 0
    PROVE  \A w \in Workers : pc[w] \in {"joined", "last", "exited"}
<1>1. Counted = {}
  BY CountedInRange, FS_EmptySet DEF TypeInv
<1> QED BY <1>1 DEF Counted, Places, TypeInv, TypeOK

\* A closed queue that is empty means that all was polled.
LEMMA ClosedMeansPushed ==
    ASSUME TypeInv, OwnerInv, PlaceInv, CompleteInv, EndInv, ~queue_open
    PROVE  active = Pushed
<1>1. \A w \in Workers : pc[w] \in {"last", "exited"}
  BY DEF EndInv
<1>2. owner # "idle"
  BY <1>1, Sizes DEF OwnerInv
<1> QED BY <1>1, <1>2, CompleteMeansPushed DEF CompleteInv

\* The end initially and after every step.
LEMMA EndInvInit == Init => EndInv
BY DEF Init, EndInv, EndMeansAll

LEMMA EndInvNext ==
    TypeInv /\ OwnerInv /\ PlaceInv /\ CompleteInv /\ EndInv /\ [Next]_vars => EndInv'
<1> SUFFICES ASSUME TypeInv, OwnerInv, PlaceInv, CompleteInv, EndInv, [Next]_vars
             PROVE  EndInv'
  OBVIOUS
<1>1. ASSUME NEW request \in SUBSET Chunks, Start(request) PROVE EndInv'
  BY <1>1 DEF Start, OwnerInv, EndInv, EndMeansAll
<1>2. CASE CallReset \/ CallDestroy \/ Destroyed
  BY <1>2 DEF CallReset, CallDestroy, Destroyed, EndInv, EndMeansAll
<1>3. CASE Reset
  BY <1>3 DEF Reset, EndInv, EndMeansAll
<1>4. ASSUME NEW w \in Workers, Worker(w) PROVE EndInv'
  <2>1. UNCHANGED <<active, got, consumer>>
    BY <1>4 DEF Worker, TestLoop, Reap, NothingToReap, Submit, NothingToSubmit,
                Cleanup, CloseIfLast
  <2>2. CASE CloseIfLast(w)
    <3>1. \A v \in Workers : pc'[v] = IF v = w THEN "exited" ELSE pc[v]
      BY <2>2 DEF CloseIfLast, Goto, TypeInv, TypeOK
    <3>2. pc[w] = "last" /\ owner # "idle"
      BY <2>2 DEF CloseIfLast, OwnerInv
    <3>3. queue_open' = (queue_open /\ ~Last)
      BY <2>2 DEF CloseIfLast
    <3>4. CASE Last
      <4>1. \A v \in Workers : pc[v] \in {"last", "exited"}
        BY <3>2, <3>4, LastMeansAllDone DEF Last, OwnerInv
      <4> QED BY <2>1, <3>1, <4>1 DEF EndInv, EndMeansAll
    <3>5. CASE ~Last
      BY <2>1, <3>1, <3>3, <3>5 DEF EndInv, EndMeansAll
    <3> QED BY <3>4, <3>5
  <2>3. CASE ~CloseIfLast(w)
    <3>1. pc[w] \notin {"last", "exited"} /\ queue_open' = queue_open
      BY <1>4, <2>3 DEF Worker, TestLoop, Reap, NothingToReap, Submit,
                        NothingToSubmit, Cleanup
    <3> QED BY <2>1, <3>1 DEF EndInv, EndMeansAll
  <2> QED BY <2>2, <2>3
<1>5. ASSUME NEW w \in Workers, Complete(w) PROVE EndInv'
  BY <1>5 DEF Complete, EndInv, EndMeansAll
<1>6. ASSUME NEW c \in Consumers, Consumer(c) PROVE EndInv'
  <2>1. UNCHANGED <<active, pc, queue_open>>
    BY <1>6 DEF Consumer, PollData, PollEnd, StopPolling
  <2>2. CASE PollData(c)
    <3>1. PICK ch \in queue : got' = got \cup {ch}
      BY <2>2 DEF PollData
    <3>2. ch \in active /\ ch \notin got
      BY <3>1 DEF PlaceInv, Pushed
    <3> QED BY <2>1, <2>2, <3>1, <3>2 DEF PollData, EndInv, EndMeansAll
  <2>3. CASE PollEnd(c)
    <3>1. active = got
      BY <2>3, ClosedMeansPushed DEF PollEnd, Pushed
    <3> QED BY <2>1, <2>3, <3>1 DEF PollEnd, EndInv, EndMeansAll
  <2>4. CASE StopPolling(c)
    BY <2>1, <2>4 DEF StopPolling, EndInv, EndMeansAll, TypeInv, TypeOK
  <2> QED BY <1>6, <2>2, <2>3, <2>4 DEF Consumer
<1>7. CASE UNCHANGED vars
  BY <1>7 DEF vars, EndInv, EndMeansAll
<1> QED BY <1>1, <1>2, <1>3, <1>4, <1>5, <1>6, <1>7 DEF Next, Owner

\* The inductive invariant.
LEMMA ReaderInvariant == Spec => []ReaderInv
<1>1. Init => ReaderInv
  BY TypeInvInit, OwnerInvInit, PlaceInvInit, CompleteInvInit, EndInvInit DEF ReaderInv
<1>2. ReaderInv /\ [Next]_vars => ReaderInv'
  BY TypeInvNext, OwnerInvNext, PlaceInvNext, CompleteInvNext, EndInvNext DEF ReaderInv
<1> QED BY <1>1, <1>2, PTL DEF Spec

\* Types hold in every reachable state, and active_threads is the number of
\* workers before their decrement.
THEOREM TypeCorrect == Spec => [](TypeOK /\ active_threads = Cardinality(Counted))
<1>1. ReaderInv => TypeOK /\ active_threads = Cardinality(Counted)
  BY DEF ReaderInv, TypeInv
<1> QED BY <1>1, ReaderInvariant, PTL

\* However many workers, files and consumers there are, no chunk is read twice,
\* pushed twice or forgotten (unordered_file_reader.h lines 330-394).
THEOREM ChunkIsInOnePlace == Spec => []OnePlace
<1>1. ReaderInv => OnePlace
  <2> SUFFICES ASSUME ReaderInv, owner # "idle", ~Aborted, NEW ch \in active
               PROVE  LET f == ch[1]
                          places == {x \in {<<"unissued">>} : ch[2] >= bytes_issued[f]}
                             \cup {<<"flight", w>> : w \in {v \in Workers : ch \in in_flight[v]}}
                             \cup {<<"reap", w>> : w \in {v \in Workers : ch \in reapable[v]}}
                             \cup {x \in {<<"queue">>} : ch \in queue}
                             \cup {x \in {<<"got">>} : ch \in got}
                      IN  Cardinality(places) = 1
    BY DEF OnePlace
  <2> DEFINE f == ch[1]
             unissued == {x \in {<<"unissued">>} : ch[2] >= bytes_issued[f]}
             flight == {<<"flight", w>> : w \in {v \in Workers : ch \in in_flight[v]}}
             reap == {<<"reap", w>> : w \in {v \in Workers : ch \in reapable[v]}}
             queued == {x \in {<<"queue">>} : ch \in queue}
             polled == {x \in {<<"got">>} : ch \in got}
  <2>1. f \in Files /\ ch[2] \in Nat /\ bytes_issued[f] \in Nat
    BY ChunkShape DEF ReaderInv, TypeInv, TypeOK
  <2>2. PICK w \in Workers : f \in FilesOf(w)
    BY <2>1, FilesParted
  <2>3. \A v \in Workers : ch \in Outstanding(v) => v = w
    BY <2>2, FilesParted DEF ReaderInv, PlaceInv
  <2>4. CASE ch[2] >= bytes_issued[f]
    <3>1. ch \notin Pushed /\ \A v \in Workers : ch \notin Outstanding(v)
      BY <2>1, <2>4 DEF ReaderInv, PlaceInv
    <3>2. /\ unissued = {<<"unissued">>} /\ flight = {} /\ reap = {}
          /\ queued = {} /\ polled = {}
      BY <2>4, <3>1 DEF Outstanding, Pushed
    <3> QED BY <3>2, FS_Singleton
  <2>5. CASE ~(ch[2] >= bytes_issued[f])
    <3>1. unissued = {} /\ ch[2] < bytes_issued[f]
      BY <2>1, <2>5
    <3>2. ch \in Outstanding(w) \cup Pushed
      BY <2>2, <3>1 DEF ReaderInv, PlaceInv, Aborted
    <3>3. CASE ch \in Outstanding(w)
      <4>1. queued = {} /\ polled = {}
        BY <3>3 DEF ReaderInv, PlaceInv, Pushed
      <4>2. CASE ch \in in_flight[w]
        <5>1. reap = {} /\ flight = {<<"flight", w>>}
          BY <2>3, <4>2 DEF ReaderInv, PlaceInv, Outstanding
        <5> QED BY <3>1, <4>1, <5>1, FS_Singleton
      <4>3. CASE ch \in reapable[w]
        <5>1. flight = {} /\ reap = {<<"reap", w>>}
          BY <2>3, <4>3 DEF ReaderInv, PlaceInv, Outstanding
        <5> QED BY <3>1, <4>1, <5>1, FS_Singleton
      <4> QED BY <3>3, <4>2, <4>3 DEF Outstanding
    <3>4. CASE ch \in Pushed
      <4>1. flight = {} /\ reap = {}
        BY <3>4 DEF ReaderInv, PlaceInv, Outstanding
      <4>2. CASE ch \in queue
        <5>1. queued = {<<"queue">>} /\ polled = {}
          BY <4>2 DEF ReaderInv, PlaceInv
        <5> QED BY <3>1, <4>1, <5>1, FS_Singleton
      <4>3. CASE ch \in got
        <5>1. queued = {} /\ polled = {<<"got">>}
          BY <4>3 DEF ReaderInv, PlaceInv
        <5> QED BY <3>1, <4>1, <5>1, FS_Singleton
      <4> QED BY <3>4, <4>2, <4>3 DEF Pushed
    <3> QED BY <3>2, <3>3, <3>4
  <2> QED BY <2>4, <2>5
<1> QED BY <1>1, ReaderInvariant, PTL

\* A consumer that is told the end has seen all there is, with any number of
\* workers that decrement, test and close in any order
\* (unordered_file_reader.h lines 408-411).
THEOREM EndIsTheEnd == Spec => []EndMeansAll
<1>1. ReaderInv => EndMeansAll
  BY DEF ReaderInv, EndInv
<1> QED BY <1>1, ReaderInvariant, PTL

-----------------------------------------------------------------------------
(* Readers that are drained before they are destroyed                      *)

\* A worker that gives up has all it needs, unless a consumer stopped early.
LEMMA DrainedNext ==
    ASSUME EarlyDestroy = FALSE, Consumers # {}, ReaderInv, DrainedInv, [Next]_vars
    PROVE  DrainedInv'
<1> USE DEF ReaderInv
<1>1. ASSUME NEW request \in SUBSET Chunks, Start(request) PROVE DrainedInv'
  BY <1>1 DEF Start, OwnerInv, DrainedInv, NoAbort, Aborted
<1>2. CASE CallReset \/ CallDestroy \/ Destroyed
  BY <1>2 DEF CallReset, CallDestroy, Destroyed, ConsumersGone, DrainedInv, NoAbort,
              Aborted
<1>3. CASE Reset
  BY <1>3 DEF Reset, DrainedInv, NoAbort, Aborted
<1>4. ASSUME NEW w \in Workers, Worker(w) PROVE DrainedInv'
  <2>1. UNCHANGED <<active, got, consumer, is_open>>
    BY <1>4 DEF Worker, TestLoop, Reap, NothingToReap, Submit, NothingToSubmit,
                Cleanup, CloseIfLast
  <2>2. CASE Cleanup(w)
    <3>1. completed_files[w] = FilesOf(w)
      <4> SUFFICES ASSUME ~is_open PROVE completed_files[w] = FilesOf(w)
        BY <2>2 DEF Cleanup, CompleteInv
      <4>1. \A f \in FilesOf(w) : ActiveOf(f) \subseteq Pushed
        BY DEF DrainedInv, ActiveOf, Pushed
      <4>2. owner # "idle"
        BY <2>2 DEF Cleanup, OwnerInv
      <4> QED BY <4>1, <4>2 DEF CompleteInv
    <3>2. Goto(w, "last")
      BY <2>2, <3>1 DEF Cleanup
    <3>3. ~Aborted'
      BY <3>2 DEF Goto, DrainedInv, NoAbort, Aborted, TypeInv, TypeOK
    <3> QED BY <2>1, <3>3 DEF DrainedInv, NoAbort
  <2>3. CASE ~Cleanup(w)
    <3>1. \/ UNCHANGED pc
          \/ \E place \in {"test", "reap", "submit", "cleanup", "exited"} : Goto(w, place)
      BY <1>4, <2>3 DEF Worker, TestLoop, Reap, NothingToReap, Submit,
                        NothingToSubmit, CloseIfLast
    <3>2. ~Aborted'
      BY <3>1 DEF Goto, DrainedInv, NoAbort, Aborted, TypeInv, TypeOK
    <3> QED BY <2>1, <3>2 DEF DrainedInv, NoAbort
  <2> QED BY <2>2, <2>3
<1>5. ASSUME NEW w \in Workers, Complete(w) PROVE DrainedInv'
  BY <1>5 DEF Complete, DrainedInv, NoAbort, Aborted
<1>6. ASSUME NEW c \in Consumers, Consumer(c) PROVE DrainedInv'
  <2>1. UNCHANGED <<active, pc, is_open>>
    BY <1>6 DEF Consumer, PollData, PollEnd, StopPolling
  <2>2. CASE PollData(c)
    <3>1. PICK ch \in queue : got' = got \cup {ch} /\ consumer' = consumer
      BY <2>2 DEF PollData
    <3>2. ch \in active /\ ch \notin got
      BY <3>1 DEF PlaceInv, Pushed
    <3> QED BY <2>1, <3>1, <3>2 DEF DrainedInv, NoAbort, Aborted
  <2>3. CASE PollEnd(c)
    <3>1. active = got /\ got' = got
      BY <2>3, ClosedMeansPushed DEF PollEnd, Pushed
    <3> QED BY <2>1, <3>1 DEF DrainedInv, NoAbort, Aborted
  <2>4. CASE StopPolling(c)
    BY <2>1, <2>4 DEF StopPolling, DrainedInv, NoAbort, Aborted
  <2> QED BY <1>6, <2>2, <2>3, <2>4 DEF Consumer
<1>7. CASE UNCHANGED vars
  BY <1>7 DEF vars, DrainedInv, NoAbort, Aborted
<1> QED BY <1>1, <1>2, <1>3, <1>4, <1>5, <1>6, <1>7 DEF Next, Owner

\* The CHECK that all files are read when a worker terminates never fails if
\* somebody polls and nobody stops before the last chunk; a reader that is
\* destroyed right after its last chunk was polled is among these
\* (unordered_file_reader.h lines 189-195 and 400-403).
THEOREM DrainedNeverAborts ==
    ASSUME EarlyDestroy = FALSE, Consumers # {}
    PROVE  Spec => []NoAbort
<1>1. Init => DrainedInv
  BY Sizes DEF Init, DrainedInv, NoAbort, Aborted
<1>2. ReaderInv /\ DrainedInv /\ [Next]_vars => DrainedInv'
  BY DrainedNext
<1>3. DrainedInv => NoAbort
  BY DEF DrainedInv
<1> QED BY <1>1, <1>2, <1>3, ReaderInvariant, PTL DEF Spec

-----------------------------------------------------------------------------
(* The reader is a stream                                                  *)

Told == {c \in Consumers : consumer[c] = "told"}

\* Every step is a step of the stream, or nothing its consumers can tell.
LEMMA StreamStep ==
    ASSUME ReaderInv, ReaderInv', [Next]_vars
    PROVE  [Stream!Next]_(Stream!vars)
<1> USE DEF ReaderInv
<1>1. ASSUME UNCHANGED <<active, got, consumer>> PROVE UNCHANGED Stream!vars
  BY <1>1 DEF Stream!vars
<1>2. ASSUME NEW request \in SUBSET Chunks, Start(request) PROVE Stream!Next
  <2>1. Stream!Begin(request)
    BY <1>2 DEF Start, OwnerInv, Stream!Begin
  <2> QED BY <2>1 DEF Stream!Next
<1>3. CASE CallReset \/ CallDestroy \/ Destroyed \/ Reset
  BY <1>1, <1>3 DEF CallReset, CallDestroy, Destroyed, Reset
<1>4. ASSUME NEW w \in Workers, Worker(w) \/ Complete(w) PROVE UNCHANGED Stream!vars
  BY <1>1, <1>4 DEF Worker, TestLoop, Reap, NothingToReap, Submit, NothingToSubmit,
                    Cleanup, CloseIfLast, Complete
<1>5. ASSUME NEW c \in Consumers, Consumer(c) PROVE [Stream!Next]_(Stream!vars)
  <2>1. CASE PollData(c)
    <3>1. PICK ch \in queue : got' = got \cup {ch}
      BY <2>1 DEF PollData
    <3>2. ch \in active \ got
      BY <3>1 DEF PlaceInv, Pushed
    <3>3. Stream!Deliver(c)
      BY <2>1, <3>1, <3>2 DEF PollData, Stream!Deliver
    <3> QED BY <3>3 DEF Stream!Next
  <2>2. CASE PollEnd(c)
    <3>1. active = got
      BY <2>2, ClosedMeansPushed DEF PollEnd, Pushed
    <3>2. Told' = Told \cup {c}
      BY <2>2 DEF PollEnd, Told, TypeInv, TypeOK
    <3>3. Stream!TellEnd(c)
      BY <2>2, <3>1, <3>2 DEF PollEnd, Told, Stream!TellEnd
    <3> QED BY <3>3 DEF Stream!Next
  <2>3. CASE StopPolling(c)
    <3>1. Told' = Told
      BY <2>3 DEF StopPolling, Told, TypeInv, TypeOK
    <3> QED BY <2>3, <3>1 DEF StopPolling, Told, Stream!vars
  <2> QED BY <1>5, <2>1, <2>2, <2>3 DEF Consumer
<1>6. CASE UNCHANGED vars
  BY <1>1, <1>6 DEF vars
<1> QED BY <1>2, <1>3, <1>4, <1>5, <1>6 DEF Next, Owner

\* Through any number of uses the reader hands out what it was asked for, each
\* chunk once and no other, and ends only then (unordered_file_reader.h lines
\* 139-208, 264-273 and 408-411).
THEOREM ReaderIsAStream == Spec => ImplementsStreamSafely
<1>1. Init => Stream!Init
  BY DEF Init, Stream!Init
<1>2. ReaderInv /\ ReaderInv' /\ [Next]_vars => [Stream!Next]_(Stream!vars)
  BY StreamStep
<1> QED
  BY <1>1, <1>2, ReaderInvariant, PTL
     DEF Spec, ImplementsStreamSafely, Stream!SafeSpec

=============================================================================
