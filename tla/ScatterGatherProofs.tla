------------------------- MODULE ScatterGatherProofs -------------------------
(***************************************************************************)
(* ScatterGather for any number of assigners, workers, buckets, chunks and *)
(* elements and any size of the buffers: no element is lost or assigned    *)
(* twice, a file is processed between its read and its write, and when Run *)
(* returns every bucket was processed.                                     *)
(***************************************************************************)
EXTENDS ScatterGather, FiniteSetTheorems, TLAPS

\* The types of phase 1, with the shapes that TypeOK leaves open.
AssignTypes ==
    /\ assigned \in [Elements -> Buckets]
    /\ unread \subseteq Chunks
    /\ assigner \in [Assigners -> {"polls", "assigns", "flushes", "done"}]
    /\ chunk \in [Assigners -> SUBSET Elements]
    /\ buffer \in [Assigners -> [Buckets -> SUBSET Elements]]
    /\ \A a \in Assigners : \A b \in Buckets : Cardinality(buffer[a][b]) < BufferSize
    /\ with_writer \in [Buckets -> SUBSET SUBSET Elements]
    /\ intermediate \in [Buckets -> SUBSET Elements]

Places == {"top", "read", "process", "reap_write", "write", "exited"}
States == {"unallocated", "none", "reading", "read", "processed", "freed", "spoilt"}
Memory == [state : States, content : SUBSET Elements]
Ring == [submitted : SUBSET Buckets, completed : SUBSET Buckets]

\* The types of phase 2.
PipelineTypes ==
    /\ phase \in 1..3
    /\ current_file \in Nat
    /\ pc \in [Workers -> Places]
    /\ previous \in [Workers -> Buckets \cup {NoFile}]
    /\ current \in [Workers -> Buckets \cup {NoFile}]
    /\ next \in [Workers -> Buckets \cup {NoFile}]
    /\ need_reap_read \in [Workers -> BOOLEAN]
    /\ need_submit_read \in [Workers -> BOOLEAN]
    /\ need_process \in [Workers -> BOOLEAN]
    /\ need_reap_write \in [Workers -> BOOLEAN]
    /\ need_submit_write \in [Workers -> BOOLEAN]
    /\ read_ring \in [Workers -> Ring]
    /\ write_ring \in [Workers -> Ring]
    /\ data \in [Buckets -> Memory]
    /\ target \in [Buckets -> Memory]
    /\ results \subseteq Buckets

TypeInv == AssignTypes /\ PipelineTypes

-----------------------------------------------------------------------------
(* Phase 1                                                                 *)

\* Where an element is: which chunks not handed out, chunks and buffers of the
\* assigners, buffers with the writer, and files have it.
Unread(e) == {ch \in unread : e \in ElementsOf(ch)}
InChunk(e) == {a \in Assigners : e \in chunk[a]}
InBuffer(e) == {ab \in Assigners \X Buckets : e \in buffer[ab[1]][ab[2]]}
WithWriter(e) == {full \in UNION {with_writer[b] : b \in Buckets} : e \in full}
InFile(e) == {b \in Buckets : e \in intermediate[b]}

PlacesOf(e) ==
    {<<"unread", ch>> : ch \in Unread(e)}
    \cup {<<"chunk", a>> : a \in InChunk(e)}
    \cup {<<"buffer", ab>> : ab \in InBuffer(e)}
    \cup {<<"writer", full>> : full \in WithWriter(e)}
    \cup {<<"file", b>> : b \in InFile(e)}

PlaceInv == \A e \in Elements : \E place : PlacesOf(e) = {place}

\* Elements go to the bucket they are assigned to.
BucketInv ==
    \A b \in Buckets :
        /\ \A a \in Assigners : \A e \in buffer[a][b] : assigned[e] = b
        /\ \A full \in with_writer[b] : \A e \in full : assigned[e] = b
        /\ \A e \in intermediate[b] : assigned[e] = b

\* What an assigner has left to do; when it has done it all, phase 2 may begin.
PhaseInv ==
    /\ \A a \in Assigners :
         /\ assigner[a] # "assigns" => chunk[a] = {}
         /\ assigner[a] \in {"flushes", "done"} => unread = {}
         /\ assigner[a] = "done" => \A b \in Buckets : buffer[a][b] = {}
    /\ phase # 1 => Joined
    /\ phase = 1 => current_file = 0 /\ \A w \in Workers : pc[w] = "top"

AssignInv == PlaceInv /\ BucketInv /\ PhaseInv

-----------------------------------------------------------------------------
(* Phase 2                                                                 *)

\* The file whose read a worker has under way, the one it has in hand, and the
\* one whose write it has under way.
ReadFile(w) ==
    {f \in {next[w]} : need_reap_read[w] /\ pc[w] \in {"top", "process", "reap_write", "write"}}
FileInHand(w) ==
    {f \in {current[w]} : \/ need_process[w] /\ pc[w] \in {"read", "process"}
                          \/ need_submit_write[w] /\ pc[w] \in {"reap_write", "write"}}
WrittenFile(w) ==
    {f \in {current[w]} : need_reap_write[w] /\ pc[w] = "top"}
    \cup {f \in {previous[w]} : need_reap_write[w] /\ pc[w] \in {"read", "process", "reap_write"}}
Jobs(w) == ReadFile(w) \cup FileInHand(w) \cup WrittenFile(w)

\* A worker's three files are different ones.
FilesApart(w) ==
    /\ ReadFile(w) \cap FileInHand(w) = {}
    /\ ReadFile(w) \cap WrittenFile(w) = {}
    /\ FileInHand(w) \cap WrittenFile(w) = {}

\* Each file that was taken is in one worker's hands or in the result.
JobsInv ==
    /\ \A w \in Workers :
         /\ FilesApart(w)
         /\ Jobs(w) \subseteq Buckets
         /\ \A f \in Jobs(w) : f < current_file /\ f \notin results
         /\ \A v \in Workers : v # w => Jobs(v) \cap Jobs(w) = {}
    /\ \A f \in results : f < current_file
    /\ \A f \in Buckets :
         f < current_file => f \in results \/ \E w \in Workers : f \in Jobs(w)

\* What a worker remembers between two steps.
FlagsInv ==
    \A w \in Workers :
        /\ need_reap_read[w] => need_submit_read[w]
        /\ ~need_submit_read[w] => current_file >= NumBuckets
        /\ pc[w] = "exited" => ~need_submit_read[w] /\ ~need_reap_write[w]
        /\ phase = 3 => pc[w] = "exited"

Contents(f, state) == [state |-> state, content |-> intermediate[f]]

\* A ring with one file, and the memory of that file.
ReadUnderWay(w, f) ==
    /\ read_ring[w] = [submitted |-> {f}, completed |-> {}]
    /\ data[f].state = "reading"
ReadDone(w, f) ==
    /\ read_ring[w] = [submitted |-> {}, completed |-> {f}]
    /\ data[f] = Contents(f, "read")
WriteUnderWay(w, f) == write_ring[w] = [submitted |-> {f}, completed |-> {}]
WriteDone(w, f) ==
    /\ write_ring[w] = [submitted |-> {}, completed |-> {f}]
    /\ target[f] = Contents(f, "processed")

\* The rings of a worker and the memory of its files.
WorkerData(w) ==
    /\ ReadFile(w) = {} => read_ring[w] = NoRing
    /\ \A f \in ReadFile(w) : ReadUnderWay(w, f) \/ ReadDone(w, f)
    /\ \A f \in FileInHand(w) :
         data[f] = Contents(f, IF pc[w] \in {"read", "process"} THEN "read" ELSE "processed")
    /\ WrittenFile(w) = {} => write_ring[w] = NoRing
    /\ \A f \in WrittenFile(w) :
         data[f] = Contents(f, "processed") /\ (WriteUnderWay(w, f) \/ WriteDone(w, f))

\* The memory of the files that no worker has.
RestData ==
    /\ \A f \in results :
         data[f].state = "freed" /\ target[f] = Contents(f, "processed")
    /\ \A f \in Buckets :
         /\ f >= current_file => data[f].state = "unallocated"
         /\ target[f].state \in {"none", "processed"}

DataInv == RestData /\ \A w \in Workers : WorkerData(w)

PipelineInv == JobsInv /\ FlagsInv /\ DataInv

-----------------------------------------------------------------------------
(* Chunks and elements                                                     *)

\* What the assumption says of the numbers.
LEMMA Sizes ==
    /\ NumBuckets \in Nat \ {0} /\ BufferSize \in Nat \ {0}
    /\ NumChunks \in Nat /\ ChunkSize \in Nat \ {0}
    /\ Assigners # {} /\ Workers # {}
    /\ Buckets \subseteq Nat /\ NoFile \notin Buckets
    /\ \A b \in Nat : b \in Buckets <=> b < NumBuckets
BY SizesAssumption DEF Buckets, NoFile

\* A product grows with its first factor.
LEMMA Multiples ==
    ASSUME NEW c \in Nat, NEW d \in Nat, c < d, NEW k \in Nat
    PROVE  c * k + k <= d * k
<1>1. (d - c - 1) * k \in Nat
  BY d - c - 1 \in Nat
<1>2. d * k = c * k + k + (d - c - 1) * k
  OBVIOUS
<1>3. c * k \in Nat /\ d * k \in Nat
  OBVIOUS
<1> QED BY <1>1, <1>2, <1>3

\* Each element is in one chunk.
LEMMA ChunksParted ==
    ASSUME NEW c \in Chunks, NEW d \in Chunks, NEW e \in ElementsOf(c) \cap ElementsOf(d)
    PROVE  c = d
<1>1. c \in Nat /\ d \in Nat /\ ChunkSize \in Nat
  BY Sizes DEF Chunks
<1>2. PICK i \in 0..(ChunkSize - 1) : e = c * ChunkSize + i
  BY DEF ElementsOf
<1>3. PICK j \in 0..(ChunkSize - 1) : e = d * ChunkSize + j
  BY DEF ElementsOf
<1>4. c * ChunkSize \in Nat /\ d * ChunkSize \in Nat
  BY <1>1
<1>5. ~(c < d)
  BY <1>1, <1>2, <1>3, <1>4, Multiples
<1>6. ~(d < c)
  BY <1>1, <1>2, <1>3, <1>4, Multiples
<1> QED BY <1>1, <1>5, <1>6

\* The elements are finitely many numbers, all of them in chunks.
LEMMA ElementsFinite ==
    /\ Elements \in SUBSET Nat /\ IsFiniteSet(Elements)
    /\ \A c \in Chunks : ElementsOf(c) \subseteq Elements
    /\ \A e \in Elements : \E c \in Chunks : e \in ElementsOf(c)
<1>1. NumChunks \in Nat /\ ChunkSize \in Nat /\ NumChunks * ChunkSize \in Nat
  BY Sizes
<1>2. ASSUME NEW c \in Chunks, NEW e \in ElementsOf(c)
      PROVE  e \in Nat /\ e <= NumChunks * ChunkSize
  <2>1. PICK i \in 0..(ChunkSize - 1) : e = c * ChunkSize + i
    BY <1>2 DEF ElementsOf
  <2>2. c \in Nat /\ c < NumChunks
    BY <1>1, <1>2 DEF Chunks
  <2>3. c * ChunkSize \in Nat /\ c * ChunkSize + ChunkSize <= NumChunks * ChunkSize
    BY <1>1, <2>2, Multiples
  <2> QED BY <1>1, <2>1, <2>3
<1>3. \A e \in Elements : e \in Nat /\ e <= NumChunks * ChunkSize
  BY <1>2 DEF Elements
<1>4. Elements \in SUBSET Nat /\ IsFiniteSet(Elements)
  BY <1>1, <1>3, FS_BoundedSetOfNaturals
<1> QED BY <1>4 DEF Elements

\* A chunk that is not used up has a first element.
LEMMA FirstElement ==
    ASSUME NEW S \in SUBSET Elements, S # {}
    PROVE  (CHOOSE x \in S : \A y \in S : x <= y) \in S
<1>1. S \subseteq Nat
  BY ElementsFinite
<1> DEFINE Less == OpToRel(<, Nat)
<1>2. \A x, y \in Nat : y < x => <<y, x>> \in Less
  BY DEF OpToRel
<1>3. IsWellFoundedOn(Less, Nat)
  BY NatLessThanWellFounded
<1> HIDE DEF Less
<1>4. PICK x \in S : \A y \in S : ~(<<y, x>> \in Less)
  BY <1>1, <1>3, WFMin
<1>5. \A y \in S : ~(y < x)
  BY <1>1, <1>2, <1>4
<1>6. \A y \in S : x <= y
  BY <1>1, <1>5
<1> QED BY <1>6

-----------------------------------------------------------------------------
(* Phase 1: types                                                          *)

\* TypeInv says more than TypeOK.
LEMMA TypeInvTypeOK == TypeInv => TypeOK
BY DEF TypeInv, AssignTypes, PipelineTypes, TypeOK, Places, States, Memory, Ring

\* The initial state.
LEMMA TypeInvInit == Init => TypeInv
<1> SUFFICES ASSUME Init PROVE TypeInv
  OBVIOUS
<1>1. AssignTypes
  <2>1. \A a \in Assigners : \A b \in Buckets : Cardinality(buffer[a][b]) = 0
    BY FS_EmptySet DEF Init
  <2>2. \A a \in Assigners : \A b \in Buckets : Cardinality(buffer[a][b]) < BufferSize
    BY <2>1, Sizes
  <2> QED BY <2>2 DEF Init, AssignTypes
<1>2. PipelineTypes
  BY Sizes DEF Init, PipelineTypes, Places, States, Memory, Ring, Empty, NoRing
<1> QED BY <1>1, <1>2 DEF TypeInv

\* What AssignElement does, in terms of the element and its bucket.
LEMMA AssignStep ==
    ASSUME AssignTypes, NEW a \in Assigners, AssignElement(a)
    PROVE  \E e \in chunk[a] :
             LET b == assigned[e]
                 filled == buffer[a][b] \cup {e}
             IN  /\ e \in Elements /\ b \in Buckets /\ filled \subseteq Elements
                 /\ \/ Flush(a, b, filled)
                    \/ /\ buffer' = [buffer EXCEPT ![a][b] = filled]
                       /\ with_writer' = with_writer
                       /\ Cardinality(filled) < BufferSize
                 /\ chunk' = [chunk EXCEPT ![a] = @ \ {e}]
<1> DEFINE e == CHOOSE x \in chunk[a] : \A y \in chunk[a] : x <= y
           b == assigned[e]
           filled == buffer[a][b] \cup {e}
<1>1. chunk[a] \in SUBSET Elements /\ chunk[a] # {}
  BY DEF AssignElement, AssignTypes
<1>2. e \in chunk[a]
  BY <1>1, FirstElement
<1>3. chunk' = [chunk EXCEPT ![a] = @ \ {e}]
  BY DEF AssignElement
<1>4. \/ Flush(a, b, filled)
      \/ /\ Cardinality(filled) # BufferSize
         /\ buffer' = [buffer EXCEPT ![a][b] = filled]
         /\ with_writer' = with_writer
  BY DEF AssignElement
<1> HIDE DEF e
<1>5. e \in Elements /\ b \in Buckets /\ filled \subseteq Elements
  BY <1>1, <1>2 DEF AssignTypes
<1>6. Cardinality(filled) # BufferSize => Cardinality(filled) < BufferSize
  <2>1. buffer[a][b] \in SUBSET Elements /\ Cardinality(buffer[a][b]) < BufferSize
    BY <1>5 DEF AssignTypes
  <2>2. IsFiniteSet(buffer[a][b])
    BY <2>1, ElementsFinite, FS_Subset
  <2>3. /\ Cardinality(buffer[a][b]) \in Nat
        /\ \/ Cardinality(filled) = Cardinality(buffer[a][b])
           \/ Cardinality(filled) = Cardinality(buffer[a][b]) + 1
    BY <2>2, FS_CardinalityType, FS_AddElement
  <2> QED BY <2>1, <2>3, Sizes
<1> QED BY <1>2, <1>3, <1>4, <1>5, <1>6

\* A buffer is emptied when it is handed over.
LEMMA FlushTypes ==
    ASSUME AssignTypes, NEW a \in Assigners, NEW b \in Buckets,
           NEW full \in SUBSET Elements, Flush(a, b, full)
    PROVE  /\ buffer' \in [Assigners -> [Buckets -> SUBSET Elements]]
           /\ \A x \in Assigners : \A y \in Buckets : Cardinality(buffer'[x][y]) < BufferSize
           /\ with_writer' \in [Buckets -> SUBSET SUBSET Elements]
<1>1. with_writer' \in [Buckets -> SUBSET SUBSET Elements]
  BY DEF Flush, AssignTypes
<1>2. buffer' \in [Assigners -> [Buckets -> SUBSET Elements]]
  BY DEF Flush, AssignTypes
<1>3. \A x \in Assigners : \A y \in Buckets :
        buffer'[x][y] = IF x = a /\ y = b THEN {} ELSE buffer[x][y]
  BY DEF Flush, AssignTypes
<1>4. \A x \in Assigners : \A y \in Buckets : Cardinality(buffer'[x][y]) < BufferSize
  BY <1>3, FS_EmptySet, Sizes DEF AssignTypes
<1> QED BY <1>1, <1>2, <1>4

\* Every step of phase 1 keeps the types of phase 1; those of phase 2 do not
\* touch them.
LEMMA AssignTypesNext == AssignTypes /\ [Next]_vars => AssignTypes'
<1> SUFFICES ASSUME AssignTypes, [Next]_vars PROVE AssignTypes'
  OBVIOUS
<1>1. ASSUME NEW a \in Assigners, PollChunk(a) PROVE AssignTypes'
  <2>1. PICK ch \in unread : /\ unread' = unread \ {ch}
                             /\ chunk' = [chunk EXCEPT ![a] = ElementsOf(ch)]
    BY <1>1 DEF PollChunk
  <2>2. ElementsOf(ch) \subseteq Elements
    BY <2>1, ElementsFinite DEF AssignTypes
  <2> QED BY <1>1, <2>1, <2>2 DEF PollChunk, AssignTypes
<1>2. ASSUME NEW a \in Assigners, PollEnd(a) \/ ChunkDone(a) \/ AssignerDone(a)
      PROVE  AssignTypes'
  BY <1>2 DEF PollEnd, ChunkDone, AssignerDone, AssignTypes
<1>3. ASSUME NEW a \in Assigners, AssignElement(a) PROVE AssignTypes'
  <2>1. PICK e \in chunk[a] :
          LET b == assigned[e]
              filled == buffer[a][b] \cup {e}
          IN  /\ e \in Elements /\ b \in Buckets /\ filled \subseteq Elements
              /\ \/ Flush(a, b, filled)
                 \/ /\ buffer' = [buffer EXCEPT ![a][b] = filled]
                    /\ with_writer' = with_writer
                    /\ Cardinality(filled) < BufferSize
              /\ chunk' = [chunk EXCEPT ![a] = @ \ {e}]
    BY <1>3, AssignStep
  <2> DEFINE b == assigned[e]
             filled == buffer[a][b] \cup {e}
  <2>2. chunk' \in [Assigners -> SUBSET Elements]
    BY <2>1 DEF AssignTypes
  <2>3. CASE Flush(a, b, filled)
    BY <1>3, <2>1, <2>2, <2>3, FlushTypes DEF AssignElement, AssignTypes
  <2>4. CASE /\ buffer' = [buffer EXCEPT ![a][b] = filled]
             /\ with_writer' = with_writer
             /\ Cardinality(filled) < BufferSize
    <3>1. buffer' \in [Assigners -> [Buckets -> SUBSET Elements]]
      BY <2>1, <2>4 DEF AssignTypes
    <3>2. \A x \in Assigners : \A y \in Buckets :
            buffer'[x][y] = IF x = a /\ y = b THEN filled ELSE buffer[x][y]
      BY <2>1, <2>4 DEF AssignTypes
    <3> HIDE DEF filled, b
    <3>3. \A x \in Assigners : \A y \in Buckets : Cardinality(buffer'[x][y]) < BufferSize
      BY <2>4, <3>2 DEF AssignTypes
    <3> QED BY <1>3, <2>2, <2>4, <3>1, <3>3 DEF AssignElement, AssignTypes
  <2> QED BY <2>1, <2>3, <2>4
<1>4. ASSUME NEW a \in Assigners, FlushRest(a) PROVE AssignTypes'
  <2>1. PICK b \in Buckets : Flush(a, b, buffer[a][b])
    BY <1>4 DEF FlushRest
  <2>2. buffer[a][b] \in SUBSET Elements
    BY DEF AssignTypes
  <2> QED BY <1>4, <2>1, <2>2, FlushTypes DEF FlushRest, AssignTypes
<1>5. CASE WriteBuffer
  BY <1>5 DEF WriteBuffer, AssignTypes
<1>6. CASE UNCHANGED phase1
  BY <1>6 DEF phase1, AssignTypes
<1>7. BeginPhase2 \/ Return \/ UNCHANGED vars => UNCHANGED phase1
  BY DEF BeginPhase2, Return, vars
<1>8. \A w \in Workers : Worker(w) \/ Complete(w) => UNCHANGED phase1
  BY DEF Worker, Exit, ReapRead, SubmitRead, Process, ReapWrite, SubmitWrite,
         Complete, CompleteRead, CompleteWrite
<1> QED
  BY <1>1, <1>2, <1>3, <1>4, <1>5, <1>6, <1>7, <1>8 DEF Next, Assigner

-----------------------------------------------------------------------------
(* Phase 1: no element is lost or assigned twice                           *)

\* What changes when one buffer of one assigner does.
LEMMA BufferChanged ==
    ASSUME AssignTypes, NEW a \in Assigners, NEW b \in Buckets, NEW new,
           buffer' = [buffer EXCEPT ![a][b] = new], NEW e
    PROVE  InBuffer(e)' = IF e \in new THEN InBuffer(e) \cup {<<a, b>>}
                          ELSE InBuffer(e) \ {<<a, b>>}
<1>1. \A x \in Assigners : \A y \in Buckets :
        buffer'[x][y] = IF x = a /\ y = b THEN new ELSE buffer[x][y]
  BY DEF AssignTypes
<1>2. \A x \in Assigners : \A y \in Buckets :
        <<x, y>> \in InBuffer(e)' <=> e \in buffer'[x][y]
  BY DEF InBuffer
<1>3. \A x \in Assigners : \A y \in Buckets :
        <<x, y>> \in InBuffer(e) <=> e \in buffer[x][y]
  BY DEF InBuffer
<1>4. InBuffer(e) \subseteq Assigners \X Buckets /\ InBuffer(e)' \subseteq Assigners \X Buckets
  BY DEF InBuffer
<1>5. \A x \in Assigners : \A y \in Buckets :
        /\ x = a /\ y = b => (<<x, y>> \in InBuffer(e)' <=> e \in new)
        /\ ~(x = a /\ y = b) => (<<x, y>> \in InBuffer(e)' <=> <<x, y>> \in InBuffer(e))
  <2> SUFFICES ASSUME NEW x \in Assigners, NEW y \in Buckets
               PROVE  /\ x = a /\ y = b => (<<x, y>> \in InBuffer(e)' <=> e \in new)
                      /\ ~(x = a /\ y = b) =>
                            (<<x, y>> \in InBuffer(e)' <=> <<x, y>> \in InBuffer(e))
    OBVIOUS
  <2>1. buffer'[x][y] = IF x = a /\ y = b THEN new ELSE buffer[x][y]
    BY <1>1
  <2>2. <<x, y>> \in InBuffer(e)' <=> e \in buffer'[x][y]
    BY <1>2
  <2>3. <<x, y>> \in InBuffer(e) <=> e \in buffer[x][y]
    BY <1>3
  <2> QED BY <2>1, <2>2, <2>3
<1>6. \A p \in Assigners \X Buckets :
        /\ p = <<a, b>> => (p \in InBuffer(e)' <=> e \in new)
        /\ p # <<a, b>> => (p \in InBuffer(e)' <=> p \in InBuffer(e))
  BY <1>5
<1>7. <<a, b>> \in Assigners \X Buckets
  OBVIOUS
<1> QED BY <1>4, <1>6, <1>7

\* The same for a buffer that is emptied.
LEMMA BufferEmptied ==
    ASSUME AssignTypes, NEW a \in Assigners, NEW b \in Buckets,
           buffer' = [buffer EXCEPT ![a][b] = {}], NEW e
    PROVE  InBuffer(e)' = InBuffer(e) \ {<<a, b>>}
<1> DEFINE new == {}
<1>1. buffer' = [buffer EXCEPT ![a][b] = new] /\ e \notin new
  OBVIOUS
<1> HIDE DEF new
<1> QED BY <1>1, BufferChanged

\* What changes when the writer is given a buffer.
LEMMA WriterGiven ==
    ASSUME AssignTypes, NEW b \in Buckets, NEW full,
           with_writer' = [with_writer EXCEPT ![b] = @ \cup {full}], NEW e
    PROVE  WithWriter(e)' = IF e \in full THEN WithWriter(e) \cup {full} ELSE WithWriter(e)
<1>1. \A y \in Buckets :
        with_writer'[y] = IF y = b THEN with_writer[y] \cup {full} ELSE with_writer[y]
  BY DEF AssignTypes
<1>2. \A x : x \in UNION {with_writer'[y] : y \in Buckets}
               <=> x = full \/ x \in UNION {with_writer[y] : y \in Buckets}
  BY <1>1
<1> QED BY <1>2 DEF WithWriter

\* A polled chunk goes from the reader to one assigner.
LEMMA PollChunkPlaces ==
    ASSUME AssignTypes, PlaceInv, PhaseInv, NEW a \in Assigners, PollChunk(a)
    PROVE  PlaceInv'
<1>1. PICK ch \in unread : /\ unread' = unread \ {ch}
                           /\ chunk' = [chunk EXCEPT ![a] = ElementsOf(ch)]
  BY DEF PollChunk
<1>2. UNCHANGED <<buffer, with_writer, intermediate>> /\ chunk[a] = {}
  BY DEF PollChunk, PhaseInv
<1>3. \A x \in Assigners : chunk'[x] = IF x = a THEN ElementsOf(ch) ELSE chunk[x]
  BY <1>1 DEF AssignTypes
<1> SUFFICES ASSUME NEW e \in Elements PROVE \E place : PlacesOf(e)' = {place}
  BY DEF PlaceInv
<1>4. PICK place : PlacesOf(e) = {place}
  BY DEF PlaceInv
<1>5. UNCHANGED <<InBuffer(e), WithWriter(e), InFile(e)>>
  BY <1>2 DEF InBuffer, WithWriter, InFile
<1>6. CASE e \in ElementsOf(ch)
  <2>1. <<"unread", ch>> \in PlacesOf(e)
    BY <1>6 DEF PlacesOf, Unread
  <2>2. Unread(e)' = Unread(e) \ {ch} /\ InChunk(e)' = InChunk(e) \cup {a}
    BY <1>1, <1>3, <1>6 DEF Unread, InChunk
  <2>3. PlacesOf(e)' = (PlacesOf(e) \ {<<"unread", ch>>}) \cup {<<"chunk", a>>}
    BY <1>5, <2>2 DEF PlacesOf
  <2> QED BY <1>4, <2>1, <2>3
<1>7. CASE e \notin ElementsOf(ch)
  <2>1. Unread(e)' = Unread(e) /\ InChunk(e)' = InChunk(e)
    BY <1>1, <1>2, <1>3, <1>7 DEF Unread, InChunk
  <2>2. PlacesOf(e)' = PlacesOf(e)
    BY <1>5, <2>1 DEF PlacesOf
  <2> QED BY <1>4, <2>2
<1> QED BY <1>6, <1>7

\* An element goes from the chunk to a buffer, or with a buffer to the writer.
LEMMA AssignElementPlaces ==
    ASSUME AssignTypes, PlaceInv, NEW a \in Assigners, AssignElement(a)
    PROVE  PlaceInv'
<1>1. PICK x \in chunk[a] :
        LET b == assigned[x]
            filled == buffer[a][b] \cup {x}
        IN  /\ x \in Elements /\ b \in Buckets /\ filled \subseteq Elements
            /\ \/ Flush(a, b, filled)
               \/ /\ buffer' = [buffer EXCEPT ![a][b] = filled]
                  /\ with_writer' = with_writer
                  /\ Cardinality(filled) < BufferSize
            /\ chunk' = [chunk EXCEPT ![a] = @ \ {x}]
  BY AssignStep
<1> DEFINE b == assigned[x]
           filled == buffer[a][b] \cup {x}
           ab == <<a, b>>
<1>2. UNCHANGED <<unread, intermediate>> /\ b \in Buckets
  BY <1>1 DEF AssignElement
<1>3. \A e : InChunk(e)' = IF e = x THEN InChunk(e) \ {a} ELSE InChunk(e)
  BY <1>1 DEF AssignTypes, InChunk
<1>4. <<"chunk", a>> \in PlacesOf(x)
  BY DEF PlacesOf, InChunk
<1>5. PlacesOf(x) = {<<"chunk", a>>}
  BY <1>1, <1>4 DEF PlaceInv
<1>6. ab \in InBuffer(x) => <<"buffer", ab>> \in PlacesOf(x)
  BY DEF PlacesOf
<1>7. ab \notin InBuffer(x)
  BY <1>5, <1>6
<1> SUFFICES ASSUME NEW e \in Elements PROVE \E place : PlacesOf(e)' = {place}
  BY DEF PlaceInv
<1>8. PICK place : PlacesOf(e) = {place}
  BY DEF PlaceInv
<1>9. UNCHANGED <<Unread(e), InFile(e)>>
  BY <1>2 DEF Unread, InFile
<1>10. e \in buffer[a][b] <=> ab \in InBuffer(e)
  BY <1>2 DEF InBuffer
<1>11. e \in filled <=> e = x \/ ab \in InBuffer(e)
  BY <1>10
<1> HIDE DEF b, filled
<1>12. CASE Flush(a, b, filled)
  <2>1. WithWriter(e)' = IF e \in filled THEN WithWriter(e) \cup {filled} ELSE WithWriter(e)
    BY <1>2, <1>12, WriterGiven DEF Flush
  <2>2. InBuffer(e)' = InBuffer(e) \ {ab}
    BY <1>2, <1>12, BufferEmptied DEF Flush
  <2> HIDE DEF ab
  <2>3. CASE e = x
    <3>1. PlacesOf(e)' = (PlacesOf(e) \ {<<"chunk", a>>}) \cup {<<"writer", filled>>}
      BY <1>3, <1>7, <1>9, <1>11, <2>1, <2>2, <2>3 DEF PlacesOf
    <3> QED BY <1>4, <1>8, <2>3, <3>1
  <2>4. CASE e # x /\ ab \in InBuffer(e)
    <3>1. <<"buffer", ab>> \in PlacesOf(e)
      BY <2>4 DEF PlacesOf
    <3>2. PlacesOf(e)' = (PlacesOf(e) \ {<<"buffer", ab>>}) \cup {<<"writer", filled>>}
      BY <1>3, <1>9, <1>11, <2>1, <2>2, <2>4 DEF PlacesOf
    <3> QED BY <1>8, <3>1, <3>2
  <2>5. CASE e # x /\ ab \notin InBuffer(e)
    <3>1. PlacesOf(e)' = PlacesOf(e)
      BY <1>3, <1>9, <1>11, <2>1, <2>2, <2>5 DEF PlacesOf
    <3> QED BY <1>8, <3>1
  <2> QED BY <2>3, <2>4, <2>5
<1>13. CASE /\ buffer' = [buffer EXCEPT ![a][b] = filled]
            /\ with_writer' = with_writer
  <2>1. InBuffer(e)' = IF e \in filled THEN InBuffer(e) \cup {ab} ELSE InBuffer(e) \ {ab}
    BY <1>2, <1>13, BufferChanged, ZenonT(30)
  <2>2. WithWriter(e)' = WithWriter(e)
    BY <1>13 DEF WithWriter
  <2> HIDE DEF ab
  <2>3. CASE e = x
    <3>1. PlacesOf(e)' = (PlacesOf(e) \ {<<"chunk", a>>}) \cup {<<"buffer", ab>>}
      BY <1>3, <1>9, <1>11, <2>1, <2>2, <2>3 DEF PlacesOf
    <3> QED BY <1>4, <1>8, <2>3, <3>1
  <2>4. CASE e # x
    <3>1. InBuffer(e)' = InBuffer(e)
      BY <1>11, <2>1, <2>4
    <3>2. PlacesOf(e)' = PlacesOf(e)
      BY <1>3, <1>9, <2>2, <2>4, <3>1 DEF PlacesOf
    <3> QED BY <1>8, <3>2
  <2> QED BY <2>3, <2>4
<1> QED BY <1>1, <1>12, <1>13 DEF b, filled

\* What is left in a buffer goes to the writer.
LEMMA FlushRestPlaces ==
    ASSUME AssignTypes, PlaceInv, NEW a \in Assigners, FlushRest(a)
    PROVE  PlaceInv'
<1>1. PICK b \in Buckets : Flush(a, b, buffer[a][b])
  BY DEF FlushRest
<1> DEFINE full == buffer[a][b]
           ab == <<a, b>>
<1>2. UNCHANGED <<unread, chunk, intermediate>>
  BY DEF FlushRest
<1> SUFFICES ASSUME NEW e \in Elements PROVE \E place : PlacesOf(e)' = {place}
  BY DEF PlaceInv
<1>3. PICK place : PlacesOf(e) = {place}
  BY DEF PlaceInv
<1>4. UNCHANGED <<Unread(e), InChunk(e), InFile(e)>>
  BY <1>2 DEF Unread, InChunk, InFile
<1>5. e \in full <=> ab \in InBuffer(e)
  BY DEF InBuffer
<1> HIDE DEF full
<1>6. WithWriter(e)' = IF e \in full THEN WithWriter(e) \cup {full} ELSE WithWriter(e)
  BY <1>1, WriterGiven DEF Flush, full
<1>7. InBuffer(e)' = InBuffer(e) \ {ab}
  BY <1>1, BufferEmptied DEF Flush
<1> HIDE DEF ab
<1>8. CASE e \in full
  <2>1. <<"buffer", ab>> \in PlacesOf(e)
    BY <1>5, <1>8 DEF PlacesOf
  <2>2. PlacesOf(e)' = (PlacesOf(e) \ {<<"buffer", ab>>}) \cup {<<"writer", full>>}
    BY <1>4, <1>6, <1>7, <1>8 DEF PlacesOf
  <2> QED BY <1>3, <2>1, <2>2
<1>9. CASE e \notin full
  <2>1. PlacesOf(e)' = PlacesOf(e)
    BY <1>4, <1>5, <1>6, <1>7, <1>9 DEF PlacesOf
  <2> QED BY <1>3, <2>1
<1> QED BY <1>8, <1>9

\* A buffer that is written is in the file of its bucket, and in no other.
LEMMA WriteBufferPlaces ==
    ASSUME AssignTypes, PlaceInv, BucketInv, WriteBuffer
    PROVE  PlaceInv'
<1>1. PICK b \in Buckets : \E full \in with_writer[b] :
        /\ with_writer' = [with_writer EXCEPT ![b] = @ \ {full}]
        /\ intermediate' = [intermediate EXCEPT ![b] = @ \cup full]
  BY DEF WriteBuffer
<1>2. PICK full \in with_writer[b] :
        /\ with_writer' = [with_writer EXCEPT ![b] = @ \ {full}]
        /\ intermediate' = [intermediate EXCEPT ![b] = @ \cup full]
  BY <1>1
<1>3. UNCHANGED <<unread, chunk, buffer>>
  BY DEF WriteBuffer
<1>4. \A y \in Buckets :
        /\ with_writer'[y] = IF y = b THEN with_writer[y] \ {full} ELSE with_writer[y]
        /\ intermediate'[y] = IF y = b THEN intermediate[y] \cup full ELSE intermediate[y]
  BY <1>2 DEF AssignTypes
<1> SUFFICES ASSUME NEW e \in Elements PROVE \E place : PlacesOf(e)' = {place}
  BY DEF PlaceInv
<1>5. PICK place : PlacesOf(e) = {place}
  BY DEF PlaceInv
<1>6. UNCHANGED <<Unread(e), InChunk(e), InBuffer(e)>>
  BY <1>3 DEF Unread, InChunk, InBuffer
<1>7. CASE e \in full
  <2>1. full \in WithWriter(e)
    BY <1>2, <1>7 DEF WithWriter
  <2>2. <<"writer", full>> \in PlacesOf(e)
    BY <2>1 DEF PlacesOf
  <2>3. \A y \in Buckets : full \in with_writer[y] => y = b
    BY <1>2, <1>7 DEF BucketInv
  <2>4. \A x : x \in UNION {with_writer'[y] : y \in Buckets}
                 <=> x # full /\ x \in UNION {with_writer[y] : y \in Buckets}
    BY <1>4, <2>3
  <2>5. WithWriter(e)' = WithWriter(e) \ {full}
    BY <2>4 DEF WithWriter
  <2>6. InFile(e)' = InFile(e) \cup {b}
    BY <1>4, <1>7 DEF InFile
  <2>7. PlacesOf(e)' = (PlacesOf(e) \ {<<"writer", full>>}) \cup {<<"file", b>>}
    BY <1>6, <2>5, <2>6 DEF PlacesOf
  <2> QED BY <1>5, <2>2, <2>7
<1>8. CASE e \notin full
  <2>1. \A x : e \in x => (x \in UNION {with_writer'[y] : y \in Buckets}
                             <=> x \in UNION {with_writer[y] : y \in Buckets})
    BY <1>4, <1>8, ZenonT(30)
  <2>2. WithWriter(e)' = WithWriter(e)
    BY <2>1 DEF WithWriter
  <2>3. InFile(e)' = InFile(e)
    BY <1>4, <1>8 DEF InFile
  <2>4. PlacesOf(e)' = PlacesOf(e)
    BY <1>6, <2>2, <2>3 DEF PlacesOf
  <2> QED BY <1>5, <2>4
<1> QED BY <1>7, <1>8

\* A step that leaves phase 1 alone leaves its places and buckets alone.
LEMMA Phase1Unchanged ==
    ASSUME PlaceInv, BucketInv, UNCHANGED phase1
    PROVE  PlaceInv' /\ BucketInv'
<1>1. \A e : UNCHANGED <<Unread(e), InChunk(e), InBuffer(e), WithWriter(e), InFile(e)>>
  BY DEF phase1, Unread, InChunk, InBuffer, WithWriter, InFile
<1>2. \A e : PlacesOf(e)' = PlacesOf(e)
  BY <1>1 DEF PlacesOf
<1>3. PlaceInv'
  BY <1>2 DEF PlaceInv
<1>4. BucketInv'
  BY DEF phase1, BucketInv
<1> QED BY <1>3, <1>4

\* Which steps leave phase 1 alone.
LEMMA Phase2Steps ==
    /\ BeginPhase2 \/ Return \/ UNCHANGED vars => UNCHANGED phase1
    /\ \A w \in Workers : Worker(w) \/ Complete(w) => UNCHANGED <<phase, phase1>>
BY DEF BeginPhase2, Return, vars, Worker, Exit, ReapRead, SubmitRead, Process, ReapWrite,
       SubmitWrite, Complete, CompleteRead, CompleteWrite

\* Every step leaves each element in one place.
LEMMA PlaceInvNext == AssignTypes /\ AssignInv /\ [Next]_vars => PlaceInv'
<1> SUFFICES ASSUME AssignTypes, AssignInv, [Next]_vars PROVE PlaceInv'
  OBVIOUS
<1> USE DEF AssignInv
<1>1. ASSUME NEW a \in Assigners, PollEnd(a) \/ ChunkDone(a) \/ AssignerDone(a)
      PROVE  PlaceInv'
  <2>1. \A e : UNCHANGED <<Unread(e), InChunk(e), InBuffer(e), WithWriter(e), InFile(e)>>
    BY <1>1 DEF PollEnd, ChunkDone, AssignerDone, Unread, InChunk, InBuffer, WithWriter, InFile
  <2>2. \A e : PlacesOf(e)' = PlacesOf(e)
    BY <2>1 DEF PlacesOf
  <2> QED BY <2>2 DEF PlaceInv
<1> QED
  BY <1>1, PollChunkPlaces, AssignElementPlaces, FlushRestPlaces, WriteBufferPlaces,
     Phase1Unchanged, Phase2Steps
     DEF Next, Assigner

\* Every step keeps the elements with their buckets.
LEMMA BucketInvNext == AssignTypes /\ AssignInv /\ [Next]_vars => BucketInv'
<1> SUFFICES ASSUME AssignTypes, AssignInv, [Next]_vars PROVE BucketInv'
  OBVIOUS
<1> USE DEF AssignInv
<1>1. ASSUME NEW a \in Assigners,
             PollChunk(a) \/ PollEnd(a) \/ ChunkDone(a) \/ AssignerDone(a)
      PROVE  BucketInv'
  BY <1>1 DEF PollChunk, PollEnd, ChunkDone, AssignerDone, BucketInv
<1>2. ASSUME NEW a \in Assigners, NEW b \in Buckets, NEW full,
             \A e \in full : assigned[e] = b, Flush(a, b, full),
             UNCHANGED <<assigned, intermediate>>
      PROVE  BucketInv'
  <2>1. \A x \in Assigners : \A y \in Buckets :
          buffer'[x][y] = IF x = a /\ y = b THEN {} ELSE buffer[x][y]
    BY <1>2 DEF Flush, AssignTypes
  <2>2. \A y \in Buckets :
          with_writer'[y] = IF y = b THEN with_writer[y] \cup {full} ELSE with_writer[y]
    BY <1>2 DEF Flush, AssignTypes
  <2>3. UNCHANGED <<assigned, intermediate>>
    BY <1>2
  <2>4. \A x \in Assigners : \A y \in Buckets : \A e \in buffer'[x][y] : assigned'[e] = y
    BY <2>1, <2>3 DEF BucketInv
  <2>5. \A y \in Buckets : \A old \in with_writer'[y] : \A e \in old : assigned'[e] = y
    <3> SUFFICES ASSUME NEW y \in Buckets, NEW old \in with_writer'[y], NEW e \in old
                 PROVE  assigned[e] = y
      BY <2>3
    <3>1. (y = b /\ old = full) \/ old \in with_writer[y]
      BY <2>2
    <3> QED BY <1>2, <3>1 DEF BucketInv
  <2>6. \A y \in Buckets : \A e \in intermediate'[y] : assigned'[e] = y
    BY <2>3 DEF BucketInv
  <2> QED BY <2>4, <2>5, <2>6 DEF BucketInv
<1>3. ASSUME NEW a \in Assigners, AssignElement(a) PROVE BucketInv'
  <2>1. PICK x \in chunk[a] :
          LET b == assigned[x]
              filled == buffer[a][b] \cup {x}
          IN  /\ x \in Elements /\ b \in Buckets /\ filled \subseteq Elements
              /\ \/ Flush(a, b, filled)
                 \/ /\ buffer' = [buffer EXCEPT ![a][b] = filled]
                    /\ with_writer' = with_writer
                    /\ Cardinality(filled) < BufferSize
              /\ chunk' = [chunk EXCEPT ![a] = @ \ {x}]
    BY <1>3, AssignStep
  <2> DEFINE b == assigned[x]
             filled == buffer[a][b] \cup {x}
  <2>2. b \in Buckets /\ UNCHANGED <<assigned, intermediate>>
    BY <1>3, <2>1 DEF AssignElement
  <2>3. \A e \in filled : assigned[e] = b
    BY <2>2 DEF BucketInv
  <2> HIDE DEF b, filled
  <2>4. CASE Flush(a, b, filled)
    BY <1>2, <2>2, <2>3, <2>4
  <2>5. CASE /\ buffer' = [buffer EXCEPT ![a][b] = filled]
             /\ with_writer' = with_writer
    <3>1. \A y \in Assigners : \A z \in Buckets :
            buffer'[y][z] = IF y = a /\ z = b THEN filled ELSE buffer[y][z]
      BY <2>2, <2>5 DEF AssignTypes
    <3> QED BY <2>2, <2>3, <2>5, <3>1 DEF BucketInv
  <2> QED BY <2>1, <2>4, <2>5 DEF b, filled
<1>4. ASSUME NEW a \in Assigners, FlushRest(a) PROVE BucketInv'
  <2>1. PICK b \in Buckets : Flush(a, b, buffer[a][b])
    BY <1>4 DEF FlushRest
  <2>2. \A e \in buffer[a][b] : assigned[e] = b
    BY DEF BucketInv
  <2> QED BY <1>2, <1>4, <2>1, <2>2 DEF FlushRest
<1>5. CASE WriteBuffer
  <2>1. PICK b \in Buckets : \E full \in with_writer[b] :
          /\ with_writer' = [with_writer EXCEPT ![b] = @ \ {full}]
          /\ intermediate' = [intermediate EXCEPT ![b] = @ \cup full]
    BY <1>5 DEF WriteBuffer
  <2>2. PICK full \in with_writer[b] :
          /\ with_writer' = [with_writer EXCEPT ![b] = @ \ {full}]
          /\ intermediate' = [intermediate EXCEPT ![b] = @ \cup full]
    BY <2>1
  <2>3. \A y \in Buckets :
          /\ with_writer'[y] = IF y = b THEN with_writer[y] \ {full} ELSE with_writer[y]
          /\ intermediate'[y] = IF y = b THEN intermediate[y] \cup full ELSE intermediate[y]
    BY <2>2 DEF AssignTypes
  <2> QED BY <1>5, <2>2, <2>3 DEF WriteBuffer, BucketInv
<1> QED
  BY <1>1, <1>3, <1>4, <1>5, Phase1Unchanged, Phase2Steps DEF Next, Assigner

\* Every step keeps what the assigners and the phases are known to have done.
LEMMA PhaseInvNext == TypeInv /\ AssignInv /\ [Next]_vars => PhaseInv'
<1> SUFFICES ASSUME TypeInv, AssignInv, [Next]_vars PROVE PhaseInv'
  OBVIOUS
<1> USE DEF AssignInv, TypeInv
<1>1. ASSUME NEW a \in Assigners, Assigner(a) PROVE PhaseInv'
  <2>1. phase = 1 /\ UNCHANGED <<phase, current_file, pc>>
    BY <1>1 DEF Assigner, PollChunk, PollEnd, AssignElement, ChunkDone, FlushRest,
                AssignerDone, PhaseInv, Joined, phase2, PipelineTypes
  <2>2. CASE PollChunk(a)
    BY <2>1, <2>2 DEF PollChunk, PhaseInv, AssignTypes
  <2>3. CASE PollEnd(a) \/ ChunkDone(a) \/ AssignerDone(a)
    BY <2>1, <2>3 DEF PollEnd, ChunkDone, AssignerDone, PhaseInv, AssignTypes
  <2>4. ASSUME assigner[a] \in {"assigns", "flushes"},
               UNCHANGED <<assigner, unread>>,
               \A x \in Assigners : x # a => chunk'[x] = chunk[x],
               assigner[a] = "flushes" => chunk'[a] = chunk[a],
               \A x \in Assigners : x # a => buffer'[x] = buffer[x]
        PROVE  PhaseInv'
    BY <2>1, <2>4 DEF PhaseInv, AssignTypes
  <2>5. CASE AssignElement(a)
    <3>1. /\ \A x \in Assigners : x # a => buffer'[x] = buffer[x]
          /\ assigner[a] = "assigns" /\ UNCHANGED <<assigner, unread>>
      BY <2>5 DEF AssignElement, Flush, AssignTypes
    <3>2. \A x \in Assigners : x # a => chunk'[x] = chunk[x]
      BY <2>5 DEF AssignElement, AssignTypes
    <3> QED BY <2>4, <3>1, <3>2
  <2>6. CASE FlushRest(a)
    <3>1. \A x \in Assigners : x # a => buffer'[x] = buffer[x]
      BY <2>6 DEF FlushRest, Flush, AssignTypes
    <3>2. assigner[a] = "flushes" /\ UNCHANGED <<assigner, unread>> /\ chunk' = chunk
      BY <2>6 DEF FlushRest
    <3> QED BY <2>4, <3>1, <3>2
  <2> QED BY <1>1, <2>2, <2>3, <2>5, <2>6 DEF Assigner
<1>2. CASE WriteBuffer
  <2>1. phase = 1
    BY <1>2 DEF WriteBuffer, PhaseInv, Joined, PipelineTypes
  <2> QED BY <1>2, <2>1 DEF WriteBuffer, PhaseInv, phase2
<1>3. CASE BeginPhase2
  BY <1>3 DEF BeginPhase2, phase1, phase2, PhaseInv, Joined
<1>4. CASE Return
  BY <1>4 DEF Return, phase1, phase2, PhaseInv, Joined
<1>5. ASSUME NEW w \in Workers, Worker(w) PROVE PhaseInv'
  <2>1. phase # 1
    BY <1>5 DEF Worker, Exit, ReapRead, SubmitRead, Process, ReapWrite, SubmitWrite, PhaseInv
  <2> QED BY <1>5, <2>1, Phase2Steps DEF phase1, PhaseInv, Joined
<1>6. ASSUME NEW w \in Workers, Complete(w) PROVE PhaseInv'
  <2>1. UNCHANGED <<current_file, pc>>
    BY <1>6 DEF Complete, CompleteRead, CompleteWrite
  <2> QED BY <1>6, <2>1, Phase2Steps DEF phase1, PhaseInv, Joined
<1>7. CASE UNCHANGED vars
  BY <1>7 DEF vars, phase1, phase2, PhaseInv, Joined
<1> QED BY <1>1, <1>2, <1>3, <1>4, <1>5, <1>6, <1>7 DEF Next
\* At the start each element is in the chunk that nobody has polled yet.
LEMMA AssignInvInit == Init => AssignInv
<1> SUFFICES ASSUME Init PROVE AssignInv
  OBVIOUS
<1>1. PlaceInv
  <2> SUFFICES ASSUME NEW e \in Elements PROVE \E place : PlacesOf(e) = {place}
    BY DEF PlaceInv
  <2>1. PICK ch \in Chunks : e \in ElementsOf(ch)
    BY ElementsFinite
  <2>2. Unread(e) = {ch}
    BY <2>1, ChunksParted DEF Init, Unread
  <2>3. InChunk(e) = {} /\ InBuffer(e) = {} /\ WithWriter(e) = {} /\ InFile(e) = {}
    BY DEF Init, InChunk, InBuffer, WithWriter, InFile
  <2>4. PlacesOf(e) = {<<"unread", ch>>}
    BY <2>2, <2>3 DEF PlacesOf
  <2> QED BY <2>4
<1>2. BucketInv /\ PhaseInv
  BY DEF Init, BucketInv, PhaseInv
<1> QED BY <1>1, <1>2 DEF AssignInv

-----------------------------------------------------------------------------
(* Phase 2: types and jobs                                                 *)

\* A step of one worker, or of the kernel for it, is no business of another.
LEMMA OtherWorkers ==
    ASSUME TypeInv, NEW w \in Workers, Worker(w) \/ Complete(w),
           NEW v \in Workers, v # w
    PROVE  /\ UNCHANGED <<ReadFile(v), FileInHand(v), WrittenFile(v)>>
           /\ UNCHANGED <<pc[v], read_ring[v], write_ring[v], need_reap_read[v],
                          need_submit_read[v], need_reap_write[v]>>
<1>1. /\ pc'[v] = pc[v]
      /\ previous'[v] = previous[v] /\ current'[v] = current[v] /\ next'[v] = next[v]
      /\ need_reap_read'[v] = need_reap_read[v]
      /\ need_submit_read'[v] = need_submit_read[v]
      /\ need_process'[v] = need_process[v]
      /\ need_reap_write'[v] = need_reap_write[v]
      /\ need_submit_write'[v] = need_submit_write[v]
      /\ read_ring'[v] = read_ring[v] /\ write_ring'[v] = write_ring[v]
  <2> USE DEF Goto, slots, needs, rings, TypeInv, PipelineTypes
  <2>1. CASE Exit(w) \/ ReapRead(w)
    BY <2>1 DEF Exit, ReapRead, Rotate, ReapOne
  <2>2. CASE SubmitRead(w) \/ Process(w)
    BY <2>2 DEF SubmitRead, Process, ReapNextTime
  <2>3. CASE ReapWrite(w) \/ SubmitWrite(w)
    BY <2>3 DEF ReapWrite, SubmitWrite, ReapOne
  <2>4. CASE CompleteRead(w) \/ CompleteWrite(w)
    BY <2>4 DEF CompleteRead, CompleteWrite
  <2> QED BY <2>1, <2>2, <2>3, <2>4 DEF Worker, Complete
<1> QED BY <1>1 DEF ReadFile, FileInHand, WrittenFile

\* Where each step of a worker takes its files.
LEMMA ReapReadJobs ==
    ASSUME TypeInv, NEW w \in Workers, ReapRead(w)
    PROVE  /\ FileInHand(w) = {}
           /\ ReadFile(w)' = {} /\ FileInHand(w)' = ReadFile(w)
           /\ WrittenFile(w)' = WrittenFile(w)
<1>1. /\ pc[w] = "top" /\ pc'[w] = "read"
      /\ previous'[w] = current[w] /\ current'[w] = next[w]
      /\ need_process'[w] = need_reap_read[w] /\ need_reap_write' = need_reap_write
  BY DEF ReapRead, Rotate, Goto, TypeInv, PipelineTypes
<1> QED BY <1>1 DEF ReadFile, FileInHand, WrittenFile

LEMMA SubmitReadJobs ==
    ASSUME TypeInv, NEW w \in Workers, SubmitRead(w)
    PROVE  /\ ReadFile(w) = {}
           /\ ReadFile(w)' = {f \in {current_file} : need_submit_read[w] /\ current_file < NumBuckets}
           /\ FileInHand(w)' = FileInHand(w) /\ WrittenFile(w)' = WrittenFile(w)
<1> DEFINE reads == need_submit_read[w] /\ current_file < NumBuckets
<1>1. /\ pc[w] = "read" /\ pc'[w] = "process"
      /\ need_reap_read'[w] = reads
      /\ reads => next'[w] = current_file
      /\ UNCHANGED <<previous, current, need_process, need_reap_write>>
  BY DEF SubmitRead, ReapNextTime, Goto, TypeInv, PipelineTypes
<1> QED BY <1>1 DEF ReadFile, FileInHand, WrittenFile

LEMMA ProcessJobs ==
    ASSUME TypeInv, NEW w \in Workers, Process(w)
    PROVE  UNCHANGED <<ReadFile(w), FileInHand(w), WrittenFile(w)>>
<1>1. /\ pc[w] = "process" /\ pc'[w] = "reap_write"
      /\ need_submit_write'[w] = need_process[w]
      /\ UNCHANGED <<previous, current, next, need_reap_read, need_process, need_reap_write>>
  BY DEF Process, Goto, slots, TypeInv, PipelineTypes
<1> QED BY <1>1 DEF ReadFile, FileInHand, WrittenFile

LEMMA ReapWriteJobs ==
    ASSUME TypeInv, NEW w \in Workers, ReapWrite(w)
    PROVE  /\ UNCHANGED <<ReadFile(w), FileInHand(w)>>
           /\ WrittenFile(w) = {f \in {previous[w]} : need_reap_write[w]}
           /\ WrittenFile(w)' = {}
<1>1. /\ pc[w] = "reap_write" /\ pc'[w] = "write"
      /\ UNCHANGED <<slots, needs>>
  BY DEF ReapWrite, Goto, TypeInv, PipelineTypes
<1> QED BY <1>1 DEF ReadFile, FileInHand, WrittenFile, slots, needs

LEMMA SubmitWriteJobs ==
    ASSUME TypeInv, NEW w \in Workers, SubmitWrite(w)
    PROVE  /\ ReadFile(w)' = ReadFile(w)
           /\ FileInHand(w) = {f \in {current[w]} : need_submit_write[w]}
           /\ FileInHand(w)' = {} /\ WrittenFile(w) = {} /\ WrittenFile(w)' = FileInHand(w)
<1>1. /\ pc[w] = "write" /\ pc'[w] = "top"
      /\ need_reap_write'[w] = need_submit_write[w]
      /\ UNCHANGED <<slots, need_reap_read, need_submit_write>>
  BY DEF SubmitWrite, Goto, TypeInv, PipelineTypes
<1> QED BY <1>1 DEF ReadFile, FileInHand, WrittenFile, slots

LEMMA ExitJobs ==
    ASSUME TypeInv, FlagsInv, NEW w \in Workers, Exit(w)
    PROVE  /\ ReadFile(w) = {} /\ FileInHand(w) = {} /\ WrittenFile(w) = {}
           /\ UNCHANGED <<ReadFile(w), FileInHand(w), WrittenFile(w)>>
<1>1. /\ pc[w] = "top" /\ pc'[w] = "exited"
      /\ ~need_reap_read[w] /\ ~need_reap_write[w]
      /\ UNCHANGED <<slots, needs>>
  BY DEF Exit, GoesOn, Goto, FlagsInv, TypeInv, PipelineTypes
<1> QED BY <1>1 DEF ReadFile, FileInHand, WrittenFile, slots, needs

LEMMA CompleteJobs ==
    ASSUME NEW w \in Workers, Complete(w)
    PROVE  UNCHANGED <<ReadFile(w), FileInHand(w), WrittenFile(w)>>
BY DEF Complete, CompleteRead, CompleteWrite, slots, needs, ReadFile, FileInHand, WrittenFile

\* Every step keeps the types of phase 2: a file that is processed, or whose
\* write is reaped, is one of the files.
LEMMA PipelineTypesNext == TypeInv /\ JobsInv /\ [Next]_vars => PipelineTypes'
<1> SUFFICES ASSUME TypeInv, JobsInv, [Next]_vars PROVE PipelineTypes'
  OBVIOUS
<1> USE DEF TypeInv
<1>1. CASE UNCHANGED phase2 /\ phase' \in 1..3
  BY <1>1 DEF phase2, slots, needs, memory, rings, PipelineTypes
<1>2. ASSUME NEW w \in Workers, Exit(w) \/ ReapRead(w) \/ SubmitWrite(w)
      PROVE  PipelineTypes'
  <2>1. \A f \in FileInHand(w) : f \in Buckets
    BY DEF JobsInv, Jobs
  <2>2. SubmitWrite(w) /\ need_submit_write[w] => current[w] \in Buckets
    BY <2>1, SubmitWriteJobs
  <2>3. CASE Exit(w)
    BY <2>3 DEF Exit, Goto, slots, needs, memory, rings, Places, PipelineTypes
  <2>4. CASE ReapRead(w)
    <3>1. read_ring[w] \in Ring /\ need_reap_read[w] \in BOOLEAN
      BY DEF PipelineTypes
    <3>2. [read_ring[w] EXCEPT !.completed = {}] \in Ring
      BY <3>1 DEF Ring
    <3>3. read_ring' \in [Workers -> Ring]
      BY <2>4, <3>2 DEF ReapRead, ReapOne, PipelineTypes
    <3> QED BY <2>4, <3>1, <3>3 DEF ReapRead, Rotate, Goto, memory, Places, PipelineTypes
  <2>5. CASE SubmitWrite(w)
    <3>1. write_ring[w] \in Ring /\ need_submit_write[w] \in BOOLEAN
      BY DEF PipelineTypes
    <3>2. need_submit_write[w] => [write_ring[w] EXCEPT !.submitted = @ \cup {current[w]}] \in Ring
      BY <2>2, <2>5, <3>1 DEF Ring
    <3>3. write_ring' \in [Workers -> Ring]
      BY <2>5, <3>2 DEF SubmitWrite, PipelineTypes
    <3> QED BY <2>5, <3>1, <3>3 DEF SubmitWrite, Goto, slots, memory, Places, PipelineTypes
  <2> QED BY <1>2, <2>3, <2>4, <2>5
<1>3. ASSUME NEW w \in Workers, SubmitRead(w) PROVE PipelineTypes'
  <2> DEFINE reads == need_submit_read[w] /\ current_file < NumBuckets
  <2>1. reads \in BOOLEAN /\ current_file + 1 \in Nat /\ (reads => current_file \in Buckets)
    BY Sizes DEF PipelineTypes
  <2>2. Empty("reading") \in Memory
    BY DEF Empty, Memory, States
  <2>3. /\ next' \in [Workers -> Buckets \cup {NoFile}] /\ data' \in [Buckets -> Memory]
        /\ read_ring' \in [Workers -> Ring]
    <3>1. CASE reads
      <4>1. [read_ring[w] EXCEPT !.submitted = @ \cup {current_file}] \in Ring
        <5>1. read_ring[w] \in Ring
          BY DEF PipelineTypes
        <5>2. read_ring[w].submitted \cup {current_file} \in SUBSET Buckets
          BY <2>1, <3>1, <5>1 DEF Ring
        <5> QED BY <5>1, <5>2 DEF Ring
      <4>2. read_ring' \in [Workers -> Ring]
        BY <1>3, <3>1, <4>1 DEF SubmitRead, PipelineTypes
      <4>3. next' \in [Workers -> Buckets \cup {NoFile}]
        BY <1>3, <2>1, <3>1 DEF SubmitRead, PipelineTypes
      <4>4. data' \in [Buckets -> Memory]
        BY <1>3, <2>1, <2>2, <3>1 DEF SubmitRead, PipelineTypes
      <4> QED BY <4>2, <4>3, <4>4
    <3>2. CASE ~reads
      BY <1>3, <3>2 DEF SubmitRead, PipelineTypes
    <3> QED BY <3>1, <3>2
  <2> QED BY <1>3, <2>1, <2>3 DEF SubmitRead, ReapNextTime, Goto, Places, PipelineTypes
<1>4. ASSUME NEW w \in Workers, Process(w) PROVE PipelineTypes'
  <2> DEFINE f == current[w]
             left == IF data[f].state = "read" THEN "processed" ELSE "spoilt"
  <2>1. need_process[w] \in BOOLEAN /\ (need_process[w] => f \in Buckets)
    BY <1>4 DEF Process, FileInHand, JobsInv, Jobs, PipelineTypes
  <2>2. need_process[w] => [data[f] EXCEPT !.state = left] \in Memory
    BY <2>1 DEF Memory, States, PipelineTypes
  <2>3. data' = IF need_process[w] THEN [data EXCEPT ![f] = [data[f] EXCEPT !.state = left]] ELSE data
    BY <1>4 DEF Process, ProcessedFile
  <2>4. data' \in [Buckets -> Memory]
    BY <2>1, <2>2, <2>3 DEF PipelineTypes
  <2> QED BY <1>4, <2>1, <2>4 DEF Process, Goto, slots, rings, Places, PipelineTypes
<1>5. ASSUME NEW w \in Workers, ReapWrite(w) PROVE PipelineTypes'
  <2>1. need_reap_write[w] => previous[w] \in Buckets
    BY <1>5, ReapWriteJobs DEF JobsInv, Jobs
  <2>2. Empty("freed") \in Memory /\ Empty("spoilt") \in Memory
    BY DEF Empty, Memory, States
  <2>3. data' \in [Buckets -> Memory] /\ results' \subseteq Buckets
    BY <1>5, <2>1, <2>2 DEF ReapWrite, PipelineTypes
  <2>4. write_ring' \in [Workers -> Ring]
    <3>1. [write_ring[w] EXCEPT !.completed = {}] \in Ring
      BY DEF Ring, PipelineTypes
    <3> QED BY <1>5, <3>1 DEF ReapWrite, ReapOne, PipelineTypes
  <2> QED BY <1>5, <2>3, <2>4 DEF ReapWrite, Goto, slots, needs, Places, PipelineTypes
<1>6. ASSUME NEW w \in Workers, CompleteRead(w) PROVE PipelineTypes'
  <2>1. PICK f \in read_ring[w].submitted :
          /\ read_ring' = [read_ring EXCEPT ![w].submitted = @ \ {f},
                                            ![w].completed = @ \cup {f}]
          /\ data' = [data EXCEPT ![f] = [state |-> "read", content |-> intermediate[f]]]
    BY <1>6 DEF CompleteRead
  <2>2. read_ring[w] \in Ring
    BY DEF PipelineTypes
  <2>3. f \in Buckets /\ intermediate[f] \in SUBSET Elements
    BY <2>1, <2>2 DEF Ring, AssignTypes
  <2>4. [state |-> "read", content |-> intermediate[f]] \in Memory
    BY <2>3 DEF Memory, States
  <2>5. data' \in [Buckets -> Memory]
    BY <2>1, <2>4 DEF PipelineTypes
  <2>6. read_ring' \in [Workers -> Ring]
    BY <2>1, <2>2, <2>3 DEF Ring, PipelineTypes
  <2> QED BY <1>6, <2>5, <2>6 DEF CompleteRead, slots, needs, PipelineTypes
<1>7. ASSUME NEW w \in Workers, CompleteWrite(w) PROVE PipelineTypes'
  <2>1. PICK f \in write_ring[w].submitted :
          /\ write_ring' = [write_ring EXCEPT ![w].submitted = @ \ {f},
                                              ![w].completed = @ \cup {f}]
          /\ target' = [target EXCEPT ![f] = data[f]]
    BY <1>7 DEF CompleteWrite
  <2>2. write_ring[w] \in Ring
    BY DEF PipelineTypes
  <2>3. f \in Buckets /\ data[f] \in Memory
    BY <2>1, <2>2 DEF Ring, PipelineTypes
  <2>4. target' \in [Buckets -> Memory]
    BY <2>1, <2>3 DEF PipelineTypes
  <2>5. write_ring' \in [Workers -> Ring]
    BY <2>1, <2>2, <2>3 DEF Ring, PipelineTypes
  <2> QED BY <1>7, <2>4, <2>5 DEF CompleteWrite, slots, needs, PipelineTypes
<1>8. ASSUME NEW a \in Assigners, Assigner(a) PROVE UNCHANGED phase2 /\ phase' \in 1..3
  BY <1>8 DEF Assigner, PollChunk, PollEnd, AssignElement, ChunkDone, FlushRest,
              AssignerDone, PipelineTypes
<1>9. WriteBuffer \/ BeginPhase2 \/ Return \/ UNCHANGED vars
        => UNCHANGED phase2 /\ phase' \in 1..3
  BY DEF WriteBuffer, BeginPhase2, Return, vars, PipelineTypes
<1> QED
  BY <1>1, <1>2, <1>3, <1>4, <1>5, <1>6, <1>7, <1>8, <1>9 DEF Next, Worker, Complete

-----------------------------------------------------------------------------
(* Phase 2: the files are in step                                          *)

\* The initial state.
LEMMA PipelineInvInit == Init => PipelineInv
<1> SUFFICES ASSUME Init PROVE PipelineInv
  OBVIOUS
<1>1. \A w \in Workers : ReadFile(w) = {} /\ FileInHand(w) = {} /\ WrittenFile(w) = {}
  BY DEF Init, ReadFile, FileInHand, WrittenFile
<1>2. \A w \in Workers : Jobs(w) = {}
  BY <1>1 DEF Jobs
<1>3. \A f \in Buckets : ~(f < 0)
  BY Sizes
<1>4. JobsInv
  BY <1>1, <1>2, <1>3 DEF Init, JobsInv, FilesApart
<1>5. FlagsInv
  BY DEF Init, FlagsInv
<1>6. DataInv
  BY <1>1 DEF Init, DataInv, RestData, WorkerData, Empty, ReadUnderWay, ReadDone, WriteUnderWay, WriteDone
<1> QED BY <1>4, <1>5, <1>6 DEF PipelineInv

\* What phase 1 does leaves phase 2, which has no files yet, alone.
LEMMA PipelineKept ==
    ASSUME TypeInv, PipelineInv, UNCHANGED phase2,
           intermediate' = intermediate \/ current_file = 0,
           phase' = phase \/ phase' # 3 \/ \A w \in Workers : pc[w] = "exited"
    PROVE  PipelineInv'
<1>1. /\ UNCHANGED <<current_file, pc, previous, current, next, need_reap_read,
                     need_submit_read, need_process, need_reap_write, need_submit_write>>
      /\ UNCHANGED <<data, target, results, read_ring, write_ring>>
  BY DEF phase2, slots, needs, memory, rings
<1>2. \A w : UNCHANGED <<ReadFile(w), FileInHand(w), WrittenFile(w)>>
  BY <1>1 DEF ReadFile, FileInHand, WrittenFile
<1>3. \A w : UNCHANGED Jobs(w)
  BY <1>2 DEF Jobs
<1>4. JobsInv'
  BY <1>1, <1>2, <1>3 DEF PipelineInv, JobsInv, FilesApart
<1>5. FlagsInv'
  BY <1>1 DEF PipelineInv, FlagsInv
<1>6. current_file = 0 => results = {} /\ \A w \in Workers : Jobs(w) = {}
  <2>1. \A f \in Buckets : ~(f < 0)
    BY Sizes
  <2> QED BY <2>1 DEF PipelineInv, JobsInv, TypeInv, PipelineTypes
<1>7. \A f \in results : UNCHANGED Contents(f, "processed")
  BY <1>6 DEF Contents
<1>8. RestData'
  BY <1>1, <1>7 DEF PipelineInv, DataInv, RestData
<1>9. ASSUME NEW w \in Workers PROVE WorkerData(w)'
  <2>1. \A f \in Jobs(w) : \A state : UNCHANGED Contents(f, state)
    BY <1>6 DEF Contents
  <2> QED BY <1>1, <1>2, <2>1, SMTT(30) DEF PipelineInv, DataInv, WorkerData, Jobs, ReadUnderWay, ReadDone, WriteUnderWay, WriteDone
<1> QED BY <1>4, <1>5, <1>8, <1>9 DEF PipelineInv, DataInv

\* A step of a worker keeps the flags.
LEMMA FlagsInvNext ==
    ASSUME TypeInv, FlagsInv, NEW w \in Workers, Worker(w) \/ Complete(w)
    PROVE  FlagsInv'
<1>1. phase' = phase
  BY Phase2Steps
<1> USE DEF TypeInv, PipelineTypes, FlagsInv
<1>2. CASE Exit(w)
  BY <1>1, <1>2 DEF Exit, GoesOn, Goto, needs
<1>3. CASE ReapRead(w)
  BY <1>1, <1>3 DEF ReapRead, Goto
<1>4. CASE SubmitRead(w)
  BY <1>1, <1>4, Sizes DEF SubmitRead, ReapNextTime, Goto
<1>5. CASE Process(w)
  BY <1>1, <1>5 DEF Process, Goto
<1>6. CASE ReapWrite(w)
  BY <1>1, <1>6 DEF ReapWrite, Goto, needs
<1>7. CASE SubmitWrite(w)
  BY <1>1, <1>7 DEF SubmitWrite, Goto
<1>8. CASE CompleteRead(w) \/ CompleteWrite(w)
  BY <1>1, <1>8 DEF CompleteRead, CompleteWrite, needs
<1> QED BY <1>2, <1>3, <1>4, <1>5, <1>6, <1>7, <1>8 DEF Worker, Complete

\* A step of a worker hands its files on, takes one nobody has or enters one
\* in the result.
LEMMA JobsInvNext ==
    ASSUME TypeInv, JobsInv, FlagsInv, NEW w \in Workers, Worker(w) \/ Complete(w)
    PROVE  JobsInv'
<1>1. \A v \in Workers : v # w => /\ FilesApart(v)' = FilesApart(v)
                                  /\ Jobs(v)' = Jobs(v)
  BY OtherWorkers DEF FilesApart, Jobs
<1>2. /\ FilesApart(w) /\ Jobs(w) \subseteq Buckets
      /\ Jobs(w) = ReadFile(w) \cup FileInHand(w) \cup WrittenFile(w)
      /\ Jobs(w)' = ReadFile(w)' \cup FileInHand(w)' \cup WrittenFile(w)'
  BY DEF JobsInv, Jobs
<1>3. ASSUME Jobs(w)' = Jobs(w), FilesApart(w)', UNCHANGED <<current_file, results>>
      PROVE  JobsInv'
  BY <1>1, <1>3 DEF JobsInv
<1>4. CASE Exit(w)
  BY <1>2, <1>3, <1>4, ExitJobs DEF Exit, FilesApart, memory
<1>5. CASE ReapRead(w)
  BY <1>2, <1>3, <1>5, ReapReadJobs DEF ReapRead, FilesApart, memory
<1>6. CASE SubmitRead(w)
  <2>1. /\ current_file' = current_file + 1 /\ results' = results
        /\ current_file \in Nat
    BY <1>6 DEF SubmitRead, TypeInv, PipelineTypes
  <2>2. \A f \in Jobs(w) : f # current_file
    BY <2>1, Sizes DEF JobsInv
  <2>3. FilesApart(w)'
    BY <1>2, <1>6, <2>2, SubmitReadJobs DEF FilesApart
  <2>4. CASE need_submit_read[w] /\ current_file < NumBuckets
    <3>1. Jobs(w)' = Jobs(w) \cup {current_file}
      BY <1>2, <1>6, <2>4, SubmitReadJobs
    <3>2. current_file \in Buckets /\ current_file \notin results
      BY <2>1, <2>4, Sizes DEF JobsInv
    <3>3. \A v \in Workers : current_file \notin Jobs(v)
      BY <2>1, Sizes DEF JobsInv
    <3>4. \A f \in Buckets : (f < current_file' <=> f < current_file \/ f = current_file)
      BY <2>1, Sizes
    <3>5. \A v \in Workers : \A f \in Jobs(v)' :
            f \in Buckets /\ f < current_file' /\ f \notin results'
      <4> SUFFICES ASSUME NEW v \in Workers, NEW f \in Jobs(v)'
                   PROVE  f \in Buckets /\ f < current_file' /\ f \notin results'
        OBVIOUS
      <4>1. f \in Jobs(v) \/ f = current_file
        BY <1>1, <3>1
      <4>2. f \in Jobs(v) => f \in Buckets /\ f < current_file /\ f \notin results
        BY DEF JobsInv
      <4> QED BY <2>1, <3>2, <3>4, <4>1, <4>2
    <3>6. \A u, v \in Workers : u # v => Jobs(u)' \cap Jobs(v)' = {}
      BY <1>1, <3>1, <3>3 DEF JobsInv
    <3>7. \A f \in results' : f < current_file'
      BY <2>1, <3>4 DEF JobsInv, TypeInv, PipelineTypes
    <3>8. \A f \in Buckets :
            f < current_file' => f \in results' \/ \E v \in Workers : f \in Jobs(v)'
      BY <1>1, <2>1, <3>1, <3>4 DEF JobsInv
    <3>9. \A v \in Workers : FilesApart(v)'
      BY <1>1, <2>3 DEF JobsInv
    <3> QED BY <3>5, <3>6, <3>7, <3>8, <3>9 DEF JobsInv
  <2>5. CASE ~(need_submit_read[w] /\ current_file < NumBuckets)
    <3>1. Jobs(w)' = Jobs(w)
      BY <1>2, <1>6, <2>5, SubmitReadJobs
    <3>2. \A f \in Buckets : f < current_file /\ f < current_file'
      <4>1. current_file >= NumBuckets
        BY <2>1, <2>5, Sizes DEF FlagsInv
      <4> QED BY <2>1, <4>1, Sizes
    <3> QED BY <1>1, <2>1, <2>3, <3>1, <3>2, SMTT(30) DEF JobsInv, TypeInv, PipelineTypes
  <2> QED BY <2>4, <2>5
<1>7. CASE Process(w)
  BY <1>2, <1>3, <1>7, ProcessJobs DEF Process, FilesApart
<1>8. CASE ReapWrite(w)
  <2>1. current_file' = current_file
    BY <1>8 DEF ReapWrite
  <2>2. FilesApart(w)'
    BY <1>2, <1>8, ReapWriteJobs DEF FilesApart
  <2>3. Jobs(w)' = Jobs(w) \ WrittenFile(w) /\ results' = results \cup WrittenFile(w)
    BY <1>2, <1>8, ReapWriteJobs DEF ReapWrite, FilesApart
  <2>4. WrittenFile(w) \subseteq Jobs(w)
    BY <1>2
  <2> QED BY <1>1, <2>1, <2>2, <2>3, <2>4 DEF JobsInv
<1>9. CASE SubmitWrite(w)
  BY <1>2, <1>3, <1>9, SubmitWriteJobs, ZenonT(30) DEF SubmitWrite, FilesApart, memory
<1>10. CASE Complete(w)
  BY <1>2, <1>3, <1>10, CompleteJobs DEF Complete, CompleteRead, CompleteWrite, FilesApart
<1> QED BY <1>4, <1>5, <1>6, <1>7, <1>8, <1>9, <1>10 DEF Worker

\* What a step of one worker does to its files is not seen by another.
LEMMA OthersData ==
    ASSUME TypeInv, DataInv, NEW w \in Workers, Worker(w) \/ Complete(w),
           NEW v \in Workers, v # w,
           \A f \in Jobs(v) : data'[f] = data[f] /\ target'[f] = target[f]
    PROVE  WorkerData(v)'
<1>1. \A f, state : Contents(f, state)' = Contents(f, state)
  BY Phase2Steps DEF phase1, Contents
<1>2. /\ ReadFile(v)' = ReadFile(v) /\ FileInHand(v)' = FileInHand(v)
      /\ WrittenFile(v)' = WrittenFile(v)
      /\ pc'[v] = pc[v] /\ read_ring'[v] = read_ring[v] /\ write_ring'[v] = write_ring[v]
  BY OtherWorkers
<1>3. WorkerData(v)
  BY DEF DataInv
<1> QED BY <1>1, <1>2, <1>3 DEF WorkerData, Jobs, ReadUnderWay, ReadDone, WriteUnderWay, WriteDone

\* A step of a worker, or of the kernel for it, keeps the files in step.
LEMMA DataInvNext ==
    ASSUME TypeInv, JobsInv, DataInv, FlagsInv, NEW w \in Workers, Worker(w) \/ Complete(w)
    PROVE  DataInv'
<1>1. \A f, state : Contents(f, state)' = Contents(f, state)
  BY Phase2Steps DEF phase1, Contents
<1>2. WorkerData(w) /\ RestData
  BY DEF DataInv
<1>3. /\ FilesApart(w) /\ Jobs(w) \subseteq Buckets
      /\ \A f \in Jobs(w) : f \in Nat /\ f < current_file /\ f \notin results
      /\ \A f \in results : f \in Nat /\ f < current_file
      /\ \A v \in Workers : v # w => Jobs(v) \cap Jobs(w) = {}
      /\ \A v \in Workers : \A f \in Jobs(v) : f \in Nat /\ f < current_file
  BY Sizes DEF JobsInv, TypeInv, PipelineTypes
<1>4. /\ current_file \in Nat
      /\ read_ring[w] \in Ring /\ write_ring[w] \in Ring
      /\ \A f \in Buckets : f \in Nat /\ data[f] \in Memory /\ target[f] \in Memory
      /\ DOMAIN data = Buckets /\ DOMAIN target = Buckets
      /\ DOMAIN read_ring = Workers /\ DOMAIN write_ring = Workers
  BY Sizes DEF TypeInv, PipelineTypes
<1>5. ReadFile(w) \cup FileInHand(w) \cup WrittenFile(w) = Jobs(w)
  BY DEF Jobs
<1>6. /\ ReadFile(w) = {} => read_ring[w] = NoRing
      /\ \A f \in ReadFile(w) : ReadUnderWay(w, f) \/ ReadDone(w, f)
  BY <1>2 DEF WorkerData
<1>7. /\ WrittenFile(w) = {} => write_ring[w] = NoRing
      /\ \A f \in WrittenFile(w) : data[f] = Contents(f, "processed")
      /\ \A f \in WrittenFile(w) : WriteUnderWay(w, f) \/ WriteDone(w, f)
  BY <1>2 DEF WorkerData
<1>8. ASSUME RestData', WorkerData(w)',
            \A v \in Workers : v # w =>
              \A f \in Jobs(v) : data'[f] = data[f] /\ target'[f] = target[f]
      PROVE  DataInv'
  BY <1>8, OthersData DEF DataInv
<1>9. ASSUME UNCHANGED <<current_file, memory>>, WorkerData(w)'
      PROVE  DataInv'
  <2>1. RestData'
    BY <1>1, <1>2, <1>9 DEF RestData, memory
  <2> QED BY <1>8, <1>9, <2>1 DEF memory
<1>10. CASE Exit(w)
  BY <1>2, <1>9, <1>10, ExitJobs DEF Exit, rings, WorkerData, ReadUnderWay, ReadDone, WriteUnderWay, WriteDone
<1>11. CASE ReapRead(w)
  <2>1. /\ pc'[w] = "read" /\ UNCHANGED <<current_file, memory, write_ring>>
        /\ ReadFile(w) # {} => /\ read_ring[w].completed # {}
                               /\ read_ring'[w] = [read_ring[w] EXCEPT !.completed = {}]
        /\ ReadFile(w) = {} => read_ring'[w] = read_ring[w]
    BY <1>4, <1>11 DEF ReapRead, ReapOne, Goto, ReadFile, TypeInv, PipelineTypes
  <2>2. \A f \in ReadFile(w) : data[f] = Contents(f, "read") /\ read_ring'[w] = NoRing
    <3> SUFFICES ASSUME NEW f \in ReadFile(w)
                 PROVE  data[f] = Contents(f, "read") /\ read_ring'[w] = NoRing
      OBVIOUS
    <3>1. read_ring[w].completed # {}
      BY <2>1
    <3>2. ReadDone(w, f)
      <4>1. ReadUnderWay(w, f) \/ ReadDone(w, f)
        BY <1>6
      <4>2. ~ReadUnderWay(w, f)
        BY <3>1 DEF ReadUnderWay
      <4> QED BY <4>1, <4>2
    <3> QED BY <2>1, <3>2 DEF NoRing, ReadDone
  <2>3. read_ring'[w] = NoRing
    BY <1>2, <2>1, <2>2 DEF WorkerData, ReadUnderWay, ReadDone, WriteUnderWay, WriteDone
  <2> QED BY <1>1, <1>2, <1>9, <1>11, <2>1, <2>2, <2>3, ReapReadJobs DEF WorkerData, memory, ReadUnderWay, ReadDone, WriteUnderWay, WriteDone
<1>12. CASE SubmitRead(w)
  <2>1. /\ current_file' = current_file + 1 /\ UNCHANGED <<target, results, write_ring>>
        /\ pc[w] = "read" /\ pc'[w] = "process"
    BY <1>12 DEF SubmitRead, Goto, TypeInv, PipelineTypes
  <2>2. CASE need_submit_read[w] /\ current_file < NumBuckets
    <3>1. /\ data' = [data EXCEPT ![current_file] = Empty("reading")]
          /\ read_ring'[w] = [read_ring[w] EXCEPT !.submitted = @ \cup {current_file}]
      BY <1>4, <1>12, <2>2 DEF SubmitRead
    <3>2. read_ring'[w] = [submitted |-> {current_file}, completed |-> {}]
      BY <1>12, <1>6, <3>1, SubmitReadJobs DEF NoRing
    <3>3. current_file \in Buckets
      BY <1>4, <2>2, Sizes
    <3>4. data'[current_file].state = "reading"
      BY <1>4, <3>1, <3>3 DEF Empty
    <3>5. \A f \in Buckets : f # current_file => data'[f] = data[f]
      BY <1>4, <3>1
    <3>6. \A v \in Workers : \A f \in Jobs(v) : f \in Buckets /\ f # current_file
      BY <1>3, <1>4 DEF JobsInv
    <3>7. RestData'
      <4>1. \A f \in results : f \in Buckets /\ f # current_file
        BY <1>3, <1>4 DEF TypeInv, PipelineTypes
      <4>2. \A f \in Buckets : f >= current_file + 1 => f >= current_file /\ f # current_file
        BY <1>4
      <4> QED BY <1>1, <1>2, <2>1, <3>5, <4>1, <4>2 DEF RestData
    <3>8. WorkerData(w)'
      <4>1. ReadFile(w)' = {current_file}
        BY <1>12, <2>2, SubmitReadJobs
      <4>2. \A f \in FileInHand(w) \cup WrittenFile(w) : data'[f] = data[f]
        BY <1>5, <3>5, <3>6
      <4> QED BY <1>1, <1>2, <1>12, <2>1, <3>2, <3>4, <4>1, <4>2, SubmitReadJobs DEF WorkerData, ReadUnderWay, ReadDone, WriteUnderWay, WriteDone
    <3> QED BY <1>8, <2>1, <3>5, <3>6, <3>7, <3>8
  <2>3. CASE ~(need_submit_read[w] /\ current_file < NumBuckets)
    <3>1. UNCHANGED <<data, read_ring>>
      BY <1>12, <2>3 DEF SubmitRead
    <3>2. RestData'
      BY <1>1, <1>2, <1>4, <2>1, <3>1 DEF RestData
    <3>3. WorkerData(w)'
      BY <1>1, <1>2, <1>12, <2>1, <2>3, <3>1, SubmitReadJobs DEF WorkerData, ReadUnderWay, ReadDone, WriteUnderWay, WriteDone
    <3> QED BY <1>8, <2>1, <3>1, <3>2, <3>3
  <2> QED BY <2>2, <2>3
<1>13. CASE Process(w)
  <2>1. /\ pc[w] = "process" /\ pc'[w] = "reap_write"
        /\ UNCHANGED <<current_file, target, results, read_ring, write_ring>>
        /\ FileInHand(w) = {f \in {current[w]} : need_process[w]}
    BY <1>13 DEF Process, Goto, rings, FileInHand, TypeInv, PipelineTypes
  <2>2. \A f \in FileInHand(w) : data[f] = Contents(f, "read")
    BY <1>2, <2>1 DEF WorkerData, ReadUnderWay, ReadDone, WriteUnderWay, WriteDone
  <2>3. \A f \in FileInHand(w) : data'[f] = Contents(f, "processed")
    <3> SUFFICES ASSUME NEW f \in FileInHand(w) PROVE data'[f] = Contents(f, "processed")
      OBVIOUS
    <3>1. f = current[w] /\ need_process[w] /\ f \in Buckets
      BY <1>3, <1>5, <2>1
    <3>2. data'[f] = [data[f] EXCEPT !.state = IF data[f].state = "read" THEN "processed" ELSE "spoilt"]
      BY <1>4, <1>13, <3>1 DEF Process, ProcessedFile
    <3>3. data[f] = [state |-> "read", content |-> intermediate[f]]
      BY <2>2 DEF Contents
    <3> QED BY <3>2, <3>3 DEF Contents
  <2>4. \A f \in Buckets : f \notin FileInHand(w) => data'[f] = data[f]
    BY <1>4, <1>13, <2>1 DEF Process, ProcessedFile
  <2>5. RestData'
    <3>1. \A f \in Buckets : f >= current_file => f \notin FileInHand(w)
      BY <1>3, <1>4, <1>5
    <3>2. \A f \in results : f \in Buckets /\ f \notin FileInHand(w)
      BY <1>3, <1>5 DEF TypeInv, PipelineTypes
    <3> QED BY <1>1, <1>2, <2>1, <2>4, <3>1, <3>2 DEF RestData
  <2>6. \A v \in Workers : v # w => \A f \in Jobs(v) : data'[f] = data[f]
    BY <1>3, <1>5, <2>4 DEF JobsInv
  <2>7. \A f \in ReadFile(w) \cup WrittenFile(w) : data'[f] = data[f]
    BY <1>3, <1>5, <2>4 DEF FilesApart
  <2>8. WorkerData(w)'
    BY <1>1, <1>2, <1>13, <2>1, <2>3, <2>7, ProcessJobs DEF WorkerData, ReadUnderWay, ReadDone, WriteUnderWay, WriteDone
  <2> QED BY <1>8, <2>1, <2>5, <2>6, <2>8
<1>14. CASE ReapWrite(w)
  <2>1. /\ pc[w] = "reap_write" /\ pc'[w] = "write"
        /\ UNCHANGED <<current_file, target, read_ring>>
        /\ WrittenFile(w) = {f \in {previous[w]} : need_reap_write[w]}
    BY <1>14, ReapWriteJobs DEF ReapWrite, Goto, TypeInv, PipelineTypes
  <2>2. WrittenFile(w) # {} => /\ write_ring[w].completed # {}
                               /\ write_ring'[w] = [write_ring[w] EXCEPT !.completed = {}]
    BY <1>4, <1>14, <2>1 DEF ReapWrite, ReapOne
  <2>3. \A f \in WrittenFile(w) :
          /\ data[f] = Contents(f, "processed") /\ target[f] = Contents(f, "processed")
          /\ write_ring'[w] = NoRing
    <3> SUFFICES ASSUME NEW f \in WrittenFile(w)
                 PROVE  /\ data[f] = Contents(f, "processed")
                        /\ target[f] = Contents(f, "processed")
                        /\ write_ring'[w] = NoRing
      OBVIOUS
    <3>1. write_ring[w].completed # {}
      BY <2>2
    <3>2. data[f] = Contents(f, "processed") /\ WriteDone(w, f)
      <4>1. WriteUnderWay(w, f) \/ WriteDone(w, f)
        BY <1>7
      <4>2. ~WriteUnderWay(w, f)
        BY <3>1 DEF WriteUnderWay
      <4> QED BY <1>7, <4>1, <4>2
    <3> QED BY <2>2, <3>2 DEF NoRing, WriteDone
  <2>4. write_ring'[w] = NoRing
    BY <1>2, <1>14, <2>1, <2>3 DEF ReapWrite, WorkerData, ReadUnderWay, ReadDone, WriteUnderWay, WriteDone
  <2>5. \A f \in WrittenFile(w) : data'[f].state = "freed"
    <3> SUFFICES ASSUME NEW f \in WrittenFile(w) PROVE data'[f].state = "freed"
      OBVIOUS
    <3>1. f = previous[w] /\ need_reap_write[w] /\ f \in Buckets
      BY <1>3, <1>5, <2>1
    <3>2. data'[f] = Empty(IF data[f].state = "freed" THEN "spoilt" ELSE "freed")
      BY <1>4, <1>14, <3>1 DEF ReapWrite
    <3>3. data[f] = [state |-> "processed", content |-> intermediate[f]]
      BY <2>3 DEF Contents
    <3> QED BY <3>2, <3>3 DEF Empty
  <2>6. \A f \in Buckets : f \notin WrittenFile(w) => data'[f] = data[f]
    BY <1>4, <1>14, <2>1 DEF ReapWrite
  <2>7. results' = results \cup WrittenFile(w)
    BY <1>14, <2>1 DEF ReapWrite
  <2>8. RestData'
    <3>1. \A f \in Buckets : f >= current_file => f \notin WrittenFile(w)
      BY <1>3, <1>4, <1>5
    <3>2. \A f \in results : f \in Buckets /\ f \notin WrittenFile(w)
      BY <1>3, <1>5 DEF TypeInv, PipelineTypes
    <3>3. \A f \in results' : data'[f].state = "freed" /\ target'[f] = Contents(f, "processed")
      BY <1>2, <2>1, <2>3, <2>5, <2>6, <2>7, <3>2 DEF RestData
    <3> QED BY <1>1, <1>2, <2>1, <2>6, <3>1, <3>3 DEF RestData
  <2>9. \A v \in Workers : v # w => \A f \in Jobs(v) : data'[f] = data[f]
    BY <1>3, <1>5, <2>6 DEF JobsInv
  <2>10. \A f \in ReadFile(w) \cup FileInHand(w) : data'[f] = data[f]
    BY <1>3, <1>5, <2>6 DEF FilesApart
  <2>11. WorkerData(w)'
    BY <1>1, <1>2, <1>14, <2>1, <2>4, <2>10, ReapWriteJobs DEF WorkerData, ReadUnderWay, ReadDone, WriteUnderWay, WriteDone
  <2> QED BY <1>8, <2>1, <2>8, <2>9, <2>11
<1>15. CASE SubmitWrite(w)
  <2>1. /\ pc[w] = "write" /\ pc'[w] = "top"
        /\ UNCHANGED <<current_file, memory, read_ring>>
    BY <1>15 DEF SubmitWrite, Goto, TypeInv, PipelineTypes
  <2>2. write_ring[w] = NoRing
    BY <1>2, <1>15, SubmitWriteJobs DEF WorkerData, ReadUnderWay, ReadDone, WriteUnderWay, WriteDone
  <2>3. \A f \in FileInHand(w) : write_ring'[w] = [submitted |-> {f}, completed |-> {}]
    <3> SUFFICES ASSUME NEW f \in FileInHand(w)
                 PROVE  write_ring'[w] = [submitted |-> {f}, completed |-> {}]
      OBVIOUS
    <3>1. f = current[w] /\ need_submit_write[w]
      BY <1>15, SubmitWriteJobs
    <3>2. write_ring'[w] = [write_ring[w] EXCEPT !.submitted = @ \cup {f}]
      BY <1>4, <1>15, <3>1 DEF SubmitWrite
    <3> QED BY <2>2, <3>2 DEF NoRing
  <2>4. FileInHand(w) = {} => write_ring'[w] = NoRing
    BY <1>4, <1>15, <2>2, SubmitWriteJobs DEF SubmitWrite
  <2>5. \A f \in FileInHand(w) : data[f] = Contents(f, "processed")
    BY <1>2, <2>1 DEF WorkerData, ReadUnderWay, ReadDone, WriteUnderWay, WriteDone
  <2>6. WorkerData(w)'
    BY <1>1, <1>2, <1>15, <2>1, <2>3, <2>4, <2>5, SubmitWriteJobs DEF WorkerData, memory, ReadUnderWay, ReadDone, WriteUnderWay, WriteDone
  <2> QED BY <1>9, <2>1, <2>6
<1>16. CASE CompleteRead(w)
  <2>1. PICK f \in read_ring[w].submitted :
          /\ read_ring' = [read_ring EXCEPT ![w].submitted = @ \ {f},
                                            ![w].completed = @ \cup {f}]
          /\ data' = [data EXCEPT ![f] = [state |-> "read", content |-> intermediate[f]]]
    BY <1>16 DEF CompleteRead
  <2>2. UNCHANGED <<current_file, pc, target, results, write_ring>>
    BY <1>16 DEF CompleteRead
  <2>3. /\ ReadFile(w) = {f} /\ f \in Jobs(w)
        /\ read_ring[w] = [submitted |-> {f}, completed |-> {}]
    <3>1. ReadFile(w) # {}
      BY <1>6, <2>1 DEF NoRing
    <3>2. PICK g \in ReadFile(w) : TRUE
      BY <3>1
    <3>3. ReadFile(w) = {g}
      BY <3>2 DEF ReadFile
    <3>4. read_ring[w] = [submitted |-> {g}, completed |-> {}]
      <4>1. ReadUnderWay(w, g) \/ ReadDone(w, g)
        BY <1>6
      <4>2. ~ReadDone(w, g)
        BY <2>1 DEF ReadDone
      <4>3. ReadUnderWay(w, g)
        BY <4>1, <4>2
      <4> QED BY <4>3 DEF ReadUnderWay
    <3>5. g = f
      BY <2>1, <3>4
    <3> QED BY <1>5, <3>3, <3>4, <3>5
  <2>4. read_ring'[w] = [submitted |-> {}, completed |-> {f}]
    BY <1>4, <2>1, <2>3
  <2>5. data'[f] = Contents(f, "read") /\ \A g \in Buckets : g # f => data'[g] = data[g]
    BY <1>3, <1>4, <2>1, <2>3 DEF Contents
  <2>6. RestData'
    <3>1. \A g \in Buckets : g >= current_file => g # f
      BY <1>3, <1>4, <2>3
    <3>2. \A g \in results : g \in Buckets /\ g # f
      BY <1>3, <2>3 DEF TypeInv, PipelineTypes
    <3> QED BY <1>1, <1>2, <2>2, <2>5, <3>1, <3>2 DEF RestData
  <2>7. \A v \in Workers : v # w => \A g \in Jobs(v) : data'[g] = data[g]
    BY <1>3, <2>3, <2>5 DEF JobsInv
  <2>8. \A g \in FileInHand(w) \cup WrittenFile(w) : data'[g] = data[g]
    BY <1>3, <1>5, <2>3, <2>5 DEF FilesApart
  <2>9. UNCHANGED <<ReadFile(w), FileInHand(w), WrittenFile(w)>>
    BY <1>16, CompleteJobs DEF Complete
  <2>10. WorkerData(w)'
    BY <1>1, <1>2, <2>2, <2>3, <2>4, <2>5, <2>8, <2>9 DEF WorkerData, ReadUnderWay, ReadDone, WriteUnderWay, WriteDone
  <2> QED BY <1>8, <2>2, <2>6, <2>7, <2>10
<1>17. CASE CompleteWrite(w)
  <2>1. PICK f \in write_ring[w].submitted :
          /\ write_ring' = [write_ring EXCEPT ![w].submitted = @ \ {f},
                                              ![w].completed = @ \cup {f}]
          /\ target' = [target EXCEPT ![f] = data[f]]
    BY <1>17 DEF CompleteWrite
  <2>2. UNCHANGED <<current_file, pc, data, results, read_ring>>
    BY <1>17 DEF CompleteWrite
  <2>3. ASSUME NEW g \in WrittenFile(w)
        PROVE  write_ring[w] = [submitted |-> {g}, completed |-> {}] /\ g = f
    <3>1. WriteUnderWay(w, g) \/ WriteDone(w, g)
      BY <1>7
    <3>2. ~WriteDone(w, g)
      BY <2>1 DEF WriteDone
    <3>3. WriteUnderWay(w, g)
      BY <3>1, <3>2
    <3>4. write_ring[w] = [submitted |-> {g}, completed |-> {}]
      BY <3>3 DEF WriteUnderWay
    <3> QED BY <2>1, <3>4
  <2>4. f \in WrittenFile(w) /\ f \in Jobs(w)
    <3>1. WrittenFile(w) # {}
      BY <1>7, <2>1 DEF NoRing
    <3>2. PICK g \in WrittenFile(w) : TRUE
      BY <3>1
    <3>3. write_ring[w] = [submitted |-> {g}, completed |-> {}]
      BY <2>3, <3>2
    <3>4. g = f
      BY <2>1, <3>3
    <3> QED BY <1>5, <3>2, <3>4
  <2>5. /\ write_ring[w] = [submitted |-> {f}, completed |-> {}]
        /\ \A g \in WrittenFile(w) : g = f
    BY <2>4, <2>3
  <2>6. write_ring'[w] = [submitted |-> {}, completed |-> {f}]
    BY <1>4, <2>1, <2>5
  <2>7. /\ target'[f] = Contents(f, "processed")
        /\ \A g \in Buckets : g # f => target'[g] = target[g]
    BY <1>2, <1>3, <1>4, <2>1, <2>4 DEF WorkerData, ReadUnderWay, ReadDone, WriteUnderWay, WriteDone
  <2>8. RestData'
    <3>1. \A g \in results : g \in Buckets /\ g # f
      BY <1>3, <2>4 DEF TypeInv, PipelineTypes
    <3>2. target'[f].state = "processed"
      BY <2>7 DEF Contents
    <3> QED BY <1>1, <1>2, <2>2, <2>7, <3>1, <3>2 DEF RestData
  <2>9. \A v \in Workers : v # w => \A g \in Jobs(v) : target'[g] = target[g]
    BY <1>3, <2>4, <2>7 DEF JobsInv
  <2>10. UNCHANGED <<ReadFile(w), FileInHand(w), WrittenFile(w)>>
    BY <1>17, CompleteJobs DEF Complete
  <2>11. WorkerData(w)'
    <3>1. /\ (ReadFile(w) = {} => read_ring[w] = NoRing)'
          /\ (\A g \in ReadFile(w) : ReadUnderWay(w, g) \/ ReadDone(w, g))'
      BY <1>1, <1>6, <2>2, <2>10 DEF ReadUnderWay, ReadDone
    <3>2. (\A g \in FileInHand(w) :
             data[g] = Contents(g, IF pc[w] \in {"read", "process"} THEN "read" ELSE "processed"))'
      BY <1>1, <1>2, <2>2, <2>10 DEF WorkerData
    <3>3. WrittenFile(w)' # {} /\ \A g \in WrittenFile(w)' : g = f
      BY <2>4, <2>5, <2>10
    <3>4. WriteDone(w, f)'
      BY <1>1, <2>6, <2>7 DEF WriteDone
    <3>5. data'[f] = Contents(f, "processed")'
      BY <1>1, <1>7, <2>2, <2>4
    <3> QED BY <3>1, <3>2, <3>3, <3>4, <3>5 DEF WorkerData
  <2> QED BY <1>8, <2>2, <2>8, <2>9, <2>11
<1> QED
  BY <1>10, <1>11, <1>12, <1>13, <1>14, <1>15, <1>16, <1>17 DEF Worker, Complete

-----------------------------------------------------------------------------
(* The theorems                                                            *)

\* Everything that is known of a reachable state.
RunInv == TypeInv /\ AssignInv /\ PipelineInv

\* RunInv holds at the start.
LEMMA RunInvInit == Init => RunInv
BY TypeInvInit, AssignInvInit, PipelineInvInit DEF RunInv

\* Every step keeps the files in step.
LEMMA PipelineInvNext == TypeInv /\ PhaseInv /\ PipelineInv /\ [Next]_vars => PipelineInv'
<1> SUFFICES ASSUME TypeInv, PhaseInv, PipelineInv, [Next]_vars PROVE PipelineInv'
  OBVIOUS
<1>1. ASSUME NEW a \in Assigners, Assigner(a) PROVE PipelineInv'
  <2>1. UNCHANGED <<phase, phase2, intermediate>>
    BY <1>1 DEF Assigner, PollChunk, PollEnd, AssignElement, ChunkDone, FlushRest, AssignerDone
  <2> QED BY <2>1, PipelineKept
<1>2. CASE WriteBuffer
  <2>1. phase = 1 /\ UNCHANGED <<phase, phase2>>
    BY <1>2 DEF WriteBuffer, PhaseInv, Joined
  <2> QED BY <2>1, PipelineKept DEF PhaseInv
<1>3. CASE BeginPhase2 \/ Return \/ UNCHANGED vars
  <2>1. /\ UNCHANGED <<phase2, intermediate>>
        /\ phase' = phase \/ phase' # 3 \/ \A w \in Workers : pc[w] = "exited"
    BY <1>3 DEF BeginPhase2, Return, vars, phase1
  <2> QED BY <2>1, PipelineKept
<1>4. ASSUME NEW w \in Workers, Worker(w) \/ Complete(w) PROVE PipelineInv'
  BY <1>4, JobsInvNext, FlagsInvNext, DataInvNext DEF PipelineInv
<1> QED BY <1>1, <1>2, <1>3, <1>4 DEF Next

\* RunInv is inductive.
LEMMA RunInvNext == RunInv /\ [Next]_vars => RunInv'
BY AssignTypesNext, PipelineTypesNext, PlaceInvNext, BucketInvNext, PhaseInvNext, PipelineInvNext
   DEF RunInv, TypeInv, AssignInv, PipelineInv

\* RunInv holds in every reachable state.
LEMMA RunInvariant == Spec => []RunInv
BY RunInvInit, RunInvNext, PTL DEF Spec

\* Every variable keeps its type, whatever the sizes.
THEOREM TypeCorrect == Spec => []TypeOK
<1>1. RunInv => TypeOK
  BY TypeInvTypeOK DEF RunInv
<1> QED BY <1>1, RunInvariant, PTL

\* Where the one place of an element is, the others have none of it.
LEMMA OnePlaceCounts ==
    ASSUME NEW e, NEW place, PlacesOf(e) = {place}
    PROVE  ElementPlaces(e) = 1
<1> DEFINE A == Unread(e)
           B == InChunk(e)
           C == InBuffer(e)
           D == WithWriter(e)
           F == InFile(e)
           None(S) == S = {} /\ Cardinality(S) = 0
           Only(S, label) == Cardinality(S) = 1 /\ place[1] = label
<1>1. /\ \A x \in A : place = <<"unread", x>>
      /\ \A x \in B : place = <<"chunk", x>>
      /\ \A x \in C : place = <<"buffer", x>>
      /\ \A x \in D : place = <<"writer", x>>
      /\ \A x \in F : place = <<"file", x>>
  <2>1. \A x \in A : place = <<"unread", x>>
    BY DEF PlacesOf
  <2>2. \A x \in B : place = <<"chunk", x>>
    BY DEF PlacesOf
  <2>3. \A x \in C : place = <<"buffer", x>>
    BY DEF PlacesOf
  <2>4. \A x \in D : place = <<"writer", x>>
    BY DEF PlacesOf
  <2>5. \A x \in F : place = <<"file", x>>
    BY DEF PlacesOf
  <2> QED BY <2>1, <2>2, <2>3, <2>4, <2>5
<1>2. ~(A = {} /\ B = {} /\ C = {} /\ D = {} /\ F = {})
  BY DEF PlacesOf
<1>3. ElementPlaces(e) = Cardinality(A) + Cardinality(B) + Cardinality(C) + Cardinality(D)
                         + Cardinality(F)
  BY DEF ElementPlaces, Unread, InChunk, InBuffer, WithWriter, InFile
<1> HIDE DEF A, B, C, D, F
<1>4. ASSUME NEW S, NEW label, \A x \in S : place = <<label, x>>
      PROVE  None(S) \/ Only(S, label)
  <2>1. CASE S = {}
    BY <2>1, FS_EmptySet
  <2>2. CASE S # {}
    <3>1. PICK x : x \in S
      BY <2>2
    <3>2. \A y \in S : y = x
      BY <1>4, <3>1
    <3>3. S = {x}
      BY <3>1, <3>2
    <3>4. Cardinality(S) = 1
      BY <3>3, FS_Singleton
    <3>5. place[1] = label
      BY <1>4, <3>1
    <3> QED BY <3>4, <3>5
  <2> QED BY <2>1, <2>2
<1>5. /\ None(A) \/ Only(A, "unread")
      /\ None(B) \/ Only(B, "chunk")
      /\ None(C) \/ Only(C, "buffer")
      /\ None(D) \/ Only(D, "writer")
      /\ None(F) \/ Only(F, "file")
  <2> HIDE DEF None, Only
  <2>1. None(A) \/ Only(A, "unread")
    BY <1>1, <1>4
  <2>2. None(B) \/ Only(B, "chunk")
    BY <1>1, <1>4
  <2>3. None(C) \/ Only(C, "buffer")
    BY <1>1, <1>4
  <2>4. None(D) \/ Only(D, "writer")
    BY <1>1, <1>4
  <2>5. None(F) \/ Only(F, "file")
    BY <1>1, <1>4
  <2> QED BY <2>1, <2>2, <2>3, <2>4, <2>5
<1> QED BY <1>2, <1>3, <1>5

\* No element is lost or in two places.
THEOREM EachElementInOnePlace == Spec => []NothingLostOrTwice
<1>1. RunInv => NothingLostOrTwice
  BY OnePlaceCounts DEF RunInv, AssignInv, PlaceInv, NothingLostOrTwice
<1> QED BY <1>1, RunInvariant, PTL

\* A file is read before it is processed and processed before it is written, and
\* a ring belongs to one file at a time.
THEOREM FilesAreInStep == Spec => []PipelineInStep
<1>1. ASSUME RunInv PROVE PipelineInStep
  <2> USE <1>1 DEF RunInv, PipelineInv
  <2>1. ASSUME NEW w \in Workers, NEW f \in Jobs(w)
        PROVE  data[f].state \in {"reading", "read", "processed"}
    <3>1. CASE f \in ReadFile(w)
      <4>1. ReadUnderWay(w, f) \/ ReadDone(w, f)
        BY <3>1 DEF DataInv, WorkerData
      <4>2. ReadUnderWay(w, f) => data[f].state = "reading"
        BY DEF ReadUnderWay
      <4>3. ReadDone(w, f) => data[f].state = "read"
        BY DEF ReadDone, Contents
      <4> QED BY <4>1, <4>2, <4>3
    <3>2. CASE f \in FileInHand(w)
      <4>1. data[f] = Contents(f, "read") \/ data[f] = Contents(f, "processed")
        BY <3>2 DEF DataInv, WorkerData
      <4> QED BY <4>1 DEF Contents
    <3>3. CASE f \in WrittenFile(w)
      <4>1. data[f] = Contents(f, "processed")
        BY <3>3 DEF DataInv, WorkerData
      <4> QED BY <4>1 DEF Contents
    <3> QED BY <2>1, <3>1, <3>2, <3>3 DEF Jobs
  <2>2. ASSUME NEW f \in Buckets
        PROVE  data[f].state # "spoilt" /\ target[f].state \in {"none", "processed"}
    <3>1. f \in Nat /\ current_file \in Nat
      BY Sizes DEF TypeInv, PipelineTypes
    <3>2. f >= current_file \/ f \in results \/ \E w \in Workers : f \in Jobs(w)
      BY <3>1 DEF JobsInv
    <3>3. f >= current_file => data[f].state = "unallocated"
      BY DEF DataInv, RestData
    <3>4. f \in results => data[f].state = "freed"
      BY DEF DataInv, RestData
    <3> QED BY <2>1, <3>2, <3>3, <3>4 DEF DataInv, RestData
  <2>3. ASSUME NEW w \in Workers
        PROVE  /\ \A f \in read_ring[w].submitted : data[f].state = "reading"
               /\ Cardinality(read_ring[w].submitted \cup read_ring[w].completed) <= 1
    <3>1. CASE ReadFile(w) = {}
      <4>1. read_ring[w] = NoRing
        BY <3>1 DEF DataInv, WorkerData
      <4>2. read_ring[w].submitted = {} /\ read_ring[w].completed = {}
        BY <4>1 DEF NoRing
      <4> QED BY <4>2, FS_EmptySet
    <3>2. ASSUME NEW f \in ReadFile(w)
          PROVE  /\ \A g \in read_ring[w].submitted : data[g].state = "reading"
                 /\ Cardinality(read_ring[w].submitted \cup read_ring[w].completed) <= 1
      <4>1. ReadUnderWay(w, f) \/ ReadDone(w, f)
        BY DEF DataInv, WorkerData
      <4>2. Cardinality({f}) = 1
        BY FS_Singleton
      <4>3. CASE ReadUnderWay(w, f)
        <5>1. read_ring[w].submitted \cup read_ring[w].completed = {f}
          BY <4>3 DEF ReadUnderWay
        <5> QED BY <4>2, <4>3, <5>1 DEF ReadUnderWay
      <4>4. CASE ReadDone(w, f)
        <5>1. read_ring[w].submitted \cup read_ring[w].completed = {f}
          BY <4>4 DEF ReadDone
        <5> QED BY <4>2, <4>4, <5>1 DEF ReadDone
      <4> QED BY <4>1, <4>3, <4>4
    <3> QED BY <3>1, <3>2
  <2>4. ASSUME NEW w \in Workers
        PROVE  /\ \A f \in write_ring[w].submitted : data[f].state = "processed"
               /\ Cardinality(write_ring[w].submitted \cup write_ring[w].completed) <= 1
    <3>1. CASE WrittenFile(w) = {}
      <4>1. write_ring[w] = NoRing
        BY <3>1 DEF DataInv, WorkerData
      <4>2. write_ring[w].submitted = {} /\ write_ring[w].completed = {}
        BY <4>1 DEF NoRing
      <4> QED BY <4>2, FS_EmptySet
    <3>2. ASSUME NEW f \in WrittenFile(w)
          PROVE  /\ \A g \in write_ring[w].submitted : data[g].state = "processed"
                 /\ Cardinality(write_ring[w].submitted \cup write_ring[w].completed) <= 1
      <4>1. WriteUnderWay(w, f) \/ WriteDone(w, f)
        BY DEF DataInv, WorkerData
      <4>2. Cardinality({f}) = 1
        BY FS_Singleton
      <4>3. data[f].state = "processed"
        <5>1. data[f] = Contents(f, "processed")
          BY DEF DataInv, WorkerData
        <5> QED BY <5>1 DEF Contents
      <4>4. CASE WriteUnderWay(w, f)
        <5>1. write_ring[w].submitted \cup write_ring[w].completed = {f}
          BY <4>4 DEF WriteUnderWay
        <5> QED BY <4>2, <4>3, <4>4, <5>1 DEF WriteUnderWay
      <4>5. CASE WriteDone(w, f)
        <5>1. write_ring[w].submitted \cup write_ring[w].completed = {f}
          BY <4>5 DEF WriteDone
        <5> QED BY <4>2, <4>5, <5>1 DEF WriteDone
      <4> QED BY <4>1, <4>4, <4>5
    <3> QED BY <3>1, <3>2
  <2> QED BY <2>2, <2>3, <2>4 DEF PipelineInStep
<1> QED BY <1>1, RunInvariant, PTL

\* When Run returns every bucket was read, processed and written, and what was
\* read was what the assigners gave to it.
THEOREM ReturnedMeansProcessed == Spec => []ReturnMeansAllProcessed
<1>1. ASSUME RunInv, phase = 3
      PROVE  /\ results = Buckets
             /\ \A f \in Buckets :
                  /\ target[f].state = "processed"
                  /\ target[f].content = {e \in Elements : assigned[e] = f}
                  /\ data[f].state = "freed"
  <2> USE <1>1 DEF RunInv, PipelineInv, AssignInv
  <2>1. \A w \in Workers : pc[w] = "exited" /\ ~need_submit_read[w]
    BY DEF FlagsInv
  <2>2. \A w \in Workers : Jobs(w) = {}
    BY <2>1 DEF Jobs, ReadFile, FileInHand, WrittenFile
  <2>3. current_file >= NumBuckets
    BY <2>1, Sizes DEF FlagsInv
  <2>4. \A f \in Buckets : f < current_file
    BY <2>3, Sizes DEF TypeInv, PipelineTypes
  <2>5. results = Buckets
    BY <2>2, <2>4 DEF JobsInv, TypeInv, PipelineTypes
  <2>6. Joined
    BY DEF PhaseInv
  <2>7. ASSUME NEW e \in Elements PROVE InFile(e) # {}
    <3>1. unread = {} /\ \A a \in Assigners : chunk[a] = {} /\ \A b \in Buckets : buffer[a][b] = {}
      BY <2>6, Sizes DEF PhaseInv, Joined
    <3>2. Unread(e) = {} /\ InChunk(e) = {} /\ InBuffer(e) = {}
      BY <3>1 DEF Unread, InChunk, InBuffer
    <3>3. WithWriter(e) = {}
      BY <2>6 DEF WithWriter, Joined
    <3>4. PlacesOf(e) # {}
      BY DEF PlaceInv
    <3> QED BY <3>2, <3>3, <3>4 DEF PlacesOf
  <2>8. \A f \in Buckets : intermediate[f] = {e \in Elements : assigned[e] = f}
    <3> SUFFICES ASSUME NEW f \in Buckets
                 PROVE  intermediate[f] = {e \in Elements : assigned[e] = f}
      OBVIOUS
    <3>1. \A e \in intermediate[f] : e \in Elements /\ assigned[e] = f
      BY DEF BucketInv, TypeInv, AssignTypes
    <3>2. ASSUME NEW e \in Elements, assigned[e] = f PROVE e \in intermediate[f]
      <4>1. PICK b \in InFile(e) : TRUE
        BY <2>7
      <4>2. b \in Buckets /\ e \in intermediate[b]
        BY DEF InFile
      <4> QED BY <3>2, <4>2 DEF BucketInv
    <3> QED BY <3>1, <3>2
  <2>9. \A f \in Buckets : data[f].state = "freed" /\ target[f] = Contents(f, "processed")
    BY <2>5 DEF DataInv, RestData
  <2>10. \A f \in Buckets : /\ Contents(f, "processed").state = "processed"
                            /\ Contents(f, "processed").content = intermediate[f]
    BY DEF Contents
  <2> QED BY <2>5, <2>8, <2>9, <2>10
<1>2. RunInv => ReturnMeansAllProcessed
  BY <1>1 DEF ReturnMeansAllProcessed
<1> QED BY <1>2, RunInvariant, PTL

=============================================================================
