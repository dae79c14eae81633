-------------------------- MODULE ExternalMainProofs --------------------------
(***************************************************************************)
(* The primitives over chunks for any number of disks and tasks, any sizes *)
(* of blocks and any jobs: no slot outside of the output array is used and *)
(* no two blocks are pushed to one place.                                  *)
(***************************************************************************)
EXTENDS ExternalMain, FiniteSetTheorems, SequenceTheorems, TLAPS

GenerateOps == {"iota", "bool", "write_iota"}
PollOps == {"filter", "sieve"}
BatchOps == GenerateOps \cup PollOps
EmitOps == {"map", "engine_map", "engine_filter"}
Running == phase \in {"parallel", "joined"}

\* A function on set, and a sequence, of anything.
IsMap(f, set) == f = [x \in set |-> f[x]]
IsSeq(s) == Len(s) \in Nat /\ IsMap(s, 1..Len(s))

-----------------------------------------------------------------------------
(* What is known of a reachable state                                      *)

\* A header is open, or leads to a place in a file of the output.
IsHeader(h) ==
    /\ h = [index |-> h.index, file |-> h.file, at |-> h.at, used |-> h.used]
    /\ h.index \in Nat
    /\ h.file \in Files \cup {-1}
    /\ h.at \in Nat \cup {-1}

\* The most blocks that a chunk makes.
MaxBlocks == IF Op = "engine_filter" THEN 1 ELSE Fanout

Capacity ==
    IF Op \in BatchOps THEN NumChunks
    ELSE IF Op \in EmitOps THEN NumChunks * MaxBlocks ELSE 0

TypeInv ==
    /\ IsSeq(source)
    /\ \A ch \in Chunks : source[ch].index \in Nat
    /\ phase \in {"begins", "parallel", "joined", "returned", "scatters", "gathers"}
    /\ unread \subseteq Chunks
    /\ batch \in Nat /\ counter \in Nat
    /\ pc \in [Tasks -> {"polls", "filter", "sieve", "find_if", "emits", "slot", "place",
                         "pushes", "scatters", "flushes", "done"}]
    /\ chunk \in [Tasks -> 0..NumChunks]
    /\ slot_for \in [Tasks -> Nat \cup {-1}]
    /\ IsMap(blocks, Tasks) /\ IsMap(base, Tasks) /\ IsMap(buffer, Tasks)
    /\ file_offsets \in [Files -> Nat]
    /\ IsMap(headers, DOMAIN headers)
    /\ \A s \in DOMAIN headers : IsHeader(headers[s])
    /\ IsFiniteSet(pushed)

\* A job is one of the main program's, or calls on elements in chunks of up to a block.
JobInv ==
    \/ /\ job \in Seq(ElementCalls) \ {<<>>}
       /\ \A ch \in Chunks : source[ch].used \in 0..ChunkSize
    \/ job \in {<<"find_if">>, <<"sieve">>}
    \/ /\ job \in {<<"iota">>, <<"bool", "sieve">>, <<"write_iota", "find_if">>}
       /\ NumChunks = ChunksFor(Length)

\* The headers of elements say how many there are, up to a block.
SizedInv ==
    job \in Seq(ElementCalls) =>
        \A s \in DOMAIN headers : headers[s].used \in 0..ChunkSize

\* Where a task can be in a call.
PcInv ==
    /\ phase \in {"scatters", "gathers"} => Op = "shuffle"
    /\ Running => Op # "shuffle"
    /\ phase = "joined" => Op # "reduce"
    /\ \A i \in Tasks :
         /\ phase = "begins" => pc[i] = "polls"
         /\ phase \in {"joined", "gathers"} => pc[i] = "done"
         /\ phase = "returned" => pc[i] \in {"polls", "done"}
         /\ phase = "parallel" /\ ~InBatch /\ Op # "reduce" => pc[i] = "polls"
         /\ pc[i] \in {"filter", "sieve", "find_if"} => phase = "parallel" /\ Op = pc[i]
         /\ pc[i] \in {"emits", "pushes"} => phase = "parallel" /\ Op \in EmitOps
         /\ pc[i] = "slot" => phase = "parallel" /\ Op = "map"
         /\ pc[i] = "place" => phase = "parallel" /\ Op \in EmitOps \ {"map"}
         /\ pc[i] \in {"scatters", "flushes"} => phase = "scatters"

\* A task that polls has nothing, and only some calls give it a slot or blocks.
RestInv ==
    /\ \A i \in Tasks :
         /\ pc[i] = "polls" => slot_for[i] = -1 /\ chunk[i] = 0
         /\ Op \notin BatchOps \cup EmitOps => slot_for[i] = -1
         /\ phase = "returned" => slot_for[i] = -1
         /\ phase = "scatters" => chunk[i] = 0
         /\ pc[i] \notin {"emits", "slot", "place", "pushes"} => blocks[i] = <<>>
    /\ phase = "begins" =>
         batch = 0 /\ counter = 0 /\ pushed = {} /\ unread = {} /\ file_offsets = [f \in Files |-> 0]

\* The output array.
ArrayInv ==
    /\ IsFiniteSet(DOMAIN headers)
    /\ DOMAIN headers = 0..(Cardinality(DOMAIN headers) - 1)
    /\ Running => DOMAIN headers = 0..(Capacity - 1)
    /\ phase \in {"begins", "scatters"} => DOMAIN headers = {}

\* The headers with a place are the blocks of the output, which are
\* pushed to places that were passed.
Used == {s \in DOMAIN headers : headers[s].at # -1}
PlaceOf(h) == <<h.file, h.at>>
OutputBlocks == {b \in pushed : b.file \in Files}

MatchInv ==
    /\ \A s \in Used : headers[s].file \in Files /\ headers[s].at < file_offsets[headers[s].file]
    /\ \A s, t \in Used : PlaceOf(headers[s]) = PlaceOf(headers[t]) => s = t
    /\ \A s \in Used : \E b \in OutputBlocks : PlaceOf(b) = PlaceOf(headers[s])
    /\ \A b \in OutputBlocks : \E s \in Used : PlaceOf(b) = PlaceOf(headers[s])
    /\ \A b, c \in OutputBlocks : PlaceOf(b) = PlaceOf(c) => b = c

\* The slots of a batch lie one behind the other, behind those of earlier batches.
BatchInv ==
    Running /\ Op \in BatchOps =>
        /\ counter = Cardinality(Filled)
        /\ \A i \in Filled :
             /\ slot_for[i] \in SlotOfBatch(0)..(SlotOfBatch(counter) - 1)
             /\ slot_for[i] \in DOMAIN headers
             /\ headers[slot_for[i]].at = -1
             /\ headers[slot_for[i]].file \in Files
             /\ pc[i] = "done"
        /\ \A i, k \in Filled : slot_for[i] = slot_for[k] => i = k
        /\ \A s \in Used : s < SlotOfBatch(0)

\* Who fills a slot has a chunk, and all earlier batches were full.
Polled == {i \in Tasks : chunk[i] # 0}

FillInv ==
    /\ Running /\ Op \in GenerateOps => \A i \in Filled : SlotOfBatch(i) < NumChunks
    /\ Running /\ Op \in PollOps =>
         /\ unread # {} \/ Polled # {} =>
              SlotOfBatch(Cardinality(Polled)) + Cardinality(unread) = NumChunks
         /\ Filled \subseteq Polled
         /\ \A i \in Tasks :
              /\ pc[i] \in PollOps => i \in Polled
              /\ pc[i] = "done" /\ i \notin Polled => unread = {}

\* The tasks of map and of the engine that have a slot or a place for their first block.
HasSlot(i) == pc[i] = "pushes" \/ pc[i] = "place"
HasPlace(i) == pc[i] = "pushes" \/ pc[i] = "slot"

\* The blocks that still need a slot.
SlotsNeeded(i) == Len(blocks[i]) - (IF HasSlot(i) THEN 1 ELSE 0)
Pending == {p \in Tasks \X Nat : p[2] \in 1..SlotsNeeded(p[1])}

EmitInv ==
    Running /\ Op \in EmitOps =>
        /\ \A i \in Tasks :
             /\ IsSeq(blocks[i])
             /\ \A k \in 1..Len(blocks[i]) : /\ blocks[i][k].index \in Nat
                                             /\ Len(blocks[i][k].content) \in 0..ChunkSize
             /\ pc[i] \notin {"polls", "done"} => blocks[i] # <<>>
             /\ slot_for[i] < counter
             /\ HasSlot(i) => slot_for[i] # -1 /\ slot_for[i] \notin Used
             /\ HasPlace(i) =>
                  /\ IsHeader(base[i])
                  /\ base[i].file \in Files /\ base[i].at \in Nat
                  /\ base[i].at < file_offsets[base[i].file]
                  /\ base[i].used \in 0..ChunkSize
                  /\ \A s \in Used : PlaceOf(headers[s]) # PlaceOf(base[i])
        /\ \A i, k \in Tasks :
             /\ HasSlot(i) /\ HasSlot(k) /\ slot_for[i] = slot_for[k] => i = k
             /\ HasPlace(i) /\ HasPlace(k) /\ PlaceOf(base[i]) = PlaceOf(base[k]) => i = k
        /\ \A s \in Used : s < counter

\* The output array has room for all blocks to come.
RoomInv ==
    Running /\ Op \in EmitOps =>
        /\ IsFiniteSet(Pending)
        /\ counter + Cardinality(Pending) + Cardinality(unread) * MaxBlocks <= Capacity

\* The elements in the blocks of bucket b.
SizeOf(b) == Total([k \in DOMAIN BlocksOf(b) |-> BlocksOf(b)[k].used])

\* The buckets while they are filled, and the blocks made of them.
ShuffleInv ==
    phase \in {"scatters", "gathers"} =>
        /\ \E n \in {ShuffleBucketCount(Length)} : n \in Nat \ {0} /\ Buckets = 0..(n - 1)
        /\ IsMap(buf, Tasks) /\ IsMap(produced, Tasks)
        /\ \A i \in Tasks : IsMap(buf[i], Buckets) /\ IsMap(produced[i], Buckets)
        /\ \A i \in Tasks, b \in Buckets :
             /\ IsSeq(buf[i][b])
             /\ IsSeq(produced[i][b])
             /\ \A k \in 1..Len(produced[i][b]) : produced[i][b][k].used \in Nat

ScatterInv ==
    phase = "scatters" =>
        /\ OutputBlocks = {}
        /\ \A i \in Tasks : pc[i] = "scatters" => IsSeq(buffer[i])

\* A bucket has as many slots as blocks to write, apart from those of the others.
GatherInv ==
    phase = "gathers" =>
        /\ IsMap(data, Buckets)
        /\ \A b \in Buckets :
             /\ data[b] = [slot |-> data[b].slot, blocks |-> data[b].blocks, seq |-> data[b].seq]
             /\ data[b].slot \in Nat /\ data[b].blocks \in Nat /\ IsSeq(data[b].seq)
             /\ \A s \in data[b].slot..(data[b].slot + data[b].blocks - 1) :
                  s \in DOMAIN headers /\ s \notin Used
             /\ data[b].seq = <<>> =>
                  data[b].blocks \in {0, CeilDiv(SizeOf(b), ChunkSize)}
             /\ data[b].seq # <<>> =>
                  data[b].blocks = CeilDiv(Len(data[b].seq), ChunkSize)
        /\ \A b, c \in Buckets : b < c => data[b].slot + data[b].blocks <= data[c].slot

OutputInv ==
    /\ TypeInv /\ JobInv /\ SizedInv /\ PcInv /\ RestInv /\ ArrayInv /\ MatchInv
    /\ BatchInv /\ FillInv /\ EmitInv /\ RoomInv
    /\ ShuffleInv /\ ScatterInv /\ GatherInv

-----------------------------------------------------------------------------
(* Numbers and sizes                                                       *)

\* Of some finite sets one is smallest.
LEMMA SmallestSet ==
    ASSUME NEW S, IsFiniteSet(S), NEW T, T \subseteq SUBSET S, T # {}
    PROVE  \E s \in T : \A u \in SUBSET s : u # s => u \notin T
<1>1. FiniteSubsetsOf(S) = SUBSET S
  BY FS_FiniteSubsetsOfFinite
<1>2. IsWellFoundedOn(StrictSubsetOrdering(S), FiniteSubsetsOf(S))
  BY FS_StrictSubsetOrderingWellFounded
<1>3. PICK s \in T : \A u \in T : ~ (<<u, s>> \in StrictSubsetOrdering(S))
  BY <1>1, <1>2, WFMin
<1> QED BY <1>3 DEF StrictSubsetOrdering

\* Of some natural numbers one is least.
LEMMA LeastNat ==
    ASSUME NEW S, S \subseteq Nat, S # {}
    PROVE  \E n \in S : \A m \in S : n <= m
<1>1. PICK k \in S : TRUE
  OBVIOUS
<1> DEFINE T == {0..n : n \in {m \in S : m <= k}}
<1>2. T \subseteq SUBSET (0..k) /\ T # {}
  BY <1>1
<1>3. PICK s \in T : \A u \in SUBSET s : u # s => u \notin T
  <2>1. IsFiniteSet(0..k)
    BY <1>1, FS_Interval
  <2> HIDE DEF T
  <2> QED BY <1>2, <2>1, SmallestSet
<1>4. PICK n \in S : n <= k /\ s = 0..n
  BY <1>3
<1>5. ASSUME NEW m \in S, m < n PROVE FALSE
  <2>1. 0..m \in T
    BY <1>1, <1>4, <1>5
  <2>2. n \in 0..n /\ n \notin 0..m
    BY <1>5
  <2>3. 0..m \subseteq 0..n /\ 0..m # 0..n
    BY <2>2, <1>5
  <2> QED BY <1>3, <1>4, <2>1, <2>3
<1> QED BY <1>4, <1>5

\* There are n numbers from 1 to n.
LEMMA OneTo ==
    ASSUME NEW n \in Nat
    PROVE  IsFiniteSet(1..n) /\ Cardinality(1..n) = n
BY FS_Interval

\* A part of a set has no more elements than the set.
LEMMA NoMore ==
    ASSUME NEW S, IsFiniteSet(S), NEW T, T \subseteq S
    PROVE  Cardinality(T) <= Cardinality(S)
<1>1. T \in SUBSET S
  OBVIOUS
<1> QED BY <1>1, FS_Subset

\* There are no more than m + 1 numbers up to m.
LEMMA UpTo ==
    ASSUME NEW m \in Int, NEW S, S \subseteq 0..m, S # {}
    PROVE  IsFiniteSet(S) /\ Cardinality(S) <= m + 1
<1>1. m >= 0
  <2>1. PICK x \in S : x \in 0..m
    OBVIOUS
  <2> QED BY <2>1
<1>2. IsFiniteSet(0..m) /\ Cardinality(0..m) = m + 1
  BY <1>1, FS_Interval
<1> QED BY <1>2, FS_Subset

\* There are tasks and files, finitely many, and a block has room for elements.
LEMMA Sizes ==
    /\ NumSSDs \in Nat \ {0} /\ ChunkSize \in Nat \ {0} /\ Fanout \in Nat \ {0}
    /\ FlagsPerChunk \in Nat \ {0}
    /\ IsFiniteSet(Tasks) /\ Cardinality(Tasks) = NumSSDs
    /\ 0 \in Tasks /\ Tasks \subseteq Nat
<1>1. NumSSDs \in Nat \ {0}
  BY SizesAssumption
<1>2. IsFiniteSet(Tasks) /\ Cardinality(Tasks) = NumSSDs
  BY <1>1, FS_Interval DEF Tasks
<1> QED BY <1>1, <1>2, SizesAssumption DEF Tasks

\* The blocks of a chunk of map are as many as it can make.
LEMMA OutSizes == OutCap \in Nat \ {0} /\ OutCap * Fanout = ChunkSize
<1>1. /\ ChunkSize \in Nat \ {0} /\ Fanout \in Nat \ {0}
      /\ ChunkSize % Fanout = 0
  BY SizesAssumption
<1>2. ASSUME NEW c \in Nat \ {0}, NEW f \in Nat \ {0}, c % f = 0
      PROVE  (c \div f) * f = c /\ c \div f \in Nat \ {0}
  <2>1. c = f * (c \div f) + (c % f) /\ c \div f \in Int
    BY <1>2
  <2>2. DEFINE q == c \div f
  <2>3. q \in Int /\ q * f = c
    BY <2>1, <1>2
  <2>4. q > 0
    <3> HIDE DEF q
    <3>1. SUFFICES ASSUME q <= 0 PROVE FALSE
      BY <2>3
    <3>2. q * f <= 0
      BY <2>3, <3>1
    <3> QED BY <3>2, <2>3
  <2> QED BY <2>3, <2>4
<1> QED BY <1>1, <1>2 DEF OutCap

\* How many boxes of size b hold a things: none for none, one less after
\* a box was taken away, and there is room in them.
LEMMA CeilDivValue ==
    ASSUME NEW a \in Nat, NEW b \in Nat \ {0}
    PROVE  /\ CeilDiv(a, b) \in Nat
           /\ a <= CeilDiv(a, b) * b
           /\ CeilDiv(a, b) * b < a + b
<1> DEFINE q == CeilDiv(a, b)
           r == (a + b - 1) % b
<1>1. a + b - 1 = b * q + r /\ q \in Int /\ r \in 0..(b - 1)
  BY DEF CeilDiv
<1>2. q * b = b * q
  BY <1>1
<1>3. q * b \in Int
  BY <1>1
<1>4. a <= q * b /\ q * b < a + b
  <2> HIDE DEF q, r
  <2>1. q * b = a + b - 1 - r
    BY <1>1, <1>2, <1>3
  <2> QED BY <2>1, <1>1
<1>5. q >= 0
  <2> HIDE DEF q, r
  <2>1. SUFFICES ASSUME q <= -1 PROVE FALSE
    BY <1>1
  <2>2. q * b <= -b
    BY <2>1, <1>1
  <2> QED BY <2>2, <1>4, <1>3
<1> QED BY <1>1, <1>4, <1>5

\* It is determined by that.
LEMMA CeilDivIs ==
    ASSUME NEW a \in Nat, NEW b \in Nat \ {0}, NEW q \in Int,
           a <= q * b, q * b < a + b
    PROVE  CeilDiv(a, b) = q
<1> DEFINE c == CeilDiv(a, b)
<1>1. c \in Int /\ a <= c * b /\ c * b < a + b
  BY CeilDivValue
<1> HIDE DEF c
<1>2. ~ (c >= q + 1)
  <2>1. SUFFICES ASSUME c >= q + 1 PROVE FALSE
    OBVIOUS
  <2>2. c * b >= (q + 1) * b
    BY <2>1, <1>1
  <2>3. (q + 1) * b = q * b + b
    OBVIOUS
  <2> QED BY <2>2, <2>3, <1>1
<1>3. ~ (q >= c + 1)
  <2>1. SUFFICES ASSUME q >= c + 1 PROVE FALSE
    OBVIOUS
  <2>2. q * b >= (c + 1) * b
    BY <2>1, <1>1
  <2>3. (c + 1) * b = c * b + b
    BY <1>1
  <2> QED BY <2>2, <2>3, <1>1
<1> QED BY <1>1, <1>2, <1>3 DEF c

\* Nothing needs no block; something does, and one less with a block taken away.
LEMMA CeilDivTake ==
    ASSUME NEW a \in Nat, NEW b \in Nat \ {0}
    PROVE  /\ a = 0 => CeilDiv(a, b) = 0
           /\ a > 0 => /\ CeilDiv(a, b) > 0
                       /\ a <= b => CeilDiv(a, b) = 1
                       /\ a > b => CeilDiv(a - b, b) = CeilDiv(a, b) - 1
<1>1. CASE a = 0
  BY <1>1, CeilDivIs, 0 * b = 0
<1>2. CASE a > 0
  <2>1. CeilDiv(a, b) > 0
    <3> DEFINE c == CeilDiv(a, b)
    <3>1. c \in Nat /\ a <= c * b
      BY CeilDivValue
    <3> HIDE DEF c
    <3>2. c = 0 => c * b = 0
      OBVIOUS
    <3>3. c # 0
      BY <3>1, <3>2, <1>2
    <3> QED BY <3>1, <3>3 DEF c
  <2>2. ASSUME a <= b PROVE CeilDiv(a, b) = 1
    BY <2>2, <1>2, CeilDivIs, 1 * b = b
  <2>3. ASSUME a > b PROVE CeilDiv(a - b, b) = CeilDiv(a, b) - 1
    <3> DEFINE c == CeilDiv(a, b)
    <3>1. c \in Nat /\ a <= c * b /\ c * b < a + b
      BY CeilDivValue
    <3> HIDE DEF c
    <3>2. (c - 1) * b = c * b - b
      BY <3>1
    <3>3. a - b \in Nat
      BY <2>3
    <3>4. a - b <= (c - 1) * b /\ (c - 1) * b < (a - b) + b
      BY <3>1, <3>2, <3>3
    <3>5. CeilDiv(a - b, b) = c - 1
      BY <3>1, <3>3, <3>4, CeilDivIs
    <3> QED BY <3>5 DEF c
  <2> QED BY <1>2, <2>1, <2>2, <2>3
<1> QED BY <1>1, <1>2

\* The smaller and the larger of two.
LEMMA MinOfTwo ==
    ASSUME NEW a \in Int, NEW b \in Int
    PROVE  MinOf({a, b}) = IF a <= b THEN a ELSE b
<1>1. \E x \in {a, b} : \A y \in {a, b} : x <= y
  OBVIOUS
<1>2. /\ MinOf({a, b}) \in {a, b}
      /\ \A y \in {a, b} : MinOf({a, b}) <= y
  BY <1>1 DEF MinOf
<1> QED BY <1>2

LEMMA MaxOfTwo ==
    ASSUME NEW a \in Int, NEW b \in Int
    PROVE  MaxOf({a, b}) = IF a >= b THEN a ELSE b
<1>1. \E x \in {a, b} : \A y \in {a, b} : x >= y
  OBVIOUS
<1>2. /\ MaxOf({a, b}) \in {a, b}
      /\ \A y \in {a, b} : MaxOf({a, b}) >= y
  BY <1>1 DEF MaxOf
<1> QED BY <1>2

-----------------------------------------------------------------------------
(* Sums of sequences, and the lengths of sequences put one behind another  *)

\* The sums of the first numbers of a sequence.
SumsOf(c, g, n) == g = [k \in 0..n |-> IF k = 0 THEN 0 ELSE g[k - 1] + c[k]]

\* The sums of the first n are those of the first n - 1 and one more.
LEMMA SumsExist ==
    ASSUME NEW c, NEW n \in Nat
    PROVE  \E g : SumsOf(c, g, n)
<1> DEFINE T == {m \in Nat : ~ \E g : SumsOf(c, g, m)}
<1>1. SUFFICES ASSUME T # {} PROVE FALSE
  OBVIOUS
<1>2. PICK m \in T : \A k \in T : m <= k
  <2>1. T \subseteq Nat
    OBVIOUS
  <2> HIDE DEF T
  <2> QED BY <1>1, <2>1, LeastNat
<1>3. CASE m = 0
  <2> DEFINE g == [k \in 0..0 |-> 0]
  <2>1. SumsOf(c, g, 0)
    BY DEF SumsOf
  <2> QED BY <1>2, <1>3, <2>1
<1>4. CASE m # 0
  <2>1. m \in Nat /\ m - 1 \in Nat /\ m - 1 \notin T
    BY <1>2, <1>4
  <2>2. PICK f : SumsOf(c, f, m - 1)
    BY <2>1
  <2>3. ASSUME NEW k \in 0..(m - 1) PROVE f[k] = IF k = 0 THEN 0 ELSE f[k - 1] + c[k]
    BY <2>2 DEF SumsOf
  <2> DEFINE h == [k \in 0..m |-> IF k = m THEN f[m - 1] + c[m] ELSE f[k]]
  <2>4. ASSUME NEW k \in 0..m PROVE h[k] = IF k = 0 THEN 0 ELSE h[k - 1] + c[k]
    <3>1. CASE k = m
      BY <3>1, <1>4, <2>1
    <3>2. CASE k # m
      <4>1. k \in 0..(m - 1) /\ (k # 0 => k - 1 \in 0..(m - 1))
        BY <3>2, <2>1
      <4> QED BY <4>1, <3>2, <2>1, <2>3
    <3> QED BY <3>1, <3>2
  <2>5. h = [k \in 0..m |-> h[k]]
    OBVIOUS
  <2> HIDE DEF h
  <2>6. SumsOf(c, h, m)
    BY <2>4, <2>5 DEF SumsOf
  <2> QED BY <2>6, <1>2
<1> QED BY <1>3, <1>4

\* Total is the last of them.
LEMMA TotalSums ==
    ASSUME NEW c, Len(c) \in Nat
    PROVE  \E g : SumsOf(c, g, Len(c)) /\ Total(c) = g[Len(c)]
<1> DEFINE G == CHOOSE g : SumsOf(c, g, Len(c))
<1>1. SumsOf(c, G, Len(c))
  BY SumsExist
<1>2. Total(c) = G[Len(c)]
  BY DEF Total, SumsOf
<1> HIDE DEF G
<1> QED BY <1>1, <1>2

\* Whatever adds up in the same way has the same sums.
LEMMA TotalIs ==
    ASSUME NEW c, Len(c) \in Nat, NEW f, f[0] = 0,
           \A k \in 1..Len(c) : f[k] = f[k - 1] + c[k]
    PROVE  Total(c) = f[Len(c)]
<1>1. PICK g : SumsOf(c, g, Len(c)) /\ Total(c) = g[Len(c)]
  BY TotalSums
<1> DEFINE T == {k \in 0..Len(c) : g[k] # f[k]}
<1>2. SUFFICES ASSUME T # {} PROVE FALSE
  BY <1>1
<1>3. PICK k \in T : \A j \in T : k <= j
  <2>1. T \subseteq Nat
    OBVIOUS
  <2> HIDE DEF T
  <2> QED BY <1>2, <2>1, LeastNat
<1>4. g[k] = IF k = 0 THEN 0 ELSE g[k - 1] + c[k]
  BY <1>1, <1>3 DEF SumsOf
<1>5. k # 0
  BY <1>3, <1>4
<1>6. k - 1 \in 0..Len(c) /\ k - 1 \notin T /\ k \in 1..Len(c)
  BY <1>3, <1>5
<1>7. g[k - 1] = f[k - 1]
  BY <1>6
<1> QED BY <1>3, <1>4, <1>5, <1>6, <1>7

\* g has the sums of the first of n numbers: they are numbers and grow.
Grows(c, g, n) ==
    /\ g \in [0..n -> Nat] /\ g[0] = 0
    /\ \A k \in 1..n : g[k] = g[k - 1] + c[k]
    /\ \A k \in 0..n : \A d :
         Len(d) = k /\ (\A j \in 1..k : d[j] = c[j]) => Total(d) = g[k]
    /\ \A j, k \in 0..n : j <= k => g[j] <= g[k]

LEMMA TotalGrows ==
    ASSUME NEW n \in Nat, NEW c, \A k \in 1..n : c[k] \in Nat
    PROVE  \E g : Grows(c, g, n)
<1>1. PICK g : SumsOf(c, g, n)
  BY SumsExist
<1>2. ASSUME NEW k \in 0..n PROVE g[k] = IF k = 0 THEN 0 ELSE g[k - 1] + c[k]
  BY <1>1 DEF SumsOf
<1>3. g[0] = 0 /\ \A k \in 1..n : g[k] = g[k - 1] + c[k]
  BY <1>2
<1>4. \A k \in 0..n : g[k] \in Nat
  <2> DEFINE T == {k \in 0..n : g[k] \notin Nat}
  <2>1. SUFFICES ASSUME T # {} PROVE FALSE
    OBVIOUS
  <2>2. PICK k \in T : \A j \in T : k <= j
    <3>1. T \subseteq Nat
      OBVIOUS
    <3> HIDE DEF T
    <3> QED BY <2>1, <3>1, LeastNat
  <2>3. k # 0 /\ k \in 1..n /\ k - 1 \in 0..n /\ k - 1 \notin T
    BY <2>2, <1>3
  <2> QED BY <2>2, <2>3, <1>3
<1>5. g \in [0..n -> Nat]
  BY <1>1, <1>4 DEF SumsOf
<1>6. ASSUME NEW k \in 0..n, NEW d, Len(d) = k, \A j \in 1..k : d[j] = c[j]
      PROVE  Total(d) = g[k]
  <2>1. \A j \in 1..k : g[j] = g[j - 1] + d[j]
    BY <1>3, <1>6
  <2> QED BY <1>3, <1>6, <2>1, TotalIs
<1>7. ASSUME NEW j \in 0..n, NEW k \in 0..n, j <= k PROVE g[j] <= g[k]
  <2> DEFINE T == {m \in j..n : ~ (g[j] <= g[m])}
  <2>1. SUFFICES ASSUME T # {} PROVE FALSE
    BY <1>7
  <2>2. PICK m \in T : \A i \in T : m <= i
    <3>1. T \subseteq Nat
      OBVIOUS
    <3> HIDE DEF T
    <3> QED BY <2>1, <3>1, LeastNat
  <2>3. m # j /\ m \in 1..n /\ m - 1 \in j..n /\ m - 1 \notin T
    BY <2>2, <1>4
  <2> QED BY <2>2, <2>3, <1>3, <1>4
<1>8. Grows(c, g, n)
  BY <1>3, <1>5, <1>6, <1>7 DEF Grows
<1> QED BY <1>8

\* The first sequences of q put one behind another.
FlatOf(q, g, n) == g = [i \in 1..n |-> IF i = 1 THEN q[i] ELSE g[i - 1] \o q[i]]

LEMMA FlatExists ==
    ASSUME NEW q, NEW n \in Nat
    PROVE  \E g : FlatOf(q, g, n)
<1> DEFINE T == {m \in Nat : ~ \E g : FlatOf(q, g, m)}
<1>1. SUFFICES ASSUME T # {} PROVE FALSE
  OBVIOUS
<1>2. PICK m \in T : \A k \in T : m <= k
  <2>1. T \subseteq Nat
    OBVIOUS
  <2> HIDE DEF T
  <2> QED BY <1>1, <2>1, LeastNat
<1>3. CASE m = 0
  <2> DEFINE g == [k \in 1..0 |-> 0]
  <2>1. FlatOf(q, g, 0)
    BY DEF FlatOf
  <2> QED BY <1>2, <1>3, <2>1
<1>4. CASE m # 0
  <2>1. m \in Nat /\ m - 1 \in Nat /\ m - 1 \notin T
    BY <1>2, <1>4
  <2>2. PICK f : FlatOf(q, f, m - 1)
    BY <2>1
  <2>3. ASSUME NEW k \in 1..(m - 1) PROVE f[k] = IF k = 1 THEN q[k] ELSE f[k - 1] \o q[k]
    BY <2>2 DEF FlatOf
  <2> DEFINE h == [k \in 1..m |-> IF k = m /\ m # 1 THEN f[m - 1] \o q[m]
                                  ELSE IF k = 1 THEN q[1] ELSE f[k]]
  <2>4. ASSUME NEW k \in 1..m PROVE h[k] = IF k = 1 THEN q[k] ELSE h[k - 1] \o q[k]
    <3>1. CASE k = 1
      BY <3>1, <2>1
    <3>2. CASE k # 1
      <4>1. k - 1 \in 1..(m - 1) /\ k - 1 # m
        BY <3>2, <2>1
      <4>2. h[k - 1] = f[k - 1]
        BY <4>1, <2>1, <2>3
      <4>3. h[k] = f[k - 1] \o q[k]
        <5>1. CASE k = m
          BY <5>1, <3>2
        <5>2. CASE k # m
          <6>1. k \in 1..(m - 1) /\ h[k] = f[k]
            BY <5>2, <3>2, <2>1
          <6> QED BY <6>1, <2>3, <3>2
        <5> QED BY <5>1, <5>2
      <4> QED BY <4>2, <4>3, <3>2
    <3> QED BY <3>1, <3>2
  <2>5. h = [k \in 1..m |-> h[k]]
    OBVIOUS
  <2> HIDE DEF h
  <2>6. FlatOf(q, h, m)
    BY <2>4, <2>5 DEF FlatOf
  <2> QED BY <2>6, <1>2
<1> QED BY <1>3, <1>4

\* Sequences put one behind another are as long as all of them.
LEMMA ConcatLength ==
    ASSUME NEW S, NEW n \in Nat, NEW q, q = [k \in 1..n |-> q[k]],
           \A k \in 1..n : q[k] \in Seq(S)
    PROVE  /\ Concat(q) \in Seq(S)
           /\ Len(Concat(q)) = Total([k \in 1..n |-> Len(q[k])])
<1> DEFINE c == [k \in 1..n |-> Len(q[k])]
<1>1. Len(q) = n /\ Len(c) = n
  OBVIOUS
<1>2. CASE n = 0
  <2>1. q = <<>>
    BY <1>2
  <2>2. Concat(q) = <<>>
    BY <2>1 DEF Concat, FlattenSeq
  <2>3. Total(c) = 0
    <3> DEFINE f == [k \in 0..0 |-> 0]
    <3>1. f[0] = 0 /\ \A k \in 1..0 : f[k] = f[k - 1] + c[k]
      OBVIOUS
    <3>2. Len(c) = 0
      BY <1>1, <1>2
    <3> HIDE DEF f, c
    <3>3. Total(c) = f[0]
      BY <3>1, <3>2, TotalIs
    <3> QED BY <3>1, <3>3
  <2> QED BY <2>2, <2>3
<1>3. CASE n # 0
  <2> DEFINE G == CHOOSE g : FlatOf(q, g, n)
  <2>1. FlatOf(q, G, n)
    BY FlatExists
  <2>2. Concat(q) = G[n]
    BY <1>1, <1>3 DEF Concat, FlattenSeq, FlatOf
  <2> HIDE DEF G
  <2>3. ASSUME NEW k \in 1..n PROVE G[k] = IF k = 1 THEN q[k] ELSE G[k - 1] \o q[k]
    BY <2>1 DEF FlatOf
  <2> DEFINE T == {k \in 1..n : G[k] \notin Seq(S)}
  <2>4. ASSUME NEW k \in 1..n PROVE G[k] \in Seq(S)
    <3>1. SUFFICES ASSUME T # {} PROVE FALSE
      OBVIOUS
    <3>2. PICK m \in T : \A i \in T : m <= i
      <4>1. T \subseteq Nat
        OBVIOUS
      <4> HIDE DEF T
      <4> QED BY <3>1, <4>1, LeastNat
    <3>3. m # 1
      BY <3>2, <2>3
    <3>4. m - 1 \in 1..n /\ m - 1 \notin T /\ m \in 1..n
      BY <3>2, <3>3
    <3>5. G[m] = G[m - 1] \o q[m]
      BY <3>3, <3>4, <2>3
    <3>6. G[m - 1] \in Seq(S) /\ q[m] \in Seq(S)
      BY <3>4
    <3>7. G[m] \in Seq(S)
      BY <3>5, <3>6, ConcatProperties
    <3> QED BY <3>2, <3>7
  <2> DEFINE f == [k \in 0..n |-> IF k = 0 THEN 0 ELSE Len(G[k])]
  <2>5. ASSUME NEW k \in 1..n PROVE f[k] = f[k - 1] + c[k]
    <3>1. CASE k = 1
      BY <3>1, <2>3, <2>4
    <3>2. CASE k # 1
      <4>1. k - 1 \in 1..n
        BY <3>2
      <4>2. G[k] = G[k - 1] \o q[k]
        BY <3>2, <2>3
      <4>3. G[k - 1] \in Seq(S) /\ q[k] \in Seq(S)
        BY <4>1, <2>4
      <4>4. Len(G[k]) = Len(G[k - 1]) + Len(q[k])
        BY <4>2, <4>3, ConcatProperties
      <4>5. f[k] = Len(G[k]) /\ f[k - 1] = Len(G[k - 1]) /\ c[k] = Len(q[k])
        BY <4>1
      <4> QED BY <4>4, <4>5
    <3> QED BY <3>1, <3>2
  <2>6. f[0] = 0 /\ f[n] = Len(G[n])
    BY <1>3
  <2> HIDE DEF f, c
  <2>7. Total(c) = f[n]
    BY <1>1, <2>5, <2>6, TotalIs
  <2> QED BY <1>3, <2>2, <2>4, <2>6, <2>7 DEF c
<1> QED BY <1>2, <1>3

-----------------------------------------------------------------------------
(* What the invariant says of the output                                   *)

\* A one-to-one image of a finite set is as large.
LEMMA SameSize ==
    ASSUME NEW S, IsFiniteSet(S), NEW f, f = [s \in S |-> f[s]],
           \A s, t \in S : f[s] = f[t] => s = t
    PROVE  /\ IsFiniteSet({f[s] : s \in S})
           /\ Cardinality({f[s] : s \in S}) = Cardinality(S)
<1> DEFINE T == {f[s] : s \in S}
<1>1. f \in [S -> T] /\ \A t \in T : \E s \in S : f[s] = t
  OBVIOUS
<1>2. f \in Bijection(S, T)
  BY <1>1 DEF Bijection, Injection, Surjection, IsInjective
<1>3. ExistsBijection(S, T)
  BY <1>2 DEF ExistsBijection
<1> HIDE DEF T
<1>4. IsFiniteSet(T) /\ Cardinality(T) = Cardinality(S)
  BY <1>3, FS_Bijection
<1> QED BY <1>4 DEF T

\* There is a slot for every task that has one.
LEMMA SlotsFit ==
    ASSUME OutputInv, NEW i \in Tasks, slot_for[i] # -1
    PROVE  slot_for[i] \in DOMAIN headers
<1>1. CASE Running /\ Op \in BatchOps
  BY <1>1 DEF OutputInv, BatchInv, Filled
<1>2. CASE Running /\ Op \in EmitOps
  <2>1. slot_for[i] \in Nat /\ slot_for[i] < counter
    BY <1>2 DEF OutputInv, TypeInv, EmitInv
  <2>2. Cardinality(Pending) \in Nat /\ Cardinality(unread) * MaxBlocks \in Nat
    <3>1. IsFiniteSet(Pending) /\ IsFiniteSet(unread)
      <4>1. unread \subseteq 1..NumChunks /\ NumChunks \in Nat
        BY DEF OutputInv, TypeInv, IsSeq, Chunks, NumChunks
      <4>2. IsFiniteSet(1..NumChunks)
        BY <4>1, FS_Interval
      <4> QED BY <4>1, <4>2, <1>2, FS_Subset DEF OutputInv, RoomInv
    <3>2. MaxBlocks \in Nat
      BY Sizes DEF MaxBlocks
    <3> QED BY <3>1, <3>2, FS_CardinalityType
  <2>3. counter \in Nat /\ counter + Cardinality(Pending) + Cardinality(unread) * MaxBlocks <= Capacity
    BY <1>2 DEF OutputInv, TypeInv, RoomInv
  <2>4. Capacity \in Int
    <3>1. NumChunks \in Nat /\ MaxBlocks \in Nat
      BY Sizes DEF OutputInv, TypeInv, IsSeq, NumChunks, MaxBlocks
    <3> QED BY <3>1 DEF Capacity
  <2>5. DOMAIN headers = 0..(Capacity - 1)
    BY <1>2 DEF OutputInv, ArrayInv
  <2> QED BY <2>1, <2>2, <2>3, <2>4, <2>5
<1>3. CASE ~Running
  <2>1. phase \in {"begins", "returned"} \/ Op = "shuffle"
    BY <1>3 DEF OutputInv, TypeInv, PcInv, Running
  <2> QED BY <2>1 DEF OutputInv, PcInv, RestInv, BatchOps, EmitOps, GenerateOps, PollOps
<1>4. CASE Op \notin BatchOps \cup EmitOps
  BY <1>4 DEF OutputInv, RestInv
<1> QED BY <1>1, <1>2, <1>3, <1>4

LEMMA InvFits == OutputInv => OutputFits
<1> SUFFICES ASSUME OutputInv PROVE OutputFits
  OBVIOUS
<1>1. \A i \in Tasks : slot_for[i] # -1 => slot_for[i] \in DOMAIN headers
  BY SlotsFit
<1>2. IsFiniteSet(Used) /\ MatchInv
  <2>1. Used \subseteq DOMAIN headers
    BY DEF Used
  <2> QED BY <2>1, FS_Subset DEF OutputInv, ArrayInv
<1> DEFINE p == [s \in Used |-> PlaceOf(headers[s])]
           b == [s \in Used |-> CHOOSE c \in OutputBlocks : PlaceOf(c) = PlaceOf(headers[s])]
<1>3. Cardinality({p[s] : s \in Used}) = Cardinality(Used)
  <2>1. \A s, t \in Used : p[s] = p[t] => s = t
    BY <1>2 DEF MatchInv
  <2>2. p = [s \in Used |-> p[s]]
    OBVIOUS
  <2> HIDE DEF p
  <2> QED BY <1>2, <2>1, <2>2, SameSize
<1>4. {p[s] : s \in Used} = {<<headers[s].file, headers[s].at>> : s \in Used}
  BY DEF PlaceOf
<1>5. \A s \in Used : b[s] \in OutputBlocks /\ PlaceOf(b[s]) = PlaceOf(headers[s])
  BY <1>2 DEF MatchInv
<1>6. Cardinality({b[s] : s \in Used}) = Cardinality(Used)
  <2>1. \A s, t \in Used : b[s] = b[t] => s = t
    <3> HIDE DEF b
    <3> QED BY <1>2, <1>5 DEF MatchInv
  <2>2. b = [s \in Used |-> b[s]]
    OBVIOUS
  <2> HIDE DEF b
  <2> QED BY <1>2, <2>1, <2>2, SameSize
<1>7. {b[s] : s \in Used} = OutputBlocks
  <2> HIDE DEF b
  <2>1. ASSUME NEW c \in OutputBlocks PROVE c \in {b[s] : s \in Used}
    <3>1. PICK s \in Used : PlaceOf(c) = PlaceOf(headers[s])
      BY <1>2 DEF MatchInv
    <3>2. c = b[s]
      BY <1>2, <1>5, <3>1 DEF MatchInv
    <3> QED BY <3>2
  <2> QED BY <1>5, <2>1
<1> HIDE DEF p, b
<1> QED BY <1>1, <1>3, <1>4, <1>6, <1>7 DEF OutputFits, Used, OutputBlocks

-----------------------------------------------------------------------------
(* The order of the headers                                                *)

\* p numbers the first n slots in some order.
Orders(p, n) ==
    /\ p \in [1..n -> 0..(n - 1)]
    /\ \A j, k \in 1..n : p[j] = p[k] => j = k
    /\ \A s \in 0..(n - 1) : \E k \in 1..n : p[k] = s

\* Sorting loses no header and repeats none.
LEMMA SortedOrder ==
    ASSUME NEW n \in Nat, \A s \in 0..(n - 1) : headers[s].index \in Nat
    PROVE  \E p : Orders(p, n) /\ SortedHeaders(n) = [k \in 1..n |-> headers[p[k]]]
<1> DEFINE slots == 0..(n - 1)
           Before(s) == {t \in slots : \/ headers[t].index < headers[s].index
                                       \/ headers[t].index = headers[s].index /\ t < s}
           r == [s \in slots |-> Cardinality(Before(s))]
           p == [k \in 1..n |-> CHOOSE s \in slots : Cardinality(Before(s)) = k - 1]
<1>1. IsFiniteSet(slots) /\ Cardinality(slots) = n
  BY FS_Interval
<1>2. ASSUME NEW s \in slots PROVE IsFiniteSet(Before(s)) /\ Cardinality(Before(s)) \in Nat
  <2>1. Before(s) \subseteq slots
    OBVIOUS
  <2> HIDE DEF slots, Before
  <2> QED BY <1>1, <2>1, FS_Subset, FS_CardinalityType
<1>3. ASSUME NEW s \in slots PROVE r[s] \in slots
  <2>1. Before(s) \subseteq slots \ {s}
    OBVIOUS
  <2>2. IsFiniteSet(slots \ {s}) /\ Cardinality(slots \ {s}) = n - 1
    BY <1>1, FS_RemoveElement
  <2>3. Cardinality(Before(s)) <= n - 1
    <3> HIDE DEF slots, Before
    <3> QED BY <2>1, <2>2, FS_Subset
  <2>4. r[s] = Cardinality(Before(s))
    OBVIOUS
  <2>5. Cardinality(Before(s)) \in Nat
    BY <1>2
  <2> HIDE DEF Before, r
  <2> QED BY <2>3, <2>4, <2>5
<1>4. ASSUME NEW s \in slots, NEW t \in slots, s \in Before(t) PROVE r[s] < r[t]
  <2>1. Before(s) \cup {s} \subseteq Before(t) /\ s \notin Before(s)
    BY <1>4
  <2>2. IsFiniteSet(Before(s)) /\ IsFiniteSet(Before(t)) /\ Cardinality(Before(s)) \in Nat
        /\ Cardinality(Before(t)) \in Nat
    BY <1>2
  <2> HIDE DEF Before
  <2>3. Cardinality(Before(s) \cup {s}) = Cardinality(Before(s)) + 1
    BY <2>1, <2>2, FS_AddElement
  <2>4. Cardinality(Before(s) \cup {s}) <= Cardinality(Before(t))
    BY <2>1, <2>2, FS_Subset
  <2> QED BY <2>2, <2>3, <2>4
<1>5. ASSUME NEW s \in slots, NEW t \in slots, r[s] = r[t] PROVE s = t
  <2>1. s = t \/ s \in Before(t) \/ t \in Before(s)
    OBVIOUS
  <2>2. r[s] \in Nat
    BY <1>3
  <2> HIDE DEF Before, r
  <2> QED BY <1>4, <1>5, <2>1, <2>2
<1>6. \A k \in slots : \E s \in slots : r[s] = k
  <2>1. r \in Injection(slots, slots)
    <3>1. r \in [slots -> slots]
      BY <1>3
    <3> HIDE DEF r, slots
    <3> QED BY <3>1, <1>5 DEF Injection, IsInjective
  <2> HIDE DEF r, slots
  <2>2. r \in Surjection(slots, slots)
    BY <1>1, <2>1, FS_Injection
  <2> QED BY <2>2 DEF Surjection
<1>7. ASSUME NEW k \in 1..n PROVE p[k] \in slots /\ r[p[k]] = k - 1
  <2>1. k - 1 \in slots
    OBVIOUS
  <2>2. \E s \in slots : Cardinality(Before(s)) = k - 1
    <3>1. \A s \in slots : r[s] = Cardinality(Before(s))
      OBVIOUS
    <3> HIDE DEF r, slots, Before
    <3> QED BY <2>1, <3>1, <1>6
  <2>3. p[k] = CHOOSE s \in slots : Cardinality(Before(s)) = k - 1
    OBVIOUS
  <2>4. p[k] \in slots /\ Cardinality(Before(p[k])) = k - 1
    <3> HIDE DEF p, slots, Before
    <3> QED BY <2>2, <2>3
  <2> HIDE DEF p
  <2> QED BY <2>4
<1>8. ASSUME NEW s \in slots PROVE r[s] + 1 \in 1..n /\ p[r[s] + 1] = s
  <2>1. r[s] + 1 \in 1..n
    BY <1>3
  <2>2. p[r[s] + 1] \in slots /\ r[p[r[s] + 1]] = r[s]
    <3>1. r[s] \in slots
      BY <1>3
    <3> HIDE DEF p, r
    <3>2. p[r[s] + 1] \in slots /\ r[p[r[s] + 1]] = (r[s] + 1) - 1
      BY <2>1, <1>7
    <3> QED BY <3>1, <3>2
  <2> HIDE DEF p, r, slots
  <2> QED BY <2>1, <2>2, <1>5
<1>9. SortedHeaders(n) = [k \in 1..n |-> headers[p[k]]]
  BY DEF SortedHeaders
<1>10. Orders(p, n)
  <2>1. p \in [1..n -> slots]
    <3> HIDE DEF slots, Before
    <3>1. p = [k \in 1..n |-> p[k]]
      OBVIOUS
    <3> HIDE DEF p
    <3> QED BY <3>1, <1>7
  <2>2. \A j, k \in 1..n : p[j] = p[k] => j = k
    <3> HIDE DEF p, r, slots
    <3>1. \A k \in 1..n : r[p[k]] = k - 1
      BY <1>7
    <3> QED BY <3>1
  <2>3. \A s \in slots : \E k \in 1..n : p[k] = s
    <3> HIDE DEF p
    <3> QED BY <1>8
  <2> HIDE DEF p
  <2> QED BY <2>1, <2>2, <2>3 DEF Orders
<1> HIDE DEF p
<1> QED BY <1>9, <1>10

-----------------------------------------------------------------------------
(* How headers and blocks stay together                                    *)

\* The header of a used slot has a place.
LEMMA UsedPlace ==
    ASSUME TypeInv, MatchInv, NEW s \in Used
    PROVE  /\ s \in DOMAIN headers
           /\ headers[s].file \in Files /\ headers[s].at \in Nat
           /\ headers[s].at < file_offsets[headers[s].file]
BY DEF TypeInv, MatchInv, Used, IsHeader

\* The used slots and their headers stay, and no place is given back.
LEMMA MatchSame ==
    ASSUME TypeInv, MatchInv, Used' = Used, \A s \in Used : headers'[s] = headers[s],
           OutputBlocks' = OutputBlocks,
           \A f \in Files : file_offsets'[f] \in Nat /\ file_offsets[f] <= file_offsets'[f]
    PROVE  MatchInv'
<1>1. \A s \in Used : /\ headers[s].file \in Files /\ headers[s].at \in Nat
                      /\ headers[s].at < file_offsets[headers[s].file]
  BY UsedPlace
<1>2. \A f \in Files : file_offsets[f] \in Nat
  BY DEF TypeInv
<1>3. \A s \in Used' : headers'[s].file \in Files /\ headers'[s].at < file_offsets'[headers'[s].file]
  BY <1>1, <1>2
<1> QED BY <1>3 DEF MatchInv

\* A header with a place of its own goes to an unused slot, its block to the writer.
LEMMA MatchAdded ==
    ASSUME TypeInv, MatchInv, NEW s \in DOMAIN headers, s \notin Used,
           NEW h, h.file \in Files, h.at \in Nat, h.at < file_offsets'[h.file],
           \A t \in Used : PlaceOf(headers[t]) # PlaceOf(h),
           NEW c, pushed' = pushed \cup {Block(h, c)},
           headers' = [headers EXCEPT ![s] = h],
           \A f \in Files : file_offsets'[f] \in Nat /\ file_offsets[f] <= file_offsets'[f]
    PROVE  MatchInv' /\ Used' = Used \cup {s} /\ DOMAIN headers' = DOMAIN headers
<1> DEFINE b == Block(h, c)
<1>1. /\ DOMAIN headers' = DOMAIN headers /\ headers'[s] = h
      /\ \A t \in DOMAIN headers : t # s => headers'[t] = headers[t]
  BY DEF TypeInv, IsMap
<1>2. Used' = Used \cup {s} /\ \A t \in Used : headers'[t] = headers[t]
  BY <1>1 DEF Used
<1>3. OutputBlocks' = OutputBlocks \cup {b} /\ PlaceOf(b) = PlaceOf(h)
  BY DEF OutputBlocks, Block, PlaceOf
<1> HIDE DEF b
<1>4. \A t \in Used : /\ headers[t].file \in Files /\ headers[t].at \in Nat
                      /\ headers[t].at < file_offsets[headers[t].file]
  BY UsedPlace
<1>5. \A f \in Files : file_offsets[f] \in Nat
  BY DEF TypeInv
<1>6. \A t \in Used' : headers'[t].file \in Files /\ headers'[t].at < file_offsets'[headers'[t].file]
  BY <1>1, <1>2, <1>4, <1>5
<1>7. \A t, u \in Used' : PlaceOf(headers'[t]) = PlaceOf(headers'[u]) => t = u
  BY <1>1, <1>2 DEF MatchInv
<1>8. \A t \in Used' : \E d \in OutputBlocks' : PlaceOf(d) = PlaceOf(headers'[t])
  BY <1>1, <1>2, <1>3 DEF MatchInv
<1>9. \A d \in OutputBlocks' : \E t \in Used' : PlaceOf(d) = PlaceOf(headers'[t])
  BY <1>1, <1>2, <1>3 DEF MatchInv
<1>10. \A d, e \in OutputBlocks' : PlaceOf(d) = PlaceOf(e) => d = e
  <2>1. \A d \in OutputBlocks : PlaceOf(d) # PlaceOf(h)
    BY DEF MatchInv
  <2> QED BY <1>3, <2>1 DEF MatchInv
<1> QED BY <1>1, <1>2, <1>6, <1>7, <1>8, <1>9, <1>10 DEF MatchInv

\* The headers go to other slots, and none that has a place is lost.
LEMMA MatchOrdered ==
    ASSUME TypeInv, MatchInv, NEW n \in Nat, NEW p, Orders(p, n),
           Used \subseteq 0..(n - 1), 0..(n - 1) \subseteq DOMAIN headers,
           DOMAIN headers' = 0..(n - 1),
           \A k \in 1..n : /\ headers'[k - 1].file = headers[p[k]].file
                           /\ headers'[k - 1].at = headers[p[k]].at,
           UNCHANGED <<pushed, file_offsets>>
    PROVE  MatchInv'
<1> DEFINE q == [s \in 0..(n - 1) |-> p[s + 1]]
<1>1. ASSUME NEW s \in 0..(n - 1)
      PROVE  /\ q[s] \in 0..(n - 1)
             /\ headers'[s].file = headers[q[s]].file
             /\ headers'[s].at = headers[q[s]].at
  <2>1. s + 1 \in 1..n /\ (s + 1) - 1 = s
    OBVIOUS
  <2> QED BY <2>1 DEF Orders
<1>2. ASSUME NEW s \in 0..(n - 1), NEW t \in 0..(n - 1), q[s] = q[t] PROVE s = t
  <2>1. s + 1 \in 1..n /\ t + 1 \in 1..n
    OBVIOUS
  <2> QED BY <2>1, <1>2 DEF Orders
<1>3. ASSUME NEW s \in 0..(n - 1) PROVE \E t \in 0..(n - 1) : q[t] = s
  <2>1. PICK k \in 1..n : p[k] = s
    BY DEF Orders
  <2>2. k - 1 \in 0..(n - 1) /\ (k - 1) + 1 = k
    OBVIOUS
  <2> QED BY <2>1, <2>2
<1> HIDE DEF q
<1>4. Used' = {s \in 0..(n - 1) : q[s] \in Used}
  BY <1>1 DEF Used
<1>5. \A s \in Used' : q[s] \in Used /\ PlaceOf(headers'[s]) = PlaceOf(headers[q[s]])
  BY <1>1, <1>4 DEF PlaceOf
<1>6. \A t \in Used : \E s \in Used' : q[s] = t
  BY <1>3, <1>4
<1>7. OutputBlocks' = OutputBlocks
  BY DEF OutputBlocks
<1>8. \A s \in Used' : headers'[s].file \in Files /\ headers'[s].at < file_offsets'[headers'[s].file]
  BY <1>1, <1>4, <1>5 DEF MatchInv
<1>9. \A s, t \in Used' : PlaceOf(headers'[s]) = PlaceOf(headers'[t]) => s = t
  <2> SUFFICES ASSUME NEW s \in Used', NEW t \in Used',
                      PlaceOf(headers'[s]) = PlaceOf(headers'[t])
               PROVE  s = t
    OBVIOUS
  <2>1. PlaceOf(headers[q[s]]) = PlaceOf(headers[q[t]]) /\ q[s] \in Used /\ q[t] \in Used
    BY <1>5
  <2>2. q[s] = q[t]
    BY <2>1 DEF MatchInv
  <2> QED BY <2>2, <1>2, <1>4
<1>10. \A s \in Used' : \E b \in OutputBlocks' : PlaceOf(b) = PlaceOf(headers'[s])
  <2> SUFFICES ASSUME NEW s \in Used'
               PROVE  \E b \in OutputBlocks : PlaceOf(b) = PlaceOf(headers'[s])
    BY <1>7
  <2>1. q[s] \in Used /\ PlaceOf(headers'[s]) = PlaceOf(headers[q[s]])
    BY <1>5
  <2> QED BY <2>1 DEF MatchInv
<1>11. \A b \in OutputBlocks' : \E s \in Used' : PlaceOf(b) = PlaceOf(headers'[s])
  <2> SUFFICES ASSUME NEW b \in OutputBlocks
               PROVE  \E s \in Used' : PlaceOf(b) = PlaceOf(headers'[s])
    BY <1>7
  <2>1. PICK t \in Used : PlaceOf(b) = PlaceOf(headers[t])
    BY DEF MatchInv
  <2>2. PICK s \in Used' : q[s] = t
    BY <1>6
  <2> QED BY <2>1, <2>2, <1>5
<1>12. \A b, c \in OutputBlocks' : PlaceOf(b) = PlaceOf(c) => b = c
  BY <1>7 DEF MatchInv
<1> QED BY <1>8, <1>9, <1>10, <1>11, <1>12 DEF MatchInv

\* Nothing is used and nothing was pushed.
LEMMA MatchEmpty ==
    ASSUME Used = {}, OutputBlocks = {}
    PROVE  MatchInv
BY DEF MatchInv

-----------------------------------------------------------------------------
(* Sequences of anything                                                   *)

LEMMA SeqOfSeq ==
    ASSUME NEW s, IsSeq(s)
    PROVE  s \in Seq({s[i] : i \in 1..Len(s)})
BY DEF IsSeq, IsMap

LEMMA IsSeqSeq ==
    ASSUME NEW S, NEW s \in Seq(S)
    PROVE  IsSeq(s) /\ DOMAIN s = 1..Len(s) /\ \A i \in 1..Len(s) : s[i] \in S
BY DEF IsSeq, IsMap

\* Only the empty sequence has no elements.
LEMMA EmptyIs ==
    ASSUME NEW s, IsSeq(s)
    PROVE  Len(s) \in Nat /\ (s = <<>> <=> Len(s) = 0) /\ DOMAIN s = 1..Len(s)
<1>1. s \in Seq({s[i] : i \in 1..Len(s)})
  BY SeqOfSeq
<1> QED BY <1>1, EmptySeq

LEMMA IsSeqOf ==
    ASSUME NEW n \in Nat, NEW s, s = [i \in 1..n |-> s[i]]
    PROVE  IsSeq(s) /\ Len(s) = n
BY DEF IsSeq, IsMap

LEMMA IsSeqAppend ==
    ASSUME NEW s, IsSeq(s), NEW e
    PROVE  /\ IsSeq(Append(s, e)) /\ Len(Append(s, e)) = Len(s) + 1
           /\ \A i \in 1..Len(s) : Append(s, e)[i] = s[i]
           /\ Append(s, e)[Len(s) + 1] = e
<1> DEFINE S == {s[i] : i \in 1..Len(s)} \cup {e}
<1>1. s \in Seq(S)
  BY DEF IsSeq, IsMap
<1> HIDE DEF S
<1>2. e \in S
  BY DEF S
<1>3. Append(s, e) \in Seq(S)
  BY <1>1, <1>2, AppendProperties
<1>4. IsSeq(Append(s, e))
  BY <1>3, IsSeqSeq
<1> QED BY <1>1, <1>2, <1>4, AppendProperties

LEMMA IsSeqTail ==
    ASSUME NEW s, IsSeq(s), s # <<>>
    PROVE  /\ IsSeq(Tail(s)) /\ Len(Tail(s)) = Len(s) - 1
           /\ \A i \in 1..Len(Tail(s)) : Tail(s)[i] = s[i + 1]
           /\ Head(s) = s[1] /\ 1 \in 1..Len(s)
<1> DEFINE S == {s[i] : i \in 1..Len(s)}
<1>1. s \in Seq(S)
  BY SeqOfSeq
<1> HIDE DEF S
<1>2. Tail(s) \in Seq(S) /\ Len(s) \in Nat \ {0}
  BY <1>1, HeadTailProperties, EmptySeq
<1>3. IsSeq(Tail(s))
  BY <1>2, IsSeqSeq
<1>4. /\ Len(Tail(s)) = Len(s) - 1
      /\ \A i \in 1..Len(Tail(s)) : Tail(s)[i] = s[i + 1]
  BY <1>1, HeadTailProperties
<1>5. Head(s) = s[1] /\ 1 \in 1..Len(s)
  BY <1>1, <1>2
<1> QED BY <1>3, <1>4, <1>5

LEMMA IsSeqSubSeq ==
    ASSUME NEW s, NEW m \in Int, NEW n \in Int
    PROVE  /\ IsSeq(SubSeq(s, m, n))
           /\ Len(SubSeq(s, m, n)) = IF m <= n THEN n - m + 1 ELSE 0
<1> DEFINE S == {s[i] : i \in m..n}
<1>1. \A i \in m..n : s[i] \in S
  OBVIOUS
<1> HIDE DEF S
<1>2. SubSeq(s, m, n) \in Seq(S)
  BY <1>1, SubSeqProperties
<1>3. Len(SubSeq(s, m, n)) = IF m <= n THEN n - m + 1 ELSE 0
  BY <1>1, SubSeqProperties
<1> DEFINE t == SubSeq(s, m, n)
<1>4. IsSeq(t)
  <2>1. t \in Seq(S)
    BY <1>2
  <2> HIDE DEF t
  <2> QED BY <2>1, IsSeqSeq
<1> QED BY <1>3, <1>4

-----------------------------------------------------------------------------
(* How much there is                                                       *)

\* What there is to read is as long as the headers say.
LEMMA InputLength ==
    ASSUME IsSeq(source), \A ch \in Chunks : source[ch].used \in Nat
    PROVE  /\ Length = Total([ch \in Chunks |-> source[ch].used])
           /\ Length \in Nat
<1> DEFINE q == [ch \in Chunks |-> ElementsOf(ch)]
           S == UNION {{source[ch].block[j] : j \in 1..source[ch].used} : ch \in Chunks}
<1>1. NumChunks \in Nat /\ Chunks = 1..NumChunks
  BY DEF IsSeq, NumChunks, Chunks
<1>2. ASSUME NEW ch \in Chunks
      PROVE  ElementsOf(ch) \in Seq(S) /\ Len(ElementsOf(ch)) = source[ch].used
  <2>1. \A j \in 1..source[ch].used : source[ch].block[j] \in S
    OBVIOUS
  <2>2. source[ch].used \in Nat
    OBVIOUS
  <2> HIDE DEF S
  <2>3. /\ SubSeq(source[ch].block, 1, source[ch].used) \in Seq(S)
        /\ Len(SubSeq(source[ch].block, 1, source[ch].used))
             = IF 1 <= source[ch].used THEN source[ch].used - 1 + 1 ELSE 0
    BY <2>1, <2>2, SubSeqProperties
  <2> QED BY <2>2, <2>3 DEF ElementsOf
<1>3. q = [ch \in 1..NumChunks |-> q[ch]] /\ \A ch \in 1..NumChunks : q[ch] \in Seq(S)
  <2> HIDE DEF S
  <2> QED BY <1>1, <1>2
<1>4. Len(Concat(q)) = Total([ch \in 1..NumChunks |-> Len(q[ch])])
  <2> HIDE DEF S, q
  <2> QED BY <1>1, <1>3, ConcatLength
<1>5. Concat(q) \in Seq(S)
  <2> HIDE DEF S, q
  <2> QED BY <1>1, <1>3, ConcatLength
<1>6. [ch \in 1..NumChunks |-> Len(q[ch])] = [ch \in Chunks |-> source[ch].used]
  BY <1>1, <1>2
<1> QED BY <1>4, <1>5, <1>6, IsSeqSeq, EmptyIs DEF Length, Input

\* There is always a bucket.
LEMMA SomeBucket ==
    ASSUME NEW total \in Nat
    PROVE  ShuffleBucketCount(total) \in Nat \ {0}
<1>1. /\ NumSSDs \in Nat \ {0} /\ ChunkSize \in Nat \ {0}
      /\ PageSize \in Nat \ {0} /\ BucketSize \in Nat \ {0}
      /\ MainMemory \in Nat \ {0} /\ ScatterBudget \in Nat \ {0}
  BY SizesAssumption
<1>2. \A a \in Nat, b \in Nat \ {0} : a \div b \in Int
  OBVIOUS
<1>3. 4 * NumSSDs * total \in Nat /\ NumSSDs * ChunkSize \in Nat \ {0}
  <2>1. \A a, b \in Nat \ {0} : a * b \in Nat \ {0}
    OBVIOUS
  <2>2. \A a, b \in Nat : a * b \in Nat
    OBVIOUS
  <2> QED BY <1>1, <2>1, <2>2
<1> DEFINE min_buckets == MaxOf({1, (4 * NumSSDs * total) \div MainMemory})
           most == MinOf({total, total \div PageSize})
           max_buckets == MaxOf({1, most})
           wanted == MinOf({total \div BucketSize, max_buckets})
           desired == MaxOf({wanted, min_buckets})
           mem_cap == MaxOf({1, ScatterBudget \div (NumSSDs * ChunkSize)})
           capped == MinOf({desired, mem_cap})
<1>4. min_buckets \in Int
  <2>1. (4 * NumSSDs * total) \div MainMemory \in Int
    BY <1>1, <1>2, <1>3
  <2> QED BY <2>1, MaxOfTwo
<1>5. mem_cap \in Int
  <2>1. ScatterBudget \div (NumSSDs * ChunkSize) \in Int
    BY <1>1, <1>2, <1>3
  <2> QED BY <2>1, MaxOfTwo
<1>6. most \in Int /\ total \div BucketSize \in Int
  <2>1. total \div PageSize \in Int /\ total \div BucketSize \in Int
    BY <1>1, <1>2
  <2> QED BY <2>1, MinOfTwo
<1> HIDE DEF min_buckets, most, mem_cap
<1>7. max_buckets \in Int
  BY <1>6, MaxOfTwo
<1> HIDE DEF max_buckets
<1>8. wanted \in Int
  BY <1>6, <1>7, MinOfTwo
<1> HIDE DEF wanted
<1>9. desired \in Int
  BY <1>4, <1>8, MaxOfTwo
<1> HIDE DEF desired
<1>10. capped \in Int
  BY <1>5, <1>9, MinOfTwo
<1> HIDE DEF capped
<1>11. ShuffleBucketCount(total) = MaxOf({1, capped})
  BY DEF ShuffleBucketCount, capped, desired, wanted, max_buckets, most, mem_cap, min_buckets
<1>12. MaxOf({1, capped}) = IF 1 >= capped THEN 1 ELSE capped
  BY <1>10, MaxOfTwo
<1> QED BY <1>10, <1>11, <1>12

\* The buckets of ShuffleInv.
LEMMA SomeBuckets ==
    ASSUME ShuffleInv, phase \in {"scatters", "gathers"}
    PROVE  \E n \in Nat \ {0} : Buckets = 0..(n - 1)
BY DEF ShuffleInv

\* The blocks of a bucket are as large as they say, and so is what is in them.
LEMMA BucketBlocks ==
    ASSUME ShuffleInv, phase \in {"scatters", "gathers"}, NEW b \in Buckets
    PROVE  /\ SizeOf(b) \in Nat
           /\ LET all == Concat([k \in DOMAIN BlocksOf(b) |-> ContentAt(BlocksOf(b)[k])])
              IN  IsSeq(all) /\ Len(all) = SizeOf(b)
<1> DEFINE q == [k \in 1..NumSSDs |-> produced[k - 1][b]]
           H == UNION {{produced[i][b][j] : j \in 1..Len(produced[i][b])} : i \in Tasks}
           bs == BlocksOf(b)
<1>1. \A h \in H : h.used \in Nat
  BY DEF ShuffleInv
<1>2. ASSUME NEW k \in 1..NumSSDs PROVE q[k] \in Seq(H)
  <2>1. k - 1 \in Tasks
    BY Sizes DEF Tasks
  <2>2. IsSeq(produced[k - 1][b])
    BY <2>1 DEF ShuffleInv
  <2>3. produced[k - 1][b] \in Seq({produced[k - 1][b][j] : j \in 1..Len(produced[k - 1][b])})
    BY <2>2, SeqOfSeq
  <2>4. {produced[k - 1][b][j] : j \in 1..Len(produced[k - 1][b])} \subseteq H
    BY <2>1
  <2> HIDE DEF H
  <2> QED BY <2>3, <2>4, SeqMonotonic
<1>3. bs \in Seq(H)
  <2>1. q = [k \in 1..NumSSDs |-> q[k]] /\ bs = Concat(q)
    BY DEF BlocksOf
  <2> HIDE DEF q, H, bs
  <2> QED BY <1>2, <2>1, Sizes, ConcatLength
<1> HIDE DEF q, H
<1>4. Len(bs) \in Nat /\ DOMAIN bs = 1..Len(bs) /\ \A k \in 1..Len(bs) : bs[k].used \in Nat
  <2> HIDE DEF bs
  <2> QED BY <1>1, <1>3, LenProperties, ElementOfSeq
<1> DEFINE n == Len(bs)
           c == [k \in 1..n |-> bs[k].used]
           w == [k \in 1..n |-> ContentAt(bs[k])]
           C == UNION {{w[k][j] : j \in 1..Len(w[k])} : k \in 1..n}
<1> HIDE DEF bs
<1>5. Total(c) \in Nat
  <2>1. \A k \in 1..n : c[k] \in Nat
    BY <1>4
  <2>2. n \in Nat /\ n \in 0..n
    BY <1>4
  <2>3. Len(c) = n
    BY <2>2
  <2> HIDE DEF c, n
  <2>4. PICK g : Grows(c, g, n)
    BY <2>1, <2>2, TotalGrows
  <2> QED BY <2>2, <2>3, <2>4 DEF Grows
<1>6. ASSUME NEW k \in 1..n PROVE IsSeq(w[k]) /\ Len(w[k]) = c[k]
  <2>1. bs[k].used \in Nat
    BY <1>4
  <2>2. /\ IsSeq(SubSeq(BlockAt(bs[k]), 1, bs[k].used))
        /\ Len(SubSeq(BlockAt(bs[k]), 1, bs[k].used))
             = IF 1 <= bs[k].used THEN bs[k].used - 1 + 1 ELSE 0
    BY <2>1, IsSeqSubSeq
  <2> QED BY <2>1, <2>2 DEF ContentAt
<1>7. \A k \in 1..n : w[k] \in Seq(C)
  <2> SUFFICES ASSUME NEW k \in 1..n PROVE w[k] \in Seq(C)
    OBVIOUS
  <2>1. w[k] \in Seq({w[k][j] : j \in 1..Len(w[k])})
    <3> HIDE DEF w
    <3> QED BY <1>6, SeqOfSeq
  <2>2. {w[k][j] : j \in 1..Len(w[k])} \subseteq C
    <3> HIDE DEF w
    <3> QED OBVIOUS
  <2> HIDE DEF w, C
  <2> QED BY <2>1, <2>2, SeqMonotonic
<1>8. Concat(w) \in Seq(C) /\ Len(Concat(w)) = Total([k \in 1..n |-> Len(w[k])])
  <2>1. w = [k \in 1..n |-> w[k]]
    OBVIOUS
  <2>2. n \in Nat /\ \A k \in 1..n : w[k] \in Seq(C)
    BY <1>4, <1>7
  <2> HIDE DEF w, C, n
  <2> QED BY SMTT(30), <2>1, <2>2, ConcatLength
<1>9. [k \in 1..n |-> Len(w[k])] = c
  <2> HIDE DEF w
  <2> QED BY <1>6
<1>10. SizeOf(b) = Total(c)
  BY <1>4 DEF SizeOf, bs
<1>11. [k \in DOMAIN BlocksOf(b) |-> ContentAt(BlocksOf(b)[k])] = w
  BY <1>4 DEF bs
<1> HIDE DEF w, c, C
<1> QED BY <1>5, <1>8, <1>9, <1>10, <1>11, IsSeqSeq

-----------------------------------------------------------------------------
(* What a step leaves as it was                                            *)

\* The call and what it reads.
LEMMA SameCall ==
    ASSUME UNCHANGED <<job, source>>
    PROVE  /\ Op' = Op /\ NumChunks' = NumChunks /\ Chunks' = Chunks
           /\ Capacity' = Capacity /\ MaxBlocks' = MaxBlocks
           /\ ExpectedReads' = ExpectedReads /\ Length' = Length
           /\ (JobInv => JobInv')
<1>1. Op' = Op /\ NumChunks' = NumChunks /\ Chunks' = Chunks
  BY DEF Op, NumChunks, Chunks
<1>2. Length' = Length
  BY <1>1 DEF Length, Input, ElementsOf
<1>3. PerChunk' = PerChunk
  BY <1>1 DEF PerChunk
<1>4. ChunksFor(Length)' = ChunksFor(Length)
  BY <1>2, <1>3 DEF ChunksFor
<1> QED BY <1>1, <1>2, <1>4 DEF Capacity, MaxBlocks, ExpectedReads, JobInv

\* A job of calls on elements is called with a call on elements.
LEMMA CallOfJob ==
    ASSUME JobInv
    PROVE  /\ Op \in ElementCalls \cup GenerateOps \cup {"sieve"}
           /\ Op \in GenerateOps => NumChunks = ChunksFor(Length)
           /\ Op \in ElementCalls \ {"find_if"} => job \in Seq(ElementCalls)
           /\ job \in Seq(ElementCalls) => Op \in ElementCalls
           /\ job \in Seq(ElementCalls) =>
                \/ job = <<"find_if">>
                \/ \A ch \in Chunks : source[ch].used \in 0..ChunkSize
<1>1. CASE job \in Seq(ElementCalls) \ {<<>>} /\ \A ch \in Chunks : source[ch].used \in 0..ChunkSize
  <2>1. job[1] \in ElementCalls
    BY <1>1, EmptySeq, ElementOfSeq
  <2> QED BY <1>1, <2>1 DEF Op, ElementCalls, GenerateOps
<1>2. CASE job \in {<<"find_if">>, <<"sieve">>}
  <2>1. Op \in {"find_if", "sieve"} /\ job = <<Op>>
    BY <1>2 DEF Op
  <2>2. job \in Seq(ElementCalls) => job = <<"find_if">>
    <3> SUFFICES ASSUME job \in Seq(ElementCalls), job = <<"sieve">> PROVE FALSE
      BY <1>2
    <3>1. job[1] \in ElementCalls /\ job[1] = "sieve"
      BY ElementOfSeq
    <3> QED BY <3>1 DEF ElementCalls
  <2> QED BY <2>1, <2>2 DEF ElementCalls, GenerateOps
<1>3. CASE /\ job \in {<<"iota">>, <<"bool", "sieve">>, <<"write_iota", "find_if">>}
           /\ NumChunks = ChunksFor(Length)
  <2>1. job[1] \in GenerateOps /\ 1 \in 1..Len(job)
    BY <1>3 DEF GenerateOps
  <2>2. job \notin Seq(ElementCalls)
    BY <2>1, ElementOfSeq DEF ElementCalls, GenerateOps
  <2> QED BY <1>3, <2>1, <2>2 DEF Op, ElementCalls, GenerateOps
<1> QED BY <1>1, <1>2, <1>3 DEF JobInv

\* What is said of shuffle alone.
LEMMA NotShuffling ==
    ASSUME phase' \notin {"scatters", "gathers"}
    PROVE  ShuffleInv' /\ ScatterInv' /\ GatherInv'
BY DEF ShuffleInv, ScatterInv, GatherInv

\* What is said of the batches alone.
LEMMA NotRunning ==
    ASSUME ~Running'
    PROVE  BatchInv' /\ FillInv' /\ EmitInv' /\ RoomInv'
BY DEF BatchInv, FillInv, EmitInv, RoomInv

LEMMA NotBatch ==
    ASSUME Op' \notin BatchOps
    PROVE  BatchInv' /\ FillInv'
BY DEF BatchInv, FillInv, BatchOps

LEMMA NotEmit ==
    ASSUME Op' \notin EmitOps
    PROVE  EmitInv' /\ RoomInv'
BY DEF EmitInv, RoomInv

\* The output array and the files.
LEMMA SameOutput ==
    ASSUME UNCHANGED <<headers, pushed, file_offsets>>
    PROVE  /\ Used' = Used /\ OutputBlocks' = OutputBlocks
           /\ (MatchInv => MatchInv')
BY DEF Used, OutputBlocks, MatchInv

\* What the workers of shuffle have put together.
LEMMA SameBuckets ==
    ASSUME ShuffleInv, UNCHANGED <<job, source, buf, produced>>,
           phase' \in {"scatters", "gathers"} => phase \in {"scatters", "gathers"}
    PROVE  /\ Buckets' = Buckets /\ \A b : SizeOf(b)' = SizeOf(b)
           /\ ShuffleInv'
<1>1. Buckets' = Buckets /\ \A b : SizeOf(b)' = SizeOf(b)
  BY DEF Buckets, SizeOf, BlocksOf
<1>2. ShuffleBucketCount(Length)' = ShuffleBucketCount(Length)
  <2>1. Length' = Length
    BY SameCall
  <2> QED BY <2>1 DEF ShuffleBucketCount
<1>3. SUFFICES ASSUME phase' \in {"scatters", "gathers"} PROVE ShuffleInv'
  BY <1>1 DEF ShuffleInv
<1>4. \E n \in {ShuffleBucketCount(Length)'} : n \in Nat \ {0} /\ Buckets' = 0..(n - 1)
  BY <1>1, <1>2, <1>3 DEF ShuffleInv
<1>5. IsMap(buf, Tasks)' /\ IsMap(produced, Tasks)'
  BY <1>3 DEF ShuffleInv, IsMap
<1>6. \A i \in Tasks : IsMap(buf[i], Buckets)' /\ IsMap(produced[i], Buckets)'
  <2>1. \A i \in Tasks : IsMap(buf[i], Buckets) /\ IsMap(produced[i], Buckets)
    BY <1>3 DEF ShuffleInv
  <2> QED BY <1>1, <2>1 DEF IsMap
<1>7. \A i \in Tasks, b \in Buckets' :
        /\ IsSeq(buf[i][b])' /\ IsSeq(produced[i][b])'
        /\ \A k \in 1..Len(produced'[i][b]) : produced'[i][b][k].used \in Nat
  <2>1. \A i \in Tasks, b \in Buckets :
          /\ IsSeq(buf[i][b]) /\ IsSeq(produced[i][b])
          /\ \A k \in 1..Len(produced[i][b]) : produced[i][b][k].used \in Nat
    BY <1>3 DEF ShuffleInv
  <2> QED BY <1>1, <2>1 DEF IsSeq, IsMap
<1> QED BY <1>3, <1>4, <1>5, <1>6, <1>7 DEF ShuffleInv

\* Numbers of batches.
LEMMA Batches ==
    ASSUME NumChunks \in Nat, batch \in Nat
    PROVE  /\ ExpectedReads \in Nat
           /\ batch < ExpectedReads <=> batch * NumSSDs < NumChunks
           /\ \A k \in Int : SlotOfBatch(k) = batch * NumSSDs + k /\ SlotOfBatch(k) \in Int
           /\ batch * NumSSDs \in Nat
           /\ (batch + 1) * NumSSDs = batch * NumSSDs + NumSSDs
<1> DEFINE e == CeilDiv(NumChunks, NumSSDs)
<1>1. e \in Nat /\ NumChunks <= e * NumSSDs /\ e * NumSSDs < NumChunks + NumSSDs
  BY Sizes, CeilDivValue
<1>2. NumSSDs \in Nat /\ NumSSDs > 0
  BY Sizes
<1> HIDE DEF e
<1>3. batch * NumSSDs \in Nat /\ e * NumSSDs \in Nat
  <2>1. \A a, b \in Nat : a * b \in Nat
    OBVIOUS
  <2> QED BY <2>1, <1>1, <1>2
<1>4. (batch + 1) * NumSSDs = batch * NumSSDs + NumSSDs
  BY <1>2
<1>5. ASSUME batch < e PROVE batch * NumSSDs < NumChunks
  <2>1. (batch + 1) * NumSSDs <= e * NumSSDs
    <3>1. \A a, b, c \in Nat : a <= b => a * c <= b * c
      OBVIOUS
    <3> QED BY <3>1, <1>1, <1>2, <1>5
  <2> QED BY <2>1, <1>1, <1>2, <1>3, <1>4
<1>6. ASSUME ~ (batch < e) PROVE ~ (batch * NumSSDs < NumChunks)
  <2>1. e * NumSSDs <= batch * NumSSDs
    <3>1. \A a, b, c \in Nat : a <= b => a * c <= b * c
      OBVIOUS
    <3> QED BY <3>1, <1>1, <1>2, <1>6
  <2> QED BY <2>1, <1>1, <1>3
<1>7. \A k \in Int : SlotOfBatch(k) = batch * NumSSDs + k /\ SlotOfBatch(k) \in Int
  BY <1>3 DEF SlotOfBatch
<1> QED BY <1>1, <1>3, <1>4, <1>5, <1>6, <1>7 DEF ExpectedReads, e

-----------------------------------------------------------------------------
(* The start of a call                                                     *)

\* Before a call there is nothing, and no task has anything.
LEMMA Nothing ==
    ASSUME OutputInv, phase = "begins"
    PROVE  /\ batch = 0 /\ counter = 0 /\ pushed = {} /\ unread = {} /\ DOMAIN headers = {}
           /\ \A i \in Tasks : /\ pc[i] = "polls" /\ slot_for[i] = -1 /\ chunk[i] = 0
                               /\ blocks[i] = <<>>
           /\ Filled = {} /\ Polled = {} /\ Pending = {}
           /\ NumChunks \in Nat /\ IsFiniteSet(Chunks) /\ Cardinality(Chunks) = NumChunks
           /\ Capacity \in Int
<1>1. batch = 0 /\ counter = 0 /\ pushed = {} /\ unread = {} /\ DOMAIN headers = {}
  BY DEF OutputInv, RestInv, ArrayInv
<1>2. \A i \in Tasks : pc[i] = "polls" /\ slot_for[i] = -1 /\ chunk[i] = 0 /\ blocks[i] = <<>>
  BY DEF OutputInv, RestInv, PcInv
<1>3. Filled = {} /\ Polled = {}
  BY <1>2 DEF Filled, Polled
<1>4. Pending = {}
  <2>1. \A i \in Tasks : SlotsNeeded(i) = 0
    BY <1>2 DEF SlotsNeeded, HasSlot
  <2> QED BY <2>1 DEF Pending
<1>5. NumChunks \in Nat
  BY DEF OutputInv, TypeInv, IsSeq, NumChunks
<1>6. IsFiniteSet(Chunks) /\ Cardinality(Chunks) = NumChunks
  BY <1>5, FS_Interval DEF Chunks
<1>7. Capacity \in Int
  <2>1. MaxBlocks \in Nat
    BY Sizes DEF MaxBlocks
  <2> QED BY <2>1, <1>5 DEF Capacity
<1> QED BY <1>1, <1>2, <1>3, <1>4, <1>5, <1>6, <1>7

LEMMA BeginStep ==
    ASSUME OutputInv, NEW polled, Begin(Capacity, polled), Op # "shuffle",
           polled = IF Op \in GenerateOps THEN {} ELSE Chunks
    PROVE  OutputInv'
<1>1. /\ phase = "begins" /\ phase' = "parallel" /\ unread' = polled
      /\ headers' = [s \in 0..(Capacity - 1) |-> NoHeader]
      /\ UNCHANGED <<job, source, batch, pc, chunk, blocks, slot_for, base, buffer,
                     counter, file_offsets, pushed>>
  BY DEF Begin, arguments, task
<1>2. /\ Op' = Op /\ NumChunks' = NumChunks /\ Chunks' = Chunks /\ Capacity' = Capacity
      /\ MaxBlocks' = MaxBlocks /\ JobInv'
  BY <1>1, SameCall DEF OutputInv
<1>3. /\ batch = 0 /\ counter = 0 /\ pushed = {} /\ unread = {} /\ DOMAIN headers = {}
      /\ \A i \in Tasks : /\ pc[i] = "polls" /\ slot_for[i] = -1 /\ chunk[i] = 0
                          /\ blocks[i] = <<>>
      /\ Filled = {} /\ Polled = {} /\ Pending = {}
      /\ NumChunks \in Nat /\ IsFiniteSet(Chunks) /\ Cardinality(Chunks) = NumChunks
      /\ Capacity \in Int
  BY <1>1, Nothing
<1>4. /\ DOMAIN headers' = 0..(Capacity - 1)
      /\ \A s \in DOMAIN headers' : headers'[s] = NoHeader
  BY <1>1
<1>5. Used' = {} /\ OutputBlocks' = {}
  BY <1>1, <1>3, <1>4 DEF Used, OutputBlocks, NoHeader
<1>6. Filled' = {} /\ Polled' = {} /\ Pending' = {}
  <2>1. Filled' = Filled /\ Polled' = Polled
    BY <1>1 DEF Filled, Polled
  <2>2. Pending' = Pending
    BY <1>1 DEF Pending, SlotsNeeded, HasSlot
  <2> QED BY <2>1, <2>2, <1>3
<1>7. Capacity = Cardinality(0..(Capacity - 1)) \/ 0..(Capacity - 1) = {}
  BY <1>3, FS_Interval
<1>8. IsFiniteSet(0..(Capacity - 1))
        /\ 0..(Capacity - 1) = 0..(Cardinality(0..(Capacity - 1)) - 1)
  <2>1. IsFiniteSet(0..(Capacity - 1))
    BY <1>3, FS_Interval
  <2>2. 0..(Capacity - 1) = {} => Cardinality(0..(Capacity - 1)) = 0
    BY FS_EmptySet
  <2> QED BY <1>3, <1>7, <2>1, <2>2
<1>9. IsHeader(NoHeader)
  BY DEF IsHeader, NoHeader
<1>10. TypeInv'
  <2>1. polled \subseteq Chunks
    OBVIOUS
  <2> QED BY <1>1, <1>2, <1>4, <1>9, <2>1 DEF OutputInv, TypeInv, IsMap
<1>11. SizedInv'
  BY <1>4, Sizes DEF SizedInv, NoHeader
<1>12. PcInv' /\ RestInv'
  BY <1>1, <1>2, <1>3 DEF OutputInv, PcInv, RestInv, Running, ElementCalls
<1>13. ArrayInv'
  BY <1>1, <1>2, <1>4, <1>8 DEF ArrayInv
<1>14. MatchInv'
  BY <1>5, MatchEmpty DEF MatchInv
<1>15. BatchInv'
  BY <1>1, <1>3, <1>5, <1>6, FS_EmptySet DEF BatchInv
<1>16. FillInv'
  <2>1. Op \in PollOps => unread' = Chunks
    BY <1>1 DEF PollOps, GenerateOps
  <2>2. SlotOfBatch(Cardinality(Polled))' = 0
    BY <1>1, <1>3, <1>6, FS_EmptySet, Sizes DEF SlotOfBatch
  <2> QED BY <1>1, <1>2, <1>3, <1>6, <2>1, <2>2 DEF FillInv, PollOps
<1>17. EmitInv'
  <2>1. Len(<<>>) = 0
    OBVIOUS
  <2> QED BY <1>1, <1>3, <1>5, <2>1 DEF EmitInv, IsSeq, IsMap, HasSlot, HasPlace
<1>18. RoomInv'
  <2>1. MaxBlocks \in Nat
    BY Sizes DEF MaxBlocks
  <2>2. Op \in EmitOps => unread' = Chunks /\ Capacity = NumChunks * MaxBlocks
    BY <1>1 DEF EmitOps, GenerateOps, BatchOps, PollOps, Capacity
  <2> QED BY <1>1, <1>2, <1>3, <1>6, <2>1, <2>2, FS_EmptySet DEF RoomInv
<1>19. ShuffleInv' /\ ScatterInv' /\ GatherInv'
  BY <1>1, NotShuffling
<1> QED BY <1>2, <1>10, <1>11, <1>12, <1>13, <1>14, <1>15, <1>16, <1>17, <1>18, <1>19
        DEF OutputInv

\* The output array is made as large as it has to be.
LEMMA BeginActions ==
    ASSUME OutputInv,
           \/ BeginIota \/ BeginFlags \/ BeginWriteIota \/ BeginFilter \/ BeginSieve
           \/ BeginMap \/ BeginTransform \/ BeginReduce \/ BeginFind
    PROVE  OutputInv'
<1>1. CASE BeginIota \/ BeginFlags \/ BeginWriteIota
  <2>1. Op \in GenerateOps /\ Begin(ChunksFor(Length), {})
    BY <1>1 DEF BeginIota, BeginFlags, BeginWriteIota, BeginAll, GenerateOps
  <2>2. Capacity = ChunksFor(Length)
    BY <2>1, CallOfJob DEF OutputInv, Capacity, BatchOps
  <2> QED BY <2>1, <2>2, BeginStep DEF GenerateOps
<1>2. CASE BeginFilter \/ BeginSieve
  <2>1. Op \in PollOps /\ Begin(NumChunks, Chunks)
    BY <1>2 DEF BeginFilter, BeginSieve, PollOps
  <2>2. Capacity = NumChunks
    BY <2>1 DEF Capacity, BatchOps
  <2> QED BY <2>1, <2>2, BeginStep DEF GenerateOps, PollOps
<1>3. CASE BeginMap \/ BeginTransform
  <2>1. Op \in EmitOps /\ Begin(NumChunks * MaxBlocks, Chunks)
    BY <1>3 DEF BeginMap, BeginTransform, MaxOutPerInput, EmitOps, MaxBlocks
  <2>2. Capacity = NumChunks * MaxBlocks
    BY <2>1 DEF Capacity, BatchOps, GenerateOps, PollOps, EmitOps
  <2> QED BY <2>1, <2>2, BeginStep DEF GenerateOps, EmitOps
<1>4. CASE BeginReduce \/ BeginFind
  <2>1. Op \in {"reduce", "find_if"} /\ Begin(0, Chunks)
    BY <1>4 DEF BeginReduce, BeginFind
  <2>2. Capacity = 0
    BY <2>1 DEF Capacity, BatchOps, GenerateOps, PollOps, EmitOps
  <2> QED BY <2>1, <2>2, BeginStep DEF GenerateOps
<1> QED BY <1>1, <1>2, <1>3, <1>4

\* Of shuffle there may be nothing to do.
LEMMA BeginShuffleStep ==
    ASSUME OutputInv, BeginShuffle
    PROVE  OutputInv'
<1>1. /\ phase = "begins" /\ phase' \in {"returned", "scatters"} /\ Op = "shuffle"
      /\ unread' = Chunks /\ buf' = PerTask(EmptyBuckets) /\ produced' = PerTask(EmptyBuckets)
      /\ UNCHANGED <<job, source, batch, pc, chunk, blocks, slot_for, base, buffer,
                     counter, file_offsets, headers, pushed>>
  BY DEF BeginShuffle, arguments, task, output
<1>2. /\ Op' = Op /\ NumChunks' = NumChunks /\ Chunks' = Chunks /\ Length' = Length /\ JobInv'
  BY <1>1, SameCall DEF OutputInv
<1>3. /\ pushed = {} /\ DOMAIN headers = {}
      /\ \A i \in Tasks : /\ pc[i] = "polls" /\ slot_for[i] = -1 /\ chunk[i] = 0
                          /\ blocks[i] = <<>>
  BY <1>1, Nothing
<1>4. TypeInv'
  BY <1>1, <1>2 DEF OutputInv, TypeInv, IsSeq, IsMap, IsHeader
<1>5. SizedInv' /\ ArrayInv'
  BY <1>1, <1>3 DEF OutputInv, SizedInv, ArrayInv, Running
<1>6. PcInv' /\ RestInv'
  BY <1>1, <1>2, <1>3 DEF OutputInv, PcInv, RestInv, Running
<1>7. MatchInv'
  BY <1>1, SameOutput DEF OutputInv
<1>8. BatchInv' /\ FillInv' /\ EmitInv' /\ RoomInv'
  BY <1>1, NotRunning DEF Running
<1>9. ShuffleInv'
  <2>1. Length \in Nat
    <3>1. \A ch \in Chunks : source[ch].used \in Nat
      BY <1>1, CallOfJob, Sizes DEF OutputInv, Op, ElementCalls
    <3> QED BY <3>1, InputLength DEF OutputInv, TypeInv
  <2> DEFINE n == ShuffleBucketCount(Length)
  <2>2. n \in Nat \ {0}
    BY <2>1, SomeBucket
  <2>3. ShuffleBucketCount(Length)' = n
    BY <1>2 DEF ShuffleBucketCount
  <2> HIDE DEF n
  <2>4. EmptyBuckets = [b \in 0..(n - 1) |-> <<>>]
    BY DEF EmptyBuckets, n
  <2>5. Buckets' = 0..(n - 1)
    BY <1>1, <2>4, Sizes DEF Buckets, PerTask
  <2>6. IsMap(buf', Tasks) /\ IsMap(produced', Tasks)
    BY <1>1 DEF IsMap, PerTask
  <2>7. \A i \in Tasks : IsMap(buf'[i], Buckets') /\ IsMap(produced'[i], Buckets')
    BY <1>1, <2>4, <2>5 DEF IsMap, PerTask
  <2>8. \A i \in Tasks, b \in Buckets' : buf'[i][b] = <<>> /\ produced'[i][b] = <<>>
    BY <1>1, <2>4, <2>5 DEF PerTask
  <2>9. IsSeq(<<>>) /\ Len(<<>>) = 0
    BY EmptySeq, IsSeqSeq
  <2> QED BY <2>2, <2>3, <2>5, <2>6, <2>7, <2>8, <2>9 DEF ShuffleInv, IsMap, IsSeq
<1>10. ScatterInv' /\ GatherInv'
  <2>1. OutputBlocks' = {}
    BY <1>1, <1>3 DEF OutputBlocks
  <2> QED BY <1>1, <1>3, <2>1 DEF ScatterInv, GatherInv
<1> QED BY <1>2, <1>4, <1>5, <1>6, <1>7, <1>8, <1>9, <1>10 DEF OutputInv

-----------------------------------------------------------------------------
(* A batch                                                                 *)

\* A task that gets no chunk, or no further one of reduce, is done.
LEMMA DoneStep ==
    ASSUME OutputInv, NEW i \in Tasks, phase = "parallel", InBatch \/ Op = "reduce",
           pc[i] = "polls", Goto(i, "done"), Op \in PollOps => unread = {},
           UNCHANGED <<job, source, phase, unread, batch, chunk, blocks, slot_for, base,
                       buffer, counter, file_offsets, headers, pushed>>
    PROVE  OutputInv'
<1>1. /\ Op' = Op /\ NumChunks' = NumChunks /\ Chunks' = Chunks /\ Capacity' = Capacity
      /\ MaxBlocks' = MaxBlocks /\ ExpectedReads' = ExpectedReads /\ JobInv'
  BY SameCall DEF OutputInv
<1>2. pc' = [pc EXCEPT ![i] = "done"] /\ pc \in [Tasks -> {"polls", "filter", "sieve",
         "find_if", "emits", "slot", "place", "pushes", "scatters", "flushes", "done"}]
  BY DEF Goto, OutputInv, TypeInv
<1>3. pc'[i] = "done" /\ \A k \in Tasks : k # i => pc'[k] = pc[k]
  BY <1>2
<1>4. slot_for[i] = -1 /\ chunk[i] = 0 /\ blocks[i] = <<>>
  BY DEF OutputInv, RestInv
<1>5. Filled' = Filled /\ Polled' = Polled
  BY DEF Filled, Polled
<1>6. Pending' = Pending /\ \A k \in Tasks : HasSlot(k)' = HasSlot(k) /\ HasPlace(k)' = HasPlace(k)
  <2>1. \A k \in Tasks : HasSlot(k)' = HasSlot(k) /\ HasPlace(k)' = HasPlace(k)
    BY <1>3 DEF HasSlot, HasPlace
  <2> QED BY <2>1 DEF Pending, SlotsNeeded
<1>7. TypeInv'
  BY <1>1, <1>2 DEF OutputInv, TypeInv, IsSeq, IsMap, IsHeader
<1>8. SizedInv' /\ ArrayInv'
  BY <1>1 DEF OutputInv, SizedInv, ArrayInv, Running
<1>9. PcInv' /\ RestInv'
  <2>1. InBatch' = InBatch
    BY <1>1 DEF InBatch
  <2> QED BY <1>1, <1>3, <1>4, <2>1 DEF OutputInv, PcInv, RestInv, Running
<1>10. MatchInv' /\ Used' = Used
  BY SameOutput DEF OutputInv
<1>11. BatchInv'
  <2> SUFFICES ASSUME Running, Op \in BatchOps PROVE BatchInv'
    BY <1>1 DEF BatchInv, Running
  <2>1. BatchInv
    BY DEF OutputInv
  <2>2. \A k \in Filled : pc'[k] = "done"
    BY <2>1, <1>3 DEF BatchInv, Filled
  <2>3. \A k : SlotOfBatch(k)' = SlotOfBatch(k)
    BY DEF SlotOfBatch
  <2> QED BY <1>5, <1>10, <2>1, <2>2, <2>3 DEF BatchInv
<1>12. FillInv'
  BY <1>1, <1>3, <1>5 DEF OutputInv, FillInv, Running, SlotOfBatch, PollOps
<1>13. EmitInv'
  BY <1>1, <1>3, <1>6, <1>10 DEF OutputInv, EmitInv, Running, IsHeader
<1>14. RoomInv'
  BY <1>1, <1>6 DEF OutputInv, RoomInv, Running
<1>15. ShuffleInv' /\ ScatterInv' /\ GatherInv'
  BY NotShuffling
<1> QED BY <1>1, <1>7, <1>8, <1>9, <1>10, <1>11, <1>12, <1>13, <1>14, <1>15 DEF OutputInv

\* The numbers of the chunks that were polled go up by one.
LEMMA PollStep ==
    ASSUME OutputInv, NEW i \in Tasks, Poll(i)
    PROVE  OutputInv'
<1>1. PICK ch \in unread : /\ unread' = unread \ {ch}
                           /\ chunk' = [chunk EXCEPT ![i] = ch]
  BY DEF Poll
<1>2. /\ InBatch /\ phase = "parallel" /\ Op \in {"filter", "sieve", "find_if"}
      /\ pc[i] = "polls" /\ pc' = [pc EXCEPT ![i] = Op]
      /\ UNCHANGED <<job, source, phase, batch, blocks, slot_for, base, buffer,
                     counter, file_offsets, headers, pushed>>
  BY DEF Poll, Goto, InBatch, arguments, output
<1>3. /\ Op' = Op /\ NumChunks' = NumChunks /\ Chunks' = Chunks /\ Capacity' = Capacity
      /\ MaxBlocks' = MaxBlocks /\ ExpectedReads' = ExpectedReads /\ JobInv'
  BY <1>2, SameCall DEF OutputInv
<1>4. /\ pc'[i] = Op /\ chunk'[i] = ch /\ ch \in Chunks
      /\ \A k \in Tasks : k # i => pc'[k] = pc[k] /\ chunk'[k] = chunk[k]
  BY <1>1, <1>2 DEF OutputInv, TypeInv
<1>5. slot_for[i] = -1 /\ chunk[i] = 0 /\ blocks[i] = <<>> /\ ch # 0
  BY <1>2, <1>4 DEF OutputInv, RestInv, Chunks
<1>6. Filled' = Filled /\ i \notin Filled
  BY <1>2, <1>5 DEF Filled
<1>7. Polled' = Polled \cup {i} /\ i \notin Polled
  BY <1>4, <1>5 DEF Polled
<1>8. TypeInv'
  <2>1. NumChunks \in Nat
    BY DEF OutputInv, TypeInv, IsSeq, NumChunks
  <2>2. chunk' \in [Tasks -> 0..NumChunks]
    BY <1>1, <1>4, <2>1 DEF OutputInv, TypeInv, Chunks
  <2>3. pc' \in [Tasks -> {"polls", "filter", "sieve", "find_if", "emits", "slot", "place",
                           "pushes", "scatters", "flushes", "done"}]
    BY <1>2 DEF OutputInv, TypeInv
  <2> QED BY <1>1, <1>2, <1>3, <2>2, <2>3 DEF OutputInv, TypeInv, IsSeq, IsMap, IsHeader
<1>9. SizedInv' /\ ArrayInv'
  BY <1>2, <1>3 DEF OutputInv, SizedInv, ArrayInv, Running
<1>10. PcInv' /\ RestInv'
  <2>1. InBatch' = InBatch
    BY <1>2, <1>3 DEF InBatch
  <2> QED BY <1>2, <1>3, <1>4, <1>5, <2>1 DEF OutputInv, PcInv, RestInv, Running
<1>11. MatchInv' /\ Used' = Used
  BY <1>2, SameOutput DEF OutputInv
<1>12. BatchInv'
  <2> SUFFICES ASSUME Running, Op \in BatchOps PROVE BatchInv'
    BY <1>2, <1>3 DEF BatchInv, Running
  <2>1. BatchInv
    BY DEF OutputInv
  <2>2. \A k \in Filled : pc'[k] = "done"
    BY <2>1, <1>4, <1>6 DEF BatchInv, Filled
  <2>3. \A k : SlotOfBatch(k)' = SlotOfBatch(k)
    BY <1>2 DEF SlotOfBatch
  <2> QED BY <1>2, <1>6, <1>11, <2>1, <2>2, <2>3 DEF BatchInv
<1>13. FillInv'
  <2> SUFFICES ASSUME Running, Op \in PollOps PROVE FillInv'
    BY <1>2, <1>3 DEF FillInv, Running, PollOps, GenerateOps
  <2>1. /\ SlotOfBatch(Cardinality(Polled)) + Cardinality(unread) = NumChunks
        /\ Filled \subseteq Polled
        /\ \A k \in Tasks : /\ pc[k] \in PollOps => k \in Polled
                            /\ pc[k] = "done" /\ k \notin Polled => unread = {}
    BY <1>1 DEF OutputInv, FillInv
  <2>2. IsFiniteSet(Polled) /\ IsFiniteSet(unread) /\ NumChunks \in Nat /\ batch \in Nat
    <3>1. NumChunks \in Nat /\ batch \in Nat /\ unread \subseteq 1..NumChunks
      BY DEF OutputInv, TypeInv, IsSeq, NumChunks, Chunks
    <3>2. IsFiniteSet(1..NumChunks) /\ Polled \subseteq Tasks
      BY <3>1, FS_Interval DEF Polled
    <3> QED BY <3>1, <3>2, Sizes, FS_Subset
  <2>3. /\ Cardinality(Polled') = Cardinality(Polled) + 1 /\ Cardinality(Polled) \in Nat
        /\ Cardinality(unread') = Cardinality(unread) - 1 /\ Cardinality(unread) \in Nat
    BY <1>1, <1>7, <2>2, FS_AddElement, FS_RemoveElement, FS_CardinalityType
  <2>4. SlotOfBatch(Cardinality(Polled))' = SlotOfBatch(Cardinality(Polled)) + 1
    <3>1. \A k \in Int : SlotOfBatch(k) = batch * NumSSDs + k /\ batch * NumSSDs \in Nat
      BY <2>2, Batches
    <3>2. SlotOfBatch(Cardinality(Polled))' = batch * NumSSDs + Cardinality(Polled')
      BY <1>2 DEF SlotOfBatch
    <3> QED BY <3>1, <3>2, <2>3
  <2>5. SlotOfBatch(Cardinality(Polled)) \in Int
    BY <2>2, <2>3, Batches
  <2>6. (SlotOfBatch(Cardinality(Polled)) + Cardinality(unread))' = NumChunks
    BY <2>1, <2>3, <2>4, <2>5
  <2>7. \A k \in Tasks : /\ pc'[k] \in PollOps => k \in Polled'
                         /\ pc'[k] = "done" /\ k \notin Polled' => unread' = {}
    BY <1>1, <1>2, <1>4, <1>7, <2>1 DEF PollOps
  <2> QED BY <1>2, <1>3, <1>6, <1>7, <2>1, <2>6, <2>7 DEF FillInv, PollOps, GenerateOps
<1>14. EmitInv' /\ RoomInv'
  BY <1>2, <1>3, NotEmit DEF EmitOps
<1>15. ShuffleInv' /\ ScatterInv' /\ GatherInv'
  BY <1>2, NotShuffling
<1> QED BY <1>3, <1>8, <1>9, <1>10, <1>11, <1>12, <1>13, <1>14, <1>15 DEF OutputInv

\* The buffer of a task gets the next slot of the batch, which the array has.
LEMMA FillStep ==
    ASSUME OutputInv, NEW i \in Tasks, NEW index \in Nat, NEW block, NEW used,
           FillSlot(i, index, block, used),
           InBatch, Op \in BatchOps, i \notin Filled, chunk[i] # 0 \/ Op \in GenerateOps,
           pc[i] \in {"polls", "filter", "sieve"},
           Op \in PollOps => i \in Polled,
           Op \in GenerateOps => SlotOfBatch(i) < NumChunks,
           job \in Seq(ElementCalls) => used \in 0..ChunkSize
    PROVE  OutputInv'
<1> DEFINE slot == SlotOfBatch(counter)
<1>1. PICK f \in Files :
        headers' = [headers EXCEPT ![slot] =
                       [index |-> index, file |-> f, at |-> -1, used |-> used]]
  BY DEF FillSlot
<1> DEFINE h == [index |-> index, file |-> f, at |-> -1, used |-> used]
<1>2. /\ phase = "parallel"
      /\ buffer' = [buffer EXCEPT ![i] = block]
      /\ slot_for' = [slot_for EXCEPT ![i] = slot]
      /\ counter' = counter + 1
      /\ pc' = [pc EXCEPT ![i] = "done"]
      /\ UNCHANGED <<job, source, phase, unread, batch, chunk, blocks, base, file_offsets,
                     pushed>>
  BY DEF FillSlot, Goto, InBatch, arguments
<1>3. /\ Op' = Op /\ NumChunks' = NumChunks /\ Chunks' = Chunks /\ Capacity' = Capacity
      /\ MaxBlocks' = MaxBlocks /\ ExpectedReads' = ExpectedReads /\ JobInv'
  BY <1>2, SameCall DEF OutputInv
<1> DEFINE o == batch * NumSSDs
<1>4. /\ NumChunks \in Nat /\ batch \in Nat /\ counter \in Nat /\ Running
      /\ o \in Nat
  <2>1. NumChunks \in Nat /\ batch \in Nat /\ counter \in Nat
    BY DEF OutputInv, TypeInv, IsSeq, NumChunks
  <2> QED BY <1>2, <2>1, Batches DEF Running
<1>23. \A k \in Nat : SlotOfBatch(k) = o + k
  BY <1>4, Batches
<1> HIDE DEF o
<1>24. SlotOfBatch(0) = o
  BY <1>4, <1>23
<1>25. slot = o + counter
  BY <1>4, <1>23
<1> HIDE DEF slot
<1>5. /\ counter = Cardinality(Filled)
      /\ \A k \in Filled :
           /\ slot_for[k] \in SlotOfBatch(0)..(SlotOfBatch(counter) - 1)
           /\ slot_for[k] \in DOMAIN headers
           /\ headers[slot_for[k]].at = -1
           /\ headers[slot_for[k]].file \in Files
           /\ pc[k] = "done"
      /\ \A k, j \in Filled : slot_for[k] = slot_for[j] => k = j
      /\ \A s \in Used : s < SlotOfBatch(0)
  BY <1>4 DEF OutputInv, BatchInv
<1>6. IsFiniteSet(Filled) /\ Filled \subseteq Tasks /\ IsFiniteSet(Polled)
  <2>1. Filled \subseteq Tasks /\ Polled \subseteq Tasks
    BY DEF Filled, Polled
  <2> QED BY <2>1, Sizes, FS_Subset
<1>7. slot < NumChunks
  <2>1. IsFiniteSet(Filled \cup {i}) /\ Cardinality(Filled \cup {i}) = counter + 1
    BY <1>5, <1>6, FS_AddElement
  <2>2. CASE Op \in GenerateOps
    <3> DEFINE m == NumChunks - o - 1
    <3>1. m \in Int
      BY <1>4
    <3>2. \A k \in Filled \cup {i} : SlotOfBatch(k) < NumChunks
      BY <1>4, <2>2 DEF OutputInv, FillInv
    <3>3. Filled \cup {i} \subseteq 0..m
      <4> SUFFICES ASSUME NEW k \in Filled \cup {i} PROVE k \in 0..m
        OBVIOUS
      <4>1. k \in Nat
        BY <1>6, Sizes
      <4>2. SlotOfBatch(k) = o + k
        BY <1>23, <4>1
      <4>3. o + k < NumChunks
        BY <3>2, <4>2
      <4> QED BY <1>4, <4>1, <4>3
    <3> HIDE DEF m
    <3>4. Cardinality(Filled \cup {i}) <= m + 1
      BY <3>1, <3>3, UpTo
    <3> QED BY <1>4, <1>25, <2>1, <3>4 DEF m
  <2>3. CASE Op \in PollOps
    <3>1. /\ SlotOfBatch(Cardinality(Polled)) + Cardinality(unread) = NumChunks
          /\ Filled \cup {i} \subseteq Polled
      BY <1>4, <2>3 DEF OutputInv, FillInv
    <3>2. counter + 1 <= Cardinality(Polled)
      <4>1. IsFiniteSet(Polled)
        BY <1>6
      <4> QED BY <2>1, <3>1, <4>1, NoMore
    <3>3. Cardinality(unread) \in Nat /\ Cardinality(Polled) \in Nat
      <4>1. unread \subseteq 1..NumChunks
        BY DEF OutputInv, TypeInv, Chunks
      <4>2. IsFiniteSet(1..NumChunks)
        BY <1>4, OneTo
      <4>3. IsFiniteSet(unread)
        BY <4>1, <4>2, FS_Subset
      <4> QED BY <1>6, <4>3, FS_CardinalityType
    <3>4. SlotOfBatch(Cardinality(Polled)) = o + Cardinality(Polled)
      BY <1>23, <3>3
    <3>5. o + Cardinality(Polled) + Cardinality(unread) = NumChunks
      BY <3>1, <3>4
    <3> QED BY <1>4, <1>25, <3>2, <3>3, <3>5
  <2> QED BY <2>2, <2>3 DEF BatchOps
<1>26. slot \in Nat
  BY <1>4, <1>25
<1>8. slot \in DOMAIN headers /\ slot \notin Used
  <2>1. DOMAIN headers = 0..(NumChunks - 1)
    BY <1>4 DEF OutputInv, ArrayInv, Capacity
  <2>2. slot \in DOMAIN headers
    BY <1>4, <1>7, <1>26, <2>1
  <2>3. slot \notin Used
    <3>1. ~ (slot < o)
      BY <1>4, <1>25
    <3> QED BY <1>5, <1>24, <3>1
  <2> QED BY <2>2, <2>3
<1>9. /\ DOMAIN headers' = DOMAIN headers /\ headers'[slot] = h
      /\ \A s \in DOMAIN headers : s # slot => headers'[s] = headers[s]
  BY <1>1, <1>8 DEF OutputInv, TypeInv, IsMap
<1>10. IsHeader(h) /\ h.at = -1 /\ h.file \in Files /\ h.used = used
  BY DEF IsHeader
<1> HIDE DEF h
<1>11. Used' = Used /\ OutputBlocks' = OutputBlocks
  BY <1>2, <1>8, <1>9, <1>10 DEF Used, OutputBlocks
<1>12. /\ pc'[i] = "done" /\ slot_for'[i] = slot
       /\ \A k \in Tasks : k # i => pc'[k] = pc[k] /\ slot_for'[k] = slot_for[k]
  BY <1>2 DEF OutputInv, TypeInv
<1>13. Filled' = Filled \cup {i} /\ Polled' = Polled
  <2>1. Polled' = Polled
    BY <1>2 DEF Polled
  <2>2. slot # -1
    BY <1>26
  <2> QED BY <1>12, <2>1, <2>2 DEF Filled
<1>14. TypeInv'
  <2>1. pc' \in [Tasks -> {"polls", "filter", "sieve", "find_if", "emits", "slot", "place",
                           "pushes", "scatters", "flushes", "done"}]
    BY <1>2 DEF OutputInv, TypeInv
  <2>4. slot_for' \in [Tasks -> Nat \cup {-1}]
    BY <1>2, <1>26 DEF OutputInv, TypeInv
  <2>5. IsMap(buffer', Tasks)
    BY <1>2 DEF OutputInv, TypeInv, IsMap
  <2>6. counter' \in Nat
    BY <1>2, <1>4
  <2>2. IsMap(headers', DOMAIN headers')
    BY <1>1 DEF OutputInv, TypeInv, IsMap
  <2>3. \A s \in DOMAIN headers' : IsHeader(headers'[s])
    BY <1>9, <1>10 DEF OutputInv, TypeInv
  <2> QED BY <1>2, <1>3, <2>1, <2>2, <2>3, <2>4, <2>5, <2>6
          DEF OutputInv, TypeInv, IsSeq, IsMap, IsHeader
<1>15. SizedInv'
  BY <1>2, <1>9, <1>10 DEF OutputInv, SizedInv
<1>16. ArrayInv'
  BY <1>2, <1>3, <1>9 DEF OutputInv, ArrayInv, Running
<1>17. PcInv' /\ RestInv'
  <2>1. InBatch'
    BY <1>2, <1>3 DEF InBatch
  <2>2. blocks[i] = <<>>
    BY DEF OutputInv, RestInv
  <2> QED BY <1>2, <1>3, <1>12, <2>1, <2>2 DEF OutputInv, PcInv, RestInv, Running
<1>18. MatchInv'
  <2>1. \A s \in Used : headers'[s] = headers[s]
    BY <1>8, <1>9 DEF Used
  <2>2. \A g \in Files : file_offsets'[g] \in Nat /\ file_offsets[g] <= file_offsets'[g]
    BY <1>2 DEF OutputInv, TypeInv
  <2> QED BY <1>11, <2>1, <2>2, MatchSame DEF OutputInv
<1>19. BatchInv'
  <2>1. counter' = Cardinality(Filled')
    BY <1>2, <1>5, <1>6, <1>13, FS_AddElement
  <2>2. SlotOfBatch(0)' = o /\ SlotOfBatch(counter)' = o + (counter + 1)
    <3>1. SlotOfBatch(0)' = o + 0 /\ SlotOfBatch(counter)' = o + counter'
      BY <1>2 DEF SlotOfBatch, o
    <3> QED BY <1>2, <1>4, <3>1
  <2>3. SlotOfBatch(0) = o /\ SlotOfBatch(counter) = o + counter
    BY <1>24, <1>25 DEF slot
  <2>4. ASSUME NEW k \in Filled
        PROVE  /\ slot_for'[k] = slot_for[k] /\ slot_for[k] # slot
               /\ slot_for'[k] \in o..(o + counter)
               /\ slot_for'[k] \in DOMAIN headers'
               /\ headers'[slot_for'[k]].at = -1
               /\ headers'[slot_for'[k]].file \in Files
               /\ pc'[k] = "done"
    <3>1. k # i /\ slot_for'[k] = slot_for[k] /\ pc'[k] = "done"
      BY <1>5, <1>6, <1>12
    <3>2. slot_for[k] \in o..(o + counter - 1)
      <4>1. slot_for[k] \in SlotOfBatch(0)..(SlotOfBatch(counter) - 1)
        BY <1>5
      <4> QED BY <1>4, <2>3, <4>1
    <3>3. slot_for[k] # slot
      BY <1>4, <1>25, <3>2
    <3>4. slot_for[k] \in o..(o + counter)
      BY <1>4, <3>2
    <3> QED BY <1>5, <1>9, <3>1, <3>3, <3>4
  <2>5. /\ slot_for'[i] \in o..(o + counter)
        /\ slot_for'[i] \in DOMAIN headers'
        /\ headers'[slot_for'[i]].at = -1
        /\ headers'[slot_for'[i]].file \in Files
        /\ pc'[i] = "done"
    <3>1. slot \in o..(o + counter)
      BY <1>4, <1>25
    <3> QED BY <1>8, <1>9, <1>10, <1>12, <3>1
  <2>6. SlotOfBatch(counter)' - 1 = o + counter
    BY <2>2, <1>4
  <2>7. \A k, j \in Filled' : slot_for'[k] = slot_for'[j] => k = j
    BY <1>5, <1>12, <1>13, <2>4
  <2> QED BY <1>5, <1>11, <1>13, <2>1, <2>2, <2>3, <2>4, <2>5, <2>6, <2>7 DEF BatchInv
<1>20. FillInv'
  <2>1. \A k : SlotOfBatch(k)' = SlotOfBatch(k)
    BY <1>2 DEF SlotOfBatch
  <2>2. FillInv
    BY DEF OutputInv
  <2>3. Op \in GenerateOps => \A k \in Filled' : SlotOfBatch(k) < NumChunks
    BY <1>4, <1>13, <2>2 DEF FillInv
  <2>4. Op \in PollOps =>
          /\ unread # {} \/ Polled # {} =>
               SlotOfBatch(Cardinality(Polled)) + Cardinality(unread) = NumChunks
          /\ Filled' \subseteq Polled
          /\ \A k \in Tasks :
               /\ pc'[k] \in PollOps => k \in Polled
               /\ pc'[k] = "done" /\ k \notin Polled => unread = {}
    BY <1>4, <1>12, <1>13, <2>2 DEF FillInv, PollOps
  <2> QED BY <1>2, <1>3, <1>13, <2>1, <2>3, <2>4 DEF FillInv
<1>21. EmitInv' /\ RoomInv'
  BY <1>3, NotEmit DEF EmitOps, BatchOps, GenerateOps, PollOps
<1>22. ShuffleInv' /\ ScatterInv' /\ GatherInv'
  BY <1>2, NotShuffling
<1> QED BY <1>3, <1>14, <1>15, <1>16, <1>17, <1>18, <1>19, <1>20, <1>21, <1>22 DEF OutputInv

\* A task makes a chunk of its own, or there is none left for it.
LEMMA GenerateStep ==
    ASSUME OutputInv, NEW i \in Tasks, Iota(i) \/ BoolCreate(i) \/ WriteIota(i)
    PROVE  OutputInv'
<1> DEFINE global_chunk == batch * NumSSDs + i
<1>1. /\ Op \in GenerateOps /\ InBatch /\ pc[i] = "polls"
      /\ IF global_chunk >= NumChunks
         THEN /\ Goto(i, "done")
              /\ UNCHANGED <<arguments, phase, unread, batch, chunk, blocks, slot_for,
                             base, buffer, output, search, shuffling, acc, value>>
         ELSE \E block : FillSlot(i, global_chunk, block, Valid(global_chunk))
  BY DEF Iota, BoolCreate, WriteIota, Generate, GenerateOps
<1>2. phase = "parallel" /\ Op \notin PollOps /\ Op \in BatchOps /\ i \notin Filled
  BY <1>1 DEF InBatch, GenerateOps, PollOps, BatchOps, OutputInv, RestInv, Filled
<1>3. CASE global_chunk >= NumChunks
  BY <1>1, <1>2, <1>3, DoneStep DEF arguments, output
<1>4. CASE ~ (global_chunk >= NumChunks)
  <2>1. NumChunks \in Nat /\ batch \in Nat /\ i \in Nat
    BY Sizes DEF OutputInv, TypeInv, IsSeq, NumChunks
  <2>2. batch * NumSSDs \in Nat
    BY <2>1, Batches
  <2>3. global_chunk \in Nat /\ SlotOfBatch(i) = global_chunk
    BY <2>1, <2>2 DEF SlotOfBatch
  <2> HIDE DEF global_chunk
  <2>4. PICK block : FillSlot(i, global_chunk, block, Valid(global_chunk))
    BY <1>1, <1>4
  <2>5. job \notin Seq(ElementCalls)
    BY <1>1, CallOfJob DEF OutputInv, GenerateOps, ElementCalls
  <2>6. SlotOfBatch(i) < NumChunks
    BY <1>4, <2>1, <2>3
  <2> QED BY <1>1, <1>2, <2>3, <2>4, <2>5, <2>6, FillStep
<1> QED BY <1>3, <1>4

\* No more elements satisfy the predicate than there are.
LEMMA HitsFit ==
    ASSUME NEW ch, source[ch].used \in Nat
    PROVE  /\ IsFiniteSet(Hits(ch)) /\ Cardinality(Hits(ch)) \in 0..source[ch].used
           /\ Len(Survivors(ch)) = Cardinality(Hits(ch))
<1>1. Hits(ch) \subseteq 1..source[ch].used
  BY DEF Hits
<1>2. IsFiniteSet(1..source[ch].used) /\ Cardinality(1..source[ch].used) = source[ch].used
  BY OneTo
<1>3. IsFiniteSet(Hits(ch)) /\ Cardinality(Hits(ch)) <= source[ch].used
  BY <1>1, <1>2, FS_Subset
<1>4. Cardinality(Hits(ch)) \in Nat
  BY <1>3, FS_CardinalityType
<1> QED BY <1>3, <1>4 DEF Survivors

\* A task fills a slot for the chunk it polled.
LEMMA FilterStep ==
    ASSUME OutputInv, NEW i \in Tasks, Filter(i) \/ Sieve(i)
    PROVE  OutputInv'
<1>1. PICK op \in PollOps : pc[i] = op /\ (op = "filter" <=> pc[i] = "filter")
  BY DEF Filter, Sieve, PollOps
<1>2. phase = "parallel" /\ Op = op /\ InBatch
  BY <1>1 DEF OutputInv, PcInv, PollOps
<1>3. Op \in BatchOps /\ Op \notin GenerateOps /\ Running
  BY <1>2 DEF BatchOps, GenerateOps, PollOps, Running
<1>4. i \notin Filled /\ i \in Polled /\ chunk[i] # 0
  BY <1>1, <1>2, <1>3 DEF OutputInv, BatchInv, FillInv, Polled, PollOps
<1>5. chunk[i] \in Chunks
  <2>1. NumChunks \in Nat /\ chunk[i] \in 0..NumChunks
    BY DEF OutputInv, TypeInv, IsSeq, NumChunks
  <2> QED BY <1>4, <2>1 DEF Chunks
<1>6. source[chunk[i]].index \in Nat
  BY <1>5 DEF OutputInv, TypeInv
<1>7. \E block, used : /\ FillSlot(i, source[chunk[i]].index, block, used)
                       /\ job \in Seq(ElementCalls) => used \in 0..ChunkSize
  <2>1. CASE Filter(i)
    <3>1. Op = "filter"
      BY <1>2, <1>1, <2>1 DEF Filter
    <3>2. source[chunk[i]].used \in 0..ChunkSize
      <4>1. job \in Seq(ElementCalls) /\ job # <<"find_if">>
        BY <3>1, CallOfJob DEF OutputInv, ElementCalls, Op
      <4> QED BY <1>5, <4>1, CallOfJob DEF OutputInv
    <3>3. Len(Survivors(chunk[i])) \in 0..ChunkSize
      <4>1. Cardinality(Hits(chunk[i])) \in 0..source[chunk[i]].used
             /\ Len(Survivors(chunk[i])) = Cardinality(Hits(chunk[i]))
        BY <3>2, Sizes, HitsFit
      <4> QED BY <3>2, <4>1, Sizes
    <3> QED BY <2>1, <3>3 DEF Filter
  <2>2. CASE Sieve(i)
    <3>1. Op = "sieve"
      BY <1>2, <1>1, <2>2 DEF Sieve
    <3>2. job \notin Seq(ElementCalls)
      BY <3>1, CallOfJob DEF OutputInv, ElementCalls
    <3> QED BY <2>2, <3>2 DEF Sieve
  <2> QED BY <2>1, <2>2
<1>8. PICK block, used : /\ FillSlot(i, source[chunk[i]].index, block, used)
                         /\ job \in Seq(ElementCalls) => used \in 0..ChunkSize
  BY <1>7
<1> QED BY <1>1, <1>2, <1>3, <1>4, <1>6, <1>8, FillStep DEF PollOps

\* What find_if finds is none of the output.
LEMMA SearchStep ==
    ASSUME OutputInv, NEW i \in Tasks, Search(i)
    PROVE  OutputInv'
<1>1. /\ pc[i] = "find_if" /\ pc' = [pc EXCEPT ![i] = "done"]
      /\ UNCHANGED <<job, source, phase, unread, batch, chunk, blocks, slot_for, base,
                     buffer, counter, file_offsets, headers, pushed>>
  BY DEF Search, Goto, arguments, output
<1>2. phase = "parallel" /\ Op = "find_if" /\ InBatch
  BY <1>1 DEF OutputInv, PcInv
<1>3. /\ Op' = Op /\ NumChunks' = NumChunks /\ Chunks' = Chunks /\ Capacity' = Capacity
      /\ ExpectedReads' = ExpectedReads /\ JobInv'
  BY <1>1, SameCall DEF OutputInv
<1>4. pc'[i] = "done" /\ \A k \in Tasks : k # i => pc'[k] = pc[k]
  BY <1>1 DEF OutputInv, TypeInv
<1>5. TypeInv'
  <2>1. pc' \in [Tasks -> {"polls", "filter", "sieve", "find_if", "emits", "slot", "place",
                           "pushes", "scatters", "flushes", "done"}]
    BY <1>1 DEF OutputInv, TypeInv
  <2> QED BY <1>1, <1>3, <2>1 DEF OutputInv, TypeInv, IsSeq, IsMap, IsHeader
<1>6. SizedInv' /\ ArrayInv'
  BY <1>1, <1>3 DEF OutputInv, SizedInv, ArrayInv, Running
<1>7. PcInv' /\ RestInv'
  <2>1. InBatch'
    BY <1>1, <1>2, <1>3 DEF InBatch
  <2> QED BY <1>1, <1>2, <1>3, <1>4, <2>1 DEF OutputInv, PcInv, RestInv, Running
<1>8. MatchInv'
  BY <1>1, SameOutput DEF OutputInv
<1>9. BatchInv' /\ FillInv' /\ EmitInv' /\ RoomInv'
  BY <1>2, <1>3, NotBatch, NotEmit DEF BatchOps, GenerateOps, PollOps, EmitOps
<1>10. ShuffleInv' /\ ScatterInv' /\ GatherInv'
  BY <1>1, <1>2, NotShuffling
<1> QED BY <1>3, <1>5, <1>6, <1>7, <1>8, <1>9, <1>10 DEF OutputInv

-----------------------------------------------------------------------------
(* Map and the engine                                                      *)

\* A block of map: it is within the chunk, and not larger than a block of the output.
LEMMA SubBlock ==
    ASSUME NEW ch, source[ch].used \in 0..ChunkSize, source[ch].index \in Nat,
           NEW s \in 0..(NumSub(source[ch].used) - 1)
    PROVE  /\ BlockOf(ch, s).index \in Nat
           /\ Len(BlockOf(ch, s).content) \in 0..ChunkSize
<1> DEFINE u == source[ch].used
           c == OutCap
           lo == s * c
           hi == MinOf({u, (s + 1) * c})
           q == CeilDiv(u, c)
<1>1. /\ c \in Nat \ {0} /\ c * Fanout = ChunkSize /\ Fanout \in Nat \ {0}
      /\ u \in Nat /\ u <= ChunkSize /\ ChunkSize \in Nat
  BY OutSizes, Sizes
<1>2. q \in Nat /\ u <= q * c /\ q * c < u + c
  <2> HIDE DEF c, u
  <2> QED BY <1>1, CeilDivValue
<1>3. NumSub(u) = IF u = 0 THEN 1 ELSE q
  BY DEF NumSub
<1> HIDE DEF c, u, q
<1>4. s \in Nat /\ lo \in Nat /\ (s + 1) * c = lo + c
  <2>1. s \in Nat
    BY <1>1, <1>2, <1>3 DEF u
  <2>2. \A a, b \in Nat : a * b \in Nat /\ (a + 1) * b = a * b + b
    OBVIOUS
  <2> QED BY <1>1, <2>1, <2>2
<1>5. lo <= u
  <2>1. CASE u = 0
    <3>1. s = 0
      BY <1>3, <1>4, <2>1 DEF u
    <3> QED BY <1>1, <2>1, <3>1
  <2>2. CASE u # 0
    <3>1. s + 1 <= q
      BY <1>2, <1>3, <1>4, <2>2 DEF u
    <3>2. (s + 1) * c <= q * c
      <4>1. \A a, b, d \in Nat : a <= b => a * d <= b * d
        OBVIOUS
      <4> QED BY <1>1, <1>2, <1>4, <3>1, <4>1
    <3>3. q * c \in Nat
      <4>1. \A a, b \in Nat : a * b \in Nat
        OBVIOUS
      <4> QED BY <1>1, <1>2, <4>1
    <3> HIDE DEF lo
    <3> QED BY <1>1, <1>2, <1>4, <3>2, <3>3
  <2> QED BY <2>1, <2>2
<1> HIDE DEF lo
<1>6. hi = IF u <= lo + c THEN u ELSE lo + c
  BY <1>1, <1>4, MinOfTwo
<1> HIDE DEF hi
<1>7. hi - lo \in 0..ChunkSize
  BY <1>1, <1>4, <1>5, <1>6
<1>8. Len(BlockOf(ch, s).content) = hi - lo
  <2>1. BlockOf(ch, s).content = [j \in 1..(hi - lo) |-> -(source[ch].block[lo + j] + 1)]
    BY DEF BlockOf, hi, lo, u, c
  <2>2. hi - lo \in Nat
    BY <1>7, <1>1
  <2> QED BY <2>1, <2>2
<1>9. BlockOf(ch, s).index \in Nat
  <2>1. BlockOf(ch, s).index = source[ch].index * Fanout + s
    BY DEF BlockOf, SubIndex
  <2>2. \A a, b \in Nat : a * b \in Nat
    OBVIOUS
  <2>3. source[ch].index * Fanout \in Nat
    BY <1>1, <2>2
  <2> QED BY <1>4, <2>1, <2>3
<1> QED BY <1>7, <1>8, <1>9

\* The blocks that a chunk makes are at least one and not more than there is room for.
LEMMA BodyFits ==
    ASSUME OutputInv, Op \in EmitOps, NEW ch \in Chunks
    PROVE  /\ IsSeq(Body(ch)) /\ Len(Body(ch)) \in 1..MaxBlocks
           /\ \A k \in 1..Len(Body(ch)) : /\ Body(ch)[k].index \in Nat
                                          /\ Len(Body(ch)[k].content) \in 0..ChunkSize
<1>1. source[ch].index \in Nat /\ source[ch].used \in 0..ChunkSize
  <2>1. job \in Seq(ElementCalls) /\ job # <<"find_if">>
    BY CallOfJob DEF OutputInv, EmitOps, ElementCalls, Op
  <2> QED BY <2>1, CallOfJob DEF OutputInv, TypeInv
<1>2. CASE Op = "engine_filter"
  <2>1. Body(ch) = <<[index |-> source[ch].index, content |-> Survivors(ch)]>> /\ MaxBlocks = 1
    BY <1>2 DEF Body, FilterBody, MaxBlocks
  <2>2. Len(Survivors(ch)) \in 0..ChunkSize
    <3>1. /\ Cardinality(Hits(ch)) \in 0..source[ch].used
          /\ Len(Survivors(ch)) = Cardinality(Hits(ch))
      BY <1>1, Sizes, HitsFit
    <3> QED BY <1>1, <3>1, Sizes
  <2>3. Len(Body(ch)) = 1 /\ IsMap(Body(ch), 1..1) /\ Body(ch)[1].index = source[ch].index
        /\ Body(ch)[1].content = Survivors(ch)
    BY <2>1 DEF IsMap
  <2> QED BY <1>1, <2>1, <2>2, <2>3 DEF IsSeq
<1>3. CASE Op # "engine_filter"
  <2> DEFINE n == NumSub(source[ch].used)
  <2>1. Body(ch) = [s \in 1..n |-> BlockOf(ch, s - 1)] /\ MaxBlocks = Fanout
    BY <1>3 DEF Body, MapBody, MaxBlocks
  <2>2. n \in 1..Fanout
    <3> DEFINE u == source[ch].used
               c == OutCap
               q == CeilDiv(u, c)
    <3>1. /\ c \in Nat \ {0} /\ c * Fanout = ChunkSize /\ Fanout \in Nat \ {0}
          /\ u \in Nat /\ u <= ChunkSize
      BY <1>1, OutSizes, Sizes
    <3>2. n = IF u = 0 THEN 1 ELSE q
      BY DEF NumSub
    <3> HIDE DEF c, u, n
    <3>3. q \in Nat /\ u <= q * c /\ q * c < u + c /\ (u > 0 => q > 0)
      BY <3>1, CeilDivValue, CeilDivTake
    <3> HIDE DEF q
    <3>4. q <= Fanout
      <4>1. SUFFICES ASSUME q >= Fanout + 1 PROVE FALSE
        BY <3>1, <3>3
      <4>2. (Fanout + 1) * c <= q * c
        <5>1. \A a, b, d \in Nat : a <= b => a * d <= b * d
          OBVIOUS
        <5> QED BY <3>1, <3>3, <4>1, <5>1
      <4>3. (Fanout + 1) * c = c * Fanout + c
        BY <3>1
      <4> QED BY <3>1, <3>3, <4>2, <4>3, Sizes
    <3> QED BY <3>1, <3>2, <3>3, <3>4
  <2>3. \A k \in 1..n : /\ BlockOf(ch, k - 1).index \in Nat
                        /\ Len(BlockOf(ch, k - 1).content) \in 0..ChunkSize
    <3> SUFFICES ASSUME NEW k \in 1..n
                 PROVE  /\ BlockOf(ch, k - 1).index \in Nat
                        /\ Len(BlockOf(ch, k - 1).content) \in 0..ChunkSize
      OBVIOUS
    <3>1. k - 1 \in 0..(n - 1)
      BY <2>2
    <3> QED BY <1>1, <3>1, SubBlock
  <2> HIDE DEF n
  <2>4. n \in Nat
    BY <2>2
  <2>5. IsSeq(Body(ch)) /\ Len(Body(ch)) = n
    BY <2>1, <2>4 DEF IsSeq, IsMap
  <2> QED BY <2>1, <2>2, <2>3, <2>5
<1> QED BY <1>2, <1>3

\* What a step of a task of map or of the engine leaves as it was.
LEMMA EmitFrame ==
    ASSUME OutputInv, Op \in EmitOps, phase = "parallel", InBatch, NEW i \in Tasks,
           NEW next \in {"emits", "slot", "place", "pushes", "done"}, Goto(i, next),
           next = "slot" => Op = "map", next = "place" => Op # "map",
           UNCHANGED <<job, source, phase, batch>>
    PROVE  /\ Op' = Op /\ NumChunks' = NumChunks /\ Chunks' = Chunks /\ Capacity' = Capacity
           /\ MaxBlocks' = MaxBlocks
           /\ pc'[i] = next /\ \A k \in Tasks : k # i => pc'[k] = pc[k]
           /\ pc' \in [Tasks -> {"polls", "filter", "sieve", "find_if", "emits", "slot",
                                 "place", "pushes", "scatters", "flushes", "done"}]
           /\ JobInv' /\ PcInv' /\ BatchInv' /\ FillInv'
           /\ ShuffleInv' /\ ScatterInv' /\ GatherInv'
<1>1. /\ Op' = Op /\ NumChunks' = NumChunks /\ Chunks' = Chunks /\ Capacity' = Capacity
      /\ MaxBlocks' = MaxBlocks /\ ExpectedReads' = ExpectedReads /\ JobInv'
  BY SameCall DEF OutputInv
<1>2. /\ pc'[i] = next /\ \A k \in Tasks : k # i => pc'[k] = pc[k]
      /\ pc' \in [Tasks -> {"polls", "filter", "sieve", "find_if", "emits", "slot",
                            "place", "pushes", "scatters", "flushes", "done"}]
  BY DEF OutputInv, TypeInv, Goto
<1>3. PcInv'
  <2>1. InBatch'
    BY <1>1 DEF InBatch
  <2>2. Op \notin {"shuffle", "reduce", "filter", "sieve", "find_if"}
    BY DEF EmitOps
  <2> QED BY <1>1, <1>2, <2>1, <2>2 DEF OutputInv, PcInv, Running
<1>4. BatchInv' /\ FillInv'
  BY <1>1, NotBatch DEF BatchOps, GenerateOps, PollOps, EmitOps
<1>5. ShuffleInv' /\ ScatterInv' /\ GatherInv'
  BY NotShuffling
<1> QED BY <1>1, <1>2, <1>3, <1>4, <1>5

\* What a task of map or of the engine has in hand.
LEMMA InHand ==
    ASSUME OutputInv, NEW i \in Tasks, pc[i] \in {"emits", "slot", "place", "pushes"}
    PROVE  /\ phase = "parallel" /\ Op \in EmitOps /\ InBatch /\ Running
           /\ IsSeq(blocks[i]) /\ Len(blocks[i]) \in Nat \ {0}
           /\ Head(blocks[i]) = blocks[i][1]
           /\ blocks[i][1].index \in Nat /\ Len(blocks[i][1].content) \in 0..ChunkSize
<1>1. phase = "parallel" /\ Op \in EmitOps
  BY DEF OutputInv, PcInv, EmitOps
<1>2. InBatch
  BY <1>1 DEF OutputInv, PcInv, EmitOps
<1>3. Running
  BY <1>1 DEF Running
<1>4. IsSeq(blocks[i]) /\ blocks[i] # <<>>
  BY <1>1, <1>3 DEF OutputInv, EmitInv
<1>5. Len(blocks[i]) \in Nat \ {0}
  BY <1>4, EmptyIs
<1>6. Head(blocks[i]) = blocks[i][1] /\ 1 \in 1..Len(blocks[i])
  BY <1>4, IsSeqTail
<1>7. blocks[i][1].index \in Nat /\ Len(blocks[i][1].content) \in 0..ChunkSize
  BY <1>1, <1>3, <1>6 DEF OutputInv, EmitInv
<1> QED BY <1>1, <1>2, <1>3, <1>4, <1>5, <1>6, <1>7

\* The blocks of every task still need as many slots.
LEMMA SamePending ==
    ASSUME \A k \in Tasks : SlotsNeeded(k)' = SlotsNeeded(k)
    PROVE  Pending' = Pending
BY DEF Pending

\* What is known of the numbers in RoomInv.
LEMMA RoomTypes ==
    ASSUME OutputInv, Op \in EmitOps, Running
    PROVE  /\ NumChunks \in Nat /\ MaxBlocks \in Nat \ {0} /\ counter \in Nat
           /\ IsFiniteSet(unread) /\ Cardinality(unread) \in Nat
           /\ IsFiniteSet(Pending) /\ Cardinality(Pending) \in Nat
           /\ counter + Cardinality(Pending) + Cardinality(unread) * MaxBlocks <= Capacity
           /\ Capacity \in Nat
<1>1. NumChunks \in Nat /\ MaxBlocks \in Nat \ {0} /\ counter \in Nat
  BY Sizes DEF OutputInv, TypeInv, IsSeq, NumChunks, MaxBlocks
<1>2. IsFiniteSet(unread)
  <2>1. IsFiniteSet(1..NumChunks)
    BY <1>1, OneTo
  <2> QED BY <2>1, FS_Subset DEF OutputInv, TypeInv, Chunks
<1>3. /\ IsFiniteSet(Pending)
      /\ counter + Cardinality(Pending) + Cardinality(unread) * MaxBlocks <= Capacity
  BY DEF OutputInv, RoomInv
<1>4. Capacity \in Nat
  <2>1. Capacity = NumChunks * MaxBlocks
    BY DEF Capacity, EmitOps, BatchOps, GenerateOps, PollOps
  <2>2. \A a, b \in Nat : a * b \in Nat
    OBVIOUS
  <2> QED BY <1>1, <2>1, <2>2
<1> QED BY <1>1, <1>2, <1>3, <1>4, FS_CardinalityType

\* A chunk brings no more blocks than there was room for.
LEMMA PollBodyStep ==
    ASSUME OutputInv, NEW i \in Tasks, MapPoll(i) \/ EngineMap(i) \/ EngineFilter(i)
    PROVE  OutputInv'
<1>1. Op \in EmitOps /\ PollBody(i, Op)
  BY DEF MapPoll, EngineMap, EngineFilter, PollBody, EmitOps
<1>2. PICK ch \in unread : /\ unread' = unread \ {ch}
                           /\ chunk' = [chunk EXCEPT ![i] = ch]
                           /\ blocks' = [blocks EXCEPT ![i] = Body(ch)]
  BY <1>1 DEF PollBody
<1>3. /\ InBatch /\ phase = "parallel" /\ pc[i] = "polls" /\ Goto(i, "emits") /\ Running
      /\ UNCHANGED <<job, source, phase, batch, slot_for, base, buffer, counter,
                     file_offsets, headers, pushed>>
  BY <1>1 DEF PollBody, InBatch, Running, arguments, output
<1>4. /\ Op' = Op /\ NumChunks' = NumChunks /\ Chunks' = Chunks /\ Capacity' = Capacity
      /\ MaxBlocks' = MaxBlocks
      /\ pc'[i] = "emits" /\ \A k \in Tasks : k # i => pc'[k] = pc[k]
      /\ pc' \in [Tasks -> {"polls", "filter", "sieve", "find_if", "emits", "slot",
                            "place", "pushes", "scatters", "flushes", "done"}]
      /\ JobInv' /\ PcInv' /\ BatchInv' /\ FillInv'
      /\ ShuffleInv' /\ ScatterInv' /\ GatherInv'
  BY <1>1, <1>3, EmitFrame
<1>5. /\ ch \in Chunks /\ IsSeq(Body(ch)) /\ Len(Body(ch)) \in 1..MaxBlocks
      /\ \A k \in 1..Len(Body(ch)) : /\ Body(ch)[k].index \in Nat
                                     /\ Len(Body(ch)[k].content) \in 0..ChunkSize
  BY <1>1, <1>2, BodyFits DEF OutputInv, TypeInv
<1>6. /\ blocks'[i] = Body(ch) /\ chunk'[i] = ch
      /\ \A k \in Tasks : k # i => blocks'[k] = blocks[k] /\ chunk'[k] = chunk[k]
  BY <1>2 DEF OutputInv, TypeInv, IsMap
<1>7. blocks[i] = <<>> /\ slot_for[i] = -1
  BY <1>3 DEF OutputInv, RestInv
<1>8. TypeInv'
  <2>1. NumChunks \in Nat
    BY DEF OutputInv, TypeInv, IsSeq, NumChunks
  <2>2. ch \in 0..NumChunks
    BY <1>5, <2>1 DEF Chunks
  <2>3. chunk' \in [Tasks -> 0..NumChunks]
    BY <1>2, <2>2 DEF OutputInv, TypeInv
  <2>4. IsMap(blocks', Tasks)
    BY <1>2 DEF OutputInv, TypeInv, IsMap
  <2> QED BY <1>2, <1>3, <1>4, <2>3, <2>4 DEF OutputInv, TypeInv, IsSeq, IsMap, IsHeader
<1>9. SizedInv' /\ ArrayInv' /\ RestInv'
  BY <1>1, <1>3, <1>4, <1>6 DEF OutputInv, SizedInv, ArrayInv, RestInv, Running
<1>10. MatchInv' /\ Used' = Used
  BY <1>3, SameOutput DEF OutputInv
<1>11. EmitInv'
  <2>1. \A k \in Tasks : HasSlot(k)' = HasSlot(k) /\ HasPlace(k)' = HasPlace(k)
    BY <1>3, <1>4 DEF HasSlot, HasPlace
  <2>2. EmitInv
    BY DEF OutputInv
  <2>3. Body(ch) # <<>>
    BY <1>5, EmptyIs
  <2>4. \A k \in Tasks :
          /\ IsSeq(blocks'[k])
          /\ \A j \in 1..Len(blocks'[k]) : /\ blocks'[k][j].index \in Nat
                                           /\ Len(blocks'[k][j].content) \in 0..ChunkSize
          /\ pc'[k] \notin {"polls", "done"} => blocks'[k] # <<>>
    BY <1>1, <1>3, <1>4, <1>5, <1>6, <2>2, <2>3 DEF EmitInv
  <2> QED BY <1>1, <1>3, <1>4, <1>10, <2>1, <2>2, <2>4 DEF EmitInv, IsHeader
<1>12. RoomInv'
  <2> DEFINE n == Len(Body(ch))
             more == {i} \X (1..n)
  <2>1. n \in Nat /\ n <= MaxBlocks
    BY <1>5, RoomTypes, <1>1, <1>3
  <2>2. SlotsNeeded(i) = 0 /\ SlotsNeeded(i)' = n
    <3>1. Len(<<>>) = 0
      OBVIOUS
    <3> QED BY <1>3, <1>4, <1>6, <1>7, <2>1, <3>1 DEF SlotsNeeded, HasSlot
  <2>3. \A k \in Tasks : k # i => SlotsNeeded(k)' = SlotsNeeded(k)
    BY <1>4, <1>6 DEF SlotsNeeded, HasSlot
  <2>4. Pending' \subseteq Pending \cup more
    BY <2>1, <2>2, <2>3 DEF Pending
  <2>5. IsFiniteSet(more) /\ Cardinality(more) = n
    <3>1. IsFiniteSet({i}) /\ Cardinality({i}) = 1
      BY FS_Singleton
    <3>2. IsFiniteSet(1..n) /\ Cardinality(1..n) = n
      BY <2>1, OneTo
    <3>3. IsFiniteSet({i} \X (1..n)) /\ Cardinality({i} \X (1..n)) = 1 * n
      BY <3>1, <3>2, FS_Product
    <3> QED BY <2>1, <3>3
  <2> HIDE DEF more, n
  <2>6. /\ NumChunks \in Nat /\ MaxBlocks \in Nat \ {0} /\ counter \in Nat
        /\ IsFiniteSet(unread) /\ Cardinality(unread) \in Nat
        /\ IsFiniteSet(Pending) /\ Cardinality(Pending) \in Nat
        /\ counter + Cardinality(Pending) + Cardinality(unread) * MaxBlocks <= Capacity
        /\ Capacity \in Nat
    BY <1>1, <1>3, RoomTypes
  <2>7. /\ IsFiniteSet(Pending') /\ Cardinality(Pending') \in Nat
        /\ Cardinality(Pending') <= Cardinality(Pending) + n
    <3>1. /\ IsFiniteSet(Pending \cup more)
          /\ Cardinality(Pending \cup more)
               = Cardinality(Pending) + Cardinality(more) - Cardinality(Pending \cap more)
      BY <2>5, <2>6, FS_Union
    <3>2. Cardinality(Pending \cap more) \in Nat
      BY <2>6, FS_Intersection, FS_CardinalityType
    <3>3. IsFiniteSet(Pending') /\ Cardinality(Pending') <= Cardinality(Pending \cup more)
      BY <2>4, <3>1, FS_Subset
    <3>4. Cardinality(Pending') \in Nat
      BY <3>3, FS_CardinalityType
    <3> QED BY <2>1, <2>5, <2>6, <3>1, <3>2, <3>3, <3>4
  <2>8. Cardinality(unread') = Cardinality(unread) - 1
    BY <1>2, <2>6, FS_RemoveElement
  <2>9. Cardinality(unread') * MaxBlocks = Cardinality(unread) * MaxBlocks - MaxBlocks
    <3>1. \A a, b \in Int : (a - 1) * b = a * b - b
      OBVIOUS
    <3> QED BY <2>6, <2>8, <3>1
  <2>10. Cardinality(unread) * MaxBlocks \in Nat
    <3>1. \A a, b \in Nat : a * b \in Nat
      OBVIOUS
    <3> QED BY <2>6, <3>1
  <2>11. counter + Cardinality(Pending') + Cardinality(unread') * MaxBlocks <= Capacity
    BY <2>1, <2>6, <2>7, <2>9, <2>10
  <2> QED BY <1>3, <1>4, <2>7, <2>11 DEF RoomInv
<1> QED BY <1>4, <1>8, <1>9, <1>10, <1>11, <1>12 DEF OutputInv

\* A task that finds no chunk left is done.
LEMMA PollEndStep ==
    ASSUME OutputInv, NEW i \in Tasks, PollEnd(i) \/ ReduceEnd(i)
    PROVE  OutputInv'
<1>1. /\ phase = "parallel" /\ (InBatch \/ Op = "reduce")
      /\ pc[i] = "polls" /\ Goto(i, "done")
      /\ unread = {}
      /\ UNCHANGED <<job, source, phase, unread, batch, chunk, blocks, slot_for, base,
                     buffer, counter, file_offsets, headers, pushed>>
  BY DEF PollEnd, ReduceEnd, InBatch, arguments, output
<1> QED BY <1>1, DoneStep

\* A slot is taken for a block that the array has room for.
LEMMA TakeSlotStep ==
    ASSUME OutputInv, NEW i \in Tasks, MapSlot(i) \/ EmitSlot(i)
    PROVE  OutputInv'
<1> DEFINE next == IF Op = "map" THEN "pushes" ELSE "place"
<1>1. /\ pc[i] \in {"emits", "slot"} /\ TakeSlot(i, next)
      /\ HasPlace(i) <=> Op = "map"
      /\ ~HasSlot(i)
  BY DEF MapSlot, EmitSlot, HasPlace, HasSlot
<1>2. /\ slot_for' = [slot_for EXCEPT ![i] = counter] /\ counter' = counter + 1
      /\ Goto(i, next)
      /\ UNCHANGED <<job, source, phase, unread, batch, chunk, blocks, base, buffer,
                     file_offsets, headers, pushed>>
  BY <1>1 DEF TakeSlot, arguments
<1>3. /\ phase = "parallel" /\ Op \in EmitOps /\ InBatch /\ Running
      /\ IsSeq(blocks[i]) /\ Len(blocks[i]) \in Nat \ {0}
  BY <1>1, InHand
<1>4. /\ Op' = Op /\ NumChunks' = NumChunks /\ Chunks' = Chunks /\ Capacity' = Capacity
      /\ MaxBlocks' = MaxBlocks
      /\ pc'[i] = next /\ \A k \in Tasks : k # i => pc'[k] = pc[k]
      /\ pc' \in [Tasks -> {"polls", "filter", "sieve", "find_if", "emits", "slot",
                            "place", "pushes", "scatters", "flushes", "done"}]
      /\ JobInv' /\ PcInv' /\ BatchInv' /\ FillInv'
      /\ ShuffleInv' /\ ScatterInv' /\ GatherInv'
  BY <1>2, <1>3, EmitFrame
<1>5. /\ slot_for'[i] = counter /\ counter \in Nat
      /\ \A k \in Tasks : k # i => slot_for'[k] = slot_for[k]
  BY <1>2 DEF OutputInv, TypeInv
<1>6. /\ HasSlot(i)' /\ HasPlace(i)' = HasPlace(i)
      /\ \A k \in Tasks : k # i => HasSlot(k)' = HasSlot(k) /\ HasPlace(k)' = HasPlace(k)
  BY <1>1, <1>4 DEF HasSlot, HasPlace
<1> HIDE DEF next
<1>7. TypeInv'
  <2>1. slot_for' \in [Tasks -> Nat \cup {-1}]
    BY <1>2, <1>5 DEF OutputInv, TypeInv
  <2>2. counter' \in Nat
    BY <1>2, <1>5
  <2> QED BY <1>2, <1>4, <2>1, <2>2 DEF OutputInv, TypeInv, IsSeq, IsMap, IsHeader
<1>8. SizedInv' /\ ArrayInv'
  BY <1>2, <1>4 DEF OutputInv, SizedInv, ArrayInv, Running
<1>9. RestInv'
  <2>1. next \in {"pushes", "place"}
    BY DEF next
  <2> QED BY <1>2, <1>3, <1>4, <1>5, <2>1 DEF OutputInv, RestInv
<1>10. MatchInv' /\ Used' = Used
  BY <1>2, SameOutput DEF OutputInv
<1>11. EmitInv'
  <2>1. EmitInv
    BY DEF OutputInv
  <2>2. \A k \in Tasks : slot_for[k] < counter /\ slot_for[k] \in Int
    BY <1>3, <2>1 DEF EmitInv, OutputInv, TypeInv
  <2>3. \A s \in Used : s < counter
    BY <1>3, <2>1 DEF EmitInv
  <2>4. counter # -1 /\ counter \notin Used
    BY <1>5, <2>3
  <2>5. ASSUME NEW k \in Tasks
        PROVE  /\ IsSeq(blocks'[k])
               /\ \A j \in 1..Len(blocks'[k]) : /\ blocks'[k][j].index \in Nat
                                                /\ Len(blocks'[k][j].content) \in 0..ChunkSize
               /\ pc'[k] \notin {"polls", "done"} => blocks'[k] # <<>>
    <3>1. blocks[i] # <<>>
      BY <1>3, EmptyIs
    <3> QED BY <1>2, <1>3, <1>4, <2>1, <3>1 DEF EmitInv
  <2>6. ASSUME NEW k \in Tasks
        PROVE  /\ slot_for'[k] < counter'
               /\ HasSlot(k)' => slot_for'[k] # -1 /\ slot_for'[k] \notin Used'
    <3>1. CASE k = i
      BY <1>2, <1>5, <1>10, <2>4, <3>1
    <3>2. CASE k # i
      <4>1. slot_for'[k] < counter'
        BY <1>2, <1>5, <2>2, <3>2
      <4>2. HasSlot(k) => slot_for[k] # -1 /\ slot_for[k] \notin Used
        BY <1>3, <2>1 DEF EmitInv
      <4> QED BY <1>5, <1>6, <1>10, <3>2, <4>1, <4>2
    <3> QED BY <3>1, <3>2
  <2>7. ASSUME NEW k \in Tasks, HasPlace(k)'
        PROVE  /\ IsHeader(base[k])'
               /\ base'[k].file \in Files /\ base'[k].at \in Nat
               /\ base'[k].at < file_offsets'[base'[k].file]
               /\ base'[k].used \in 0..ChunkSize
               /\ \A s \in Used' : PlaceOf(headers'[s]) # PlaceOf(base'[k])
    <3>1. HasPlace(k)
      BY <1>6, <2>7
    <3> QED BY <1>2, <1>3, <1>10, <2>1, <3>1 DEF EmitInv, IsHeader
  <2>8. ASSUME NEW j \in Tasks, NEW k \in Tasks, HasSlot(j)', HasSlot(k)',
               slot_for'[j] = slot_for'[k]
        PROVE  j = k
    <3>1. \A l \in Tasks : slot_for[l] # counter
      BY <1>5, <2>2
    <3>2. CASE j = i \/ k = i
      BY <1>5, <2>8, <3>1, <3>2
    <3>3. CASE j # i /\ k # i
      BY <1>3, <1>5, <1>6, <2>1, <2>8, <3>3 DEF EmitInv
    <3> QED BY <3>2, <3>3
  <2>9. ASSUME NEW j \in Tasks, NEW k \in Tasks, HasPlace(j)', HasPlace(k)',
               PlaceOf(base'[j]) = PlaceOf(base'[k])
        PROVE  j = k
    <3>1. HasPlace(j) /\ HasPlace(k)
      BY <1>6, <2>9
    <3> QED BY <1>2, <1>3, <2>1, <2>9, <3>1 DEF EmitInv
  <2>10. \A s \in Used' : s < counter'
    <3>1. \A s \in Used : s \in Int
      <4>1. \E n \in {Cardinality(DOMAIN headers)} : DOMAIN headers = 0..(n - 1)
        BY DEF OutputInv, ArrayInv
      <4> QED BY <4>1 DEF Used
    <3> QED BY <1>2, <1>5, <1>10, <2>3, <3>1
  <2> QED BY <2>5, <2>6, <2>7, <2>8, <2>9, <2>10 DEF EmitInv
<1>12. RoomInv'
  <2> DEFINE n == Len(blocks[i])
  <2>1. SlotsNeeded(i) = n /\ SlotsNeeded(i)' = n - 1 /\ n \in Nat \ {0}
    BY <1>1, <1>2, <1>3, <1>6 DEF SlotsNeeded
  <2>2. \A k \in Tasks : k # i => SlotsNeeded(k)' = SlotsNeeded(k)
    BY <1>2, <1>6 DEF SlotsNeeded
  <2> HIDE DEF n
  <2>3. <<i, n>> \in Pending /\ Pending' \subseteq Pending \ {<<i, n>>}
    BY <2>1, <2>2 DEF Pending
  <2>4. /\ NumChunks \in Nat /\ MaxBlocks \in Nat \ {0} /\ counter \in Nat
        /\ IsFiniteSet(unread) /\ Cardinality(unread) \in Nat
        /\ IsFiniteSet(Pending) /\ Cardinality(Pending) \in Nat
        /\ counter + Cardinality(Pending) + Cardinality(unread) * MaxBlocks <= Capacity
        /\ Capacity \in Nat
    BY <1>3, RoomTypes
  <2>5. /\ IsFiniteSet(Pending \ {<<i, n>>})
        /\ Cardinality(Pending \ {<<i, n>>}) = Cardinality(Pending) - 1
    BY <2>3, <2>4, FS_RemoveElement
  <2>6. IsFiniteSet(Pending') /\ Cardinality(Pending') <= Cardinality(Pending) - 1
    BY <2>3, <2>5, FS_Subset
  <2>7. Cardinality(Pending') \in Nat
    BY <2>6, FS_CardinalityType
  <2>8. Cardinality(unread) * MaxBlocks \in Nat
    <3>1. \A a, b \in Nat : a * b \in Nat
      OBVIOUS
    <3> QED BY <2>4, <3>1
  <2> DEFINE r == Cardinality(unread) * MaxBlocks
  <2>9. (counter + Cardinality(Pending) + Cardinality(unread) * MaxBlocks)' <= Capacity
    <3>1. (Cardinality(unread) * MaxBlocks)' = r
      BY <1>2, <1>4
    <3>2. r \in Nat /\ counter + Cardinality(Pending) + r <= Capacity
      BY <2>4, <2>8
    <3> HIDE DEF r
    <3> QED BY <1>2, <2>4, <2>6, <2>7, <3>1, <3>2
  <2> QED BY <1>4, <2>6, <2>9 DEF RoomInv
<1> QED BY <1>4, <1>7, <1>8, <1>9, <1>10, <1>11, <1>12 DEF OutputInv

\* A place is taken at the end of a file, where no block is and no task writes.
LEMMA TakePlaceStep ==
    ASSUME OutputInv, NEW i \in Tasks, MapPlace(i) \/ EmitPlace(i)
    PROVE  OutputInv'
<1> DEFINE next == IF Op = "map" THEN "slot" ELSE "pushes"
<1>1. /\ pc[i] \in {"emits", "place"} /\ TakePlace(i, next)
      /\ HasSlot(i) <=> Op # "map"
      /\ ~HasPlace(i)
  BY DEF MapPlace, EmitPlace, HasPlace, HasSlot
<1>2. PICK f \in Files :
        /\ base' = [base EXCEPT ![i] = [index |-> Head(blocks[i]).index, file |-> f,
                                        at |-> file_offsets[f],
                                        used |-> Len(Head(blocks[i]).content)]]
        /\ file_offsets' = [file_offsets EXCEPT ![f] = @ + 1]
  BY <1>1 DEF TakePlace, Advance
<1> DEFINE h == [index |-> Head(blocks[i]).index, file |-> f, at |-> file_offsets[f],
                 used |-> Len(Head(blocks[i]).content)]
<1>3. /\ Goto(i, next)
      /\ UNCHANGED <<job, source, phase, unread, batch, chunk, blocks, slot_for, buffer,
                     counter, headers, pushed>>
  BY <1>1 DEF TakePlace, arguments
<1>4. /\ phase = "parallel" /\ Op \in EmitOps /\ InBatch /\ Running
      /\ IsSeq(blocks[i]) /\ Len(blocks[i]) \in Nat \ {0}
      /\ Head(blocks[i]) = blocks[i][1]
      /\ blocks[i][1].index \in Nat /\ Len(blocks[i][1].content) \in 0..ChunkSize
  BY <1>1, InHand
<1>5. /\ Op' = Op /\ NumChunks' = NumChunks /\ Chunks' = Chunks /\ Capacity' = Capacity
      /\ MaxBlocks' = MaxBlocks
      /\ pc'[i] = next /\ \A k \in Tasks : k # i => pc'[k] = pc[k]
      /\ pc' \in [Tasks -> {"polls", "filter", "sieve", "find_if", "emits", "slot",
                            "place", "pushes", "scatters", "flushes", "done"}]
      /\ JobInv' /\ PcInv' /\ BatchInv' /\ FillInv'
      /\ ShuffleInv' /\ ScatterInv' /\ GatherInv'
  BY <1>3, <1>4, EmitFrame
<1>6. /\ HasPlace(i)' /\ HasSlot(i)' = HasSlot(i)
      /\ \A k \in Tasks : k # i => HasSlot(k)' = HasSlot(k) /\ HasPlace(k)' = HasPlace(k)
  BY <1>1, <1>5 DEF HasSlot, HasPlace
<1>7. next \in {"slot", "pushes"}
  OBVIOUS
<1> HIDE DEF next
<1>8. /\ file_offsets[f] \in Nat /\ file_offsets'[f] = file_offsets[f] + 1
      /\ \A g \in Files : file_offsets'[g] \in Nat /\ file_offsets[g] <= file_offsets'[g]
      /\ file_offsets' \in [Files -> Nat]
  BY <1>2 DEF OutputInv, TypeInv
<1>9. base'[i] = h /\ \A k \in Tasks : k # i => base'[k] = base[k]
  BY <1>2 DEF OutputInv, TypeInv, IsMap
<1>10. /\ IsHeader(h) /\ h.file = f /\ h.at = file_offsets[f] /\ h.used \in 0..ChunkSize
  BY <1>4, <1>8 DEF IsHeader
<1> HIDE DEF h
<1>11. TypeInv'
  <2>1. IsMap(base', Tasks)
    BY <1>2 DEF OutputInv, TypeInv, IsMap
  <2> QED BY <1>3, <1>5, <1>8, <2>1 DEF OutputInv, TypeInv, IsSeq, IsMap, IsHeader
<1>12. SizedInv' /\ ArrayInv'
  BY <1>3, <1>5 DEF OutputInv, SizedInv, ArrayInv, Running
<1>13. RestInv'
  BY <1>3, <1>4, <1>5, <1>7 DEF OutputInv, RestInv
<1>14. MatchInv' /\ Used' = Used
  <2>1. Used' = Used /\ OutputBlocks' = OutputBlocks
    BY <1>3 DEF Used, OutputBlocks
  <2> QED BY <1>3, <1>8, <2>1, MatchSame DEF OutputInv
<1>15. EmitInv'
  <2>1. EmitInv
    BY DEF OutputInv
  <2>2. \A s \in Used : PlaceOf(headers[s]) # PlaceOf(h)
    <3> SUFFICES ASSUME NEW s \in Used, PlaceOf(headers[s]) = PlaceOf(h) PROVE FALSE
      OBVIOUS
    <3>1. headers[s].file = f /\ headers[s].at = file_offsets[f]
      BY <1>10 DEF PlaceOf
    <3>2. headers[s].at \in Nat /\ headers[s].at < file_offsets[headers[s].file]
      BY UsedPlace DEF OutputInv
    <3> QED BY <1>8, <3>1, <3>2
  <2>3. ASSUME NEW k \in Tasks, HasPlace(k) PROVE PlaceOf(base[k]) # PlaceOf(h)
    <3> SUFFICES ASSUME PlaceOf(base[k]) = PlaceOf(h) PROVE FALSE
      OBVIOUS
    <3>1. base[k].file = f /\ base[k].at = file_offsets[f]
      BY <1>10 DEF PlaceOf
    <3>2. base[k].at \in Nat /\ base[k].at < file_offsets[base[k].file]
      BY <1>4, <2>1, <2>3 DEF EmitInv
    <3> QED BY <1>8, <3>1, <3>2
  <2>4. ASSUME NEW k \in Tasks
        PROVE  /\ IsSeq(blocks'[k])
               /\ \A j \in 1..Len(blocks'[k]) : /\ blocks'[k][j].index \in Nat
                                                /\ Len(blocks'[k][j].content) \in 0..ChunkSize
               /\ pc'[k] \notin {"polls", "done"} => blocks'[k] # <<>>
    <3>1. blocks[i] # <<>>
      BY <1>4, EmptyIs
    <3> QED BY <1>3, <1>4, <1>5, <2>1, <3>1 DEF EmitInv
  <2>5. ASSUME NEW k \in Tasks
        PROVE  /\ slot_for'[k] < counter'
               /\ HasSlot(k)' => slot_for'[k] # -1 /\ slot_for'[k] \notin Used'
    BY <1>3, <1>4, <1>6, <1>14, <2>1 DEF EmitInv
  <2>6. ASSUME NEW k \in Tasks, HasPlace(k)'
        PROVE  /\ IsHeader(base[k])'
               /\ base'[k].file \in Files /\ base'[k].at \in Nat
               /\ base'[k].at < file_offsets'[base'[k].file]
               /\ base'[k].used \in 0..ChunkSize
               /\ \A s \in Used' : PlaceOf(headers'[s]) # PlaceOf(base'[k])
    <3>1. CASE k = i
      <4>1. IsHeader(base[k])'
        BY <1>9, <1>10, <3>1 DEF IsHeader
      <4>2. /\ base'[k].file = f /\ base'[k].at = file_offsets[f] /\ base'[k].at \in Nat
            /\ base'[k].used \in 0..ChunkSize
        BY <1>8, <1>9, <1>10, <3>1
      <4>3. base'[k].at < file_offsets'[base'[k].file]
        BY <1>8, <4>2
      <4>4. \A s \in Used' : PlaceOf(headers'[s]) # PlaceOf(base'[k])
        BY <1>3, <1>9, <1>14, <2>2, <3>1
      <4> QED BY <4>1, <4>2, <4>3, <4>4
    <3>2. CASE k # i
      <4>1. HasPlace(k) /\ base'[k] = base[k]
        BY <1>6, <1>9, <2>6, <3>2
      <4>2. /\ IsHeader(base[k])
            /\ base[k].file \in Files /\ base[k].at \in Nat
            /\ base[k].at < file_offsets[base[k].file]
            /\ base[k].used \in 0..ChunkSize
            /\ \A s \in Used : PlaceOf(headers[s]) # PlaceOf(base[k])
        BY <1>4, <2>1, <4>1 DEF EmitInv
      <4>3. base[k].at < file_offsets'[base[k].file]
        <5>1. file_offsets[base[k].file] \in Nat
          BY <4>2 DEF OutputInv, TypeInv
        <5> QED BY <1>8, <4>2, <5>1
      <4>4. IsHeader(base[k])'
        BY <4>1, <4>2 DEF IsHeader
      <4> QED BY <1>3, <1>14, <4>1, <4>2, <4>3, <4>4
    <3> QED BY <3>1, <3>2
  <2>7. ASSUME NEW j \in Tasks, NEW k \in Tasks, HasSlot(j)', HasSlot(k)',
               slot_for'[j] = slot_for'[k]
        PROVE  j = k
    <3>1. HasSlot(j) /\ HasSlot(k)
      BY <1>6, <2>7
    <3> QED BY <1>3, <1>4, <2>1, <2>7, <3>1 DEF EmitInv
  <2>8. ASSUME NEW j \in Tasks, NEW k \in Tasks, HasPlace(j)', HasPlace(k)',
               PlaceOf(base'[j]) = PlaceOf(base'[k])
        PROVE  j = k
    <3>1. CASE j = i /\ k # i
      BY <1>6, <1>9, <2>3, <2>8, <3>1
    <3>2. CASE j # i /\ k = i
      BY <1>6, <1>9, <2>3, <2>8, <3>2
    <3>3. CASE j # i /\ k # i
      <4>1. HasPlace(j) /\ HasPlace(k) /\ PlaceOf(base[j]) = PlaceOf(base[k])
        BY <1>6, <1>9, <2>8, <3>3
      <4> QED BY <1>4, <2>1, <4>1 DEF EmitInv
    <3> QED BY <3>1, <3>2, <3>3
  <2>9. \A s \in Used' : s < counter'
    BY <1>3, <1>4, <1>14, <2>1 DEF EmitInv
  <2> QED BY <2>4, <2>5, <2>6, <2>7, <2>8, <2>9 DEF EmitInv
<1>16. RoomInv'
  <2>1. \A k \in Tasks : SlotsNeeded(k)' = SlotsNeeded(k)
    BY <1>3, <1>6 DEF SlotsNeeded
  <2>2. Pending' = Pending
    BY <2>1, SamePending
  <2> QED BY <1>3, <1>4, <1>5, <2>2 DEF OutputInv, RoomInv
<1> QED BY <1>5, <1>11, <1>12, <1>13, <1>14, <1>15, <1>16 DEF OutputInv

\* The header goes to the slot that was taken, with the place that was taken.
LEMMA PushBlockStep ==
    ASSUME OutputInv, NEW i \in Tasks, MapPush(i) \/ EmitPush(i)
    PROVE  OutputInv'
<1> DEFINE slot == slot_for[i]
           h == base[i]
           content == Padded(Head(blocks[i]).content, OutBlock)
           next == IF Len(blocks[i]) = 1 THEN "done" ELSE "emits"
<1>1. pc[i] = "pushes" /\ PushBlock(i) /\ HasSlot(i) /\ HasPlace(i)
  BY DEF MapPush, EmitPush, HasPlace, HasSlot
<1>2. /\ phase = "parallel" /\ Op \in EmitOps /\ InBatch /\ Running
      /\ IsSeq(blocks[i]) /\ Len(blocks[i]) \in Nat \ {0}
  BY <1>1, InHand
<1>3. EmitInv
  BY DEF OutputInv
<1>4. /\ slot # -1 /\ slot \notin Used /\ slot < counter
      /\ IsHeader(h) /\ h.file \in Files /\ h.at \in Nat
      /\ h.at < file_offsets[h.file] /\ h.used \in 0..ChunkSize
      /\ \A s \in Used : PlaceOf(headers[s]) # PlaceOf(h)
  BY <1>1, <1>2, <1>3 DEF EmitInv
<1>5. slot \in DOMAIN headers
  BY <1>4, SlotsFit
<1>6. /\ headers' = [headers EXCEPT ![slot] = h]
      /\ pushed' = pushed \cup {Block(h, content)}
      /\ blocks' = [blocks EXCEPT ![i] = Tail(@)]
      /\ Goto(i, next)
      /\ UNCHANGED <<job, source, phase, unread, batch, chunk, slot_for, base, buffer,
                     counter, file_offsets>>
  BY <1>1, <1>5 DEF PushBlock, arguments
<1> HIDE DEF content
<1>7. /\ Op' = Op /\ NumChunks' = NumChunks /\ Chunks' = Chunks /\ Capacity' = Capacity
      /\ MaxBlocks' = MaxBlocks
      /\ pc'[i] = next /\ \A k \in Tasks : k # i => pc'[k] = pc[k]
      /\ pc' \in [Tasks -> {"polls", "filter", "sieve", "find_if", "emits", "slot",
                            "place", "pushes", "scatters", "flushes", "done"}]
      /\ JobInv' /\ PcInv' /\ BatchInv' /\ FillInv'
      /\ ShuffleInv' /\ ScatterInv' /\ GatherInv'
  BY <1>2, <1>6, EmitFrame
<1>8. /\ ~HasSlot(i)' /\ ~HasPlace(i)'
      /\ \A k \in Tasks : k # i => HasSlot(k)' = HasSlot(k) /\ HasPlace(k)' = HasPlace(k)
  BY <1>1, <1>7 DEF HasSlot, HasPlace
<1>9. /\ blocks'[i] = Tail(blocks[i]) /\ IsMap(blocks', Tasks)
      /\ \A k \in Tasks : k # i => blocks'[k] = blocks[k]
  BY <1>6 DEF OutputInv, TypeInv, IsMap
<1>10. /\ IsSeq(blocks'[i]) /\ Len(blocks'[i]) = Len(blocks[i]) - 1
       /\ \A k \in 1..Len(blocks'[i]) : blocks'[i][k] = blocks[i][k + 1]
  <2>1. blocks[i] # <<>>
    BY <1>2, EmptyIs
  <2> QED BY <1>2, <1>9, <2>1, IsSeqTail
<1>11. next = "done" <=> blocks'[i] = <<>>
  <2>1. blocks'[i] = <<>> <=> Len(blocks'[i]) = 0
    BY <1>10, EmptyIs
  <2>2. blocks'[i] = <<>> <=> Len(blocks[i]) = 1
    BY <1>2, <1>10, <2>1
  <2> QED BY <2>2
<1>12. next \in {"done", "emits"}
  OBVIOUS
<1> HIDE DEF next
<1>13. MatchInv' /\ Used' = Used \cup {slot} /\ DOMAIN headers' = DOMAIN headers
  <2>1. \A f \in Files : file_offsets'[f] \in Nat /\ file_offsets[f] <= file_offsets'[f]
    BY <1>6 DEF OutputInv, TypeInv
  <2>2. h.at < file_offsets'[h.file]
    BY <1>4, <1>6
  <2> HIDE DEF slot, h
  <2> QED BY <1>4, <1>5, <1>6, <2>1, <2>2, MatchAdded DEF OutputInv
<1>14. /\ headers'[slot] = h
       /\ \A s \in DOMAIN headers : s # slot => headers'[s] = headers[s]
       /\ IsMap(headers', DOMAIN headers')
  BY <1>5, <1>6 DEF OutputInv, TypeInv, IsMap
<1>15. TypeInv'
  <2>1. \A s \in DOMAIN headers' : IsHeader(headers'[s])
    BY <1>4, <1>13, <1>14 DEF OutputInv, TypeInv
  <2>2. IsFiniteSet(pushed')
    <3>1. IsFiniteSet(pushed)
      BY DEF OutputInv, TypeInv
    <3> QED BY <1>6, <3>1, FS_AddElement
  <2> QED BY <1>6, <1>7, <1>9, <1>14, <2>1, <2>2
          DEF OutputInv, TypeInv, IsSeq, IsMap, IsHeader
<1>16. SizedInv'
  BY <1>4, <1>6, <1>13, <1>14 DEF OutputInv, SizedInv
<1>17. ArrayInv'
  BY <1>6, <1>7, <1>13 DEF OutputInv, ArrayInv, Running
<1>18. RestInv'
  BY <1>2, <1>6, <1>7, <1>9, <1>11, <1>12 DEF OutputInv, RestInv
<1>19. EmitInv'
  <2>1. ASSUME NEW k \in Tasks
        PROVE  /\ IsSeq(blocks'[k])
               /\ \A j \in 1..Len(blocks'[k]) : /\ blocks'[k][j].index \in Nat
                                                /\ Len(blocks'[k][j].content) \in 0..ChunkSize
               /\ pc'[k] \notin {"polls", "done"} => blocks'[k] # <<>>
    <3>1. CASE k = i
      <4>1. \A j \in 1..Len(blocks[i]) : /\ blocks[i][j].index \in Nat
                                         /\ Len(blocks[i][j].content) \in 0..ChunkSize
        BY <1>2, <1>3 DEF EmitInv
      <4>2. \A j \in 1..Len(blocks'[i]) : j + 1 \in 1..Len(blocks[i])
        BY <1>2, <1>10
      <4>3. pc'[i] \notin {"polls", "done"} => blocks'[i] # <<>>
        BY <1>7, <1>11
      <4> QED BY <1>10, <3>1, <4>1, <4>2, <4>3
    <3>2. CASE k # i
      BY <1>2, <1>3, <1>7, <1>9, <3>2 DEF EmitInv
    <3> QED BY <3>1, <3>2
  <2>2. ASSUME NEW k \in Tasks
        PROVE  /\ slot_for'[k] < counter'
               /\ HasSlot(k)' => slot_for'[k] # -1 /\ slot_for'[k] \notin Used'
    <3>1. slot_for'[k] < counter'
      BY <1>2, <1>3, <1>6 DEF EmitInv
    <3>2. ASSUME HasSlot(k)' PROVE slot_for'[k] # -1 /\ slot_for'[k] \notin Used'
      <4>1. k # i /\ HasSlot(k)
        BY <1>8, <3>2
      <4>2. slot_for[k] # -1 /\ slot_for[k] \notin Used /\ slot_for[k] # slot
        BY <1>1, <1>2, <1>3, <4>1 DEF EmitInv
      <4> QED BY <1>6, <1>13, <4>2
    <3> QED BY <3>1, <3>2
  <2>3. ASSUME NEW k \in Tasks, HasPlace(k)'
        PROVE  /\ IsHeader(base[k])'
               /\ base'[k].file \in Files /\ base'[k].at \in Nat
               /\ base'[k].at < file_offsets'[base'[k].file]
               /\ base'[k].used \in 0..ChunkSize
               /\ \A s \in Used' : PlaceOf(headers'[s]) # PlaceOf(base'[k])
    <3>1. k # i /\ HasPlace(k)
      BY <1>8, <2>3
    <3>2. /\ IsHeader(base[k])
          /\ base[k].file \in Files /\ base[k].at \in Nat
          /\ base[k].at < file_offsets[base[k].file]
          /\ base[k].used \in 0..ChunkSize
          /\ \A s \in Used : PlaceOf(headers[s]) # PlaceOf(base[k])
      BY <1>2, <1>3, <3>1 DEF EmitInv
    <3>3. PlaceOf(base[k]) # PlaceOf(h)
      BY <1>1, <1>2, <1>3, <3>1 DEF EmitInv
    <3>4. \A s \in Used' : PlaceOf(headers'[s]) # PlaceOf(base[k])
      BY <1>4, <1>13, <1>14, <3>2, <3>3 DEF Used
    <3>5. IsHeader(base[k])'
      BY <1>6, <3>2 DEF IsHeader
    <3> QED BY <1>6, <3>2, <3>4, <3>5
  <2>4. ASSUME NEW j \in Tasks, NEW k \in Tasks, HasSlot(j)', HasSlot(k)',
               slot_for'[j] = slot_for'[k]
        PROVE  j = k
    <3>1. HasSlot(j) /\ HasSlot(k)
      BY <1>8, <2>4
    <3> QED BY <1>2, <1>3, <1>6, <2>4, <3>1 DEF EmitInv
  <2>5. ASSUME NEW j \in Tasks, NEW k \in Tasks, HasPlace(j)', HasPlace(k)',
               PlaceOf(base'[j]) = PlaceOf(base'[k])
        PROVE  j = k
    <3>1. HasPlace(j) /\ HasPlace(k)
      BY <1>8, <2>5
    <3> QED BY <1>2, <1>3, <1>6, <2>5, <3>1 DEF EmitInv
  <2>6. \A s \in Used' : s < counter'
    BY <1>2, <1>3, <1>4, <1>6, <1>13 DEF EmitInv
  <2> QED BY <2>1, <2>2, <2>3, <2>4, <2>5, <2>6 DEF EmitInv
<1>20. RoomInv'
  <2>1. SlotsNeeded(i)' = SlotsNeeded(i)
    <3>1. SlotsNeeded(i) = Len(blocks[i]) - 1
      BY <1>1 DEF SlotsNeeded
    <3>2. SlotsNeeded(i)' = Len(blocks'[i]) - 0
      BY <1>8 DEF SlotsNeeded
    <3> QED BY <1>2, <1>10, <3>1, <3>2
  <2>3. \A k \in Tasks : k # i => SlotsNeeded(k)' = SlotsNeeded(k)
    BY <1>8, <1>9 DEF SlotsNeeded
  <2>2. Pending' = Pending
    BY <2>1, <2>3, SamePending
  <2> QED BY <1>2, <1>6, <1>7, <2>2 DEF OutputInv, RoomInv
<1> QED BY <1>7, <1>13, <1>15, <1>16, <1>17, <1>18, <1>19, <1>20 DEF OutputInv

-----------------------------------------------------------------------------
(* Between the batches                                                     *)

\* All tasks are done.
LEMMA JoinStep ==
    ASSUME OutputInv, Join
    PROVE  OutputInv'
<1>1. /\ phase = "parallel" /\ phase' = "joined" /\ Op # "reduce"
      /\ \A i \in Tasks : pc[i] = "done"
      /\ UNCHANGED <<job, source, unread, batch, pc, chunk, blocks, slot_for, base, buffer,
                     counter, file_offsets, headers, pushed>>
  BY DEF Join, InBatch, arguments, task, output
<1>2. /\ Op' = Op /\ NumChunks' = NumChunks /\ Chunks' = Chunks /\ Capacity' = Capacity
      /\ MaxBlocks' = MaxBlocks /\ JobInv'
  BY <1>1, SameCall DEF OutputInv
<1>3. Running /\ Running'
  BY <1>1 DEF Running
<1>4. TypeInv'
  BY <1>1, <1>2 DEF OutputInv, TypeInv, IsSeq, IsMap, IsHeader
<1>5. SizedInv' /\ ArrayInv'
  BY <1>1, <1>2, <1>3 DEF OutputInv, SizedInv, ArrayInv
<1>6. PcInv' /\ RestInv'
  BY <1>1, <1>2 DEF OutputInv, PcInv, RestInv, Running
<1>7. MatchInv' /\ Used' = Used
  BY <1>1, SameOutput DEF OutputInv
<1>8. Filled' = Filled /\ Polled' = Polled /\ \A k : SlotOfBatch(k)' = SlotOfBatch(k)
  BY <1>1 DEF Filled, Polled, SlotOfBatch
<1>9. BatchInv' /\ FillInv'
  BY <1>1, <1>2, <1>3, <1>7, <1>8 DEF OutputInv, BatchInv, FillInv
<1>10. EmitInv'
  BY <1>1, <1>2, <1>3, <1>7 DEF OutputInv, EmitInv, HasSlot, HasPlace, IsHeader
<1>11. RoomInv'
  <2>1. Pending' = Pending
    BY <1>1 DEF Pending, SlotsNeeded, HasSlot
  <2> QED BY <1>1, <1>2, <1>3, <2>1 DEF OutputInv, RoomInv
<1>12. ShuffleInv' /\ ScatterInv' /\ GatherInv'
  BY <1>1, NotShuffling
<1> QED BY <1>2, <1>4, <1>5, <1>6, <1>7, <1>9, <1>10, <1>11, <1>12 DEF OutputInv

\* What the next batch begins with.
LEMMA NextBatchFrame ==
    ASSUME OutputInv, NextBatch, UNCHANGED <<job, source, unread, blocks>>
    PROVE  /\ Op' = Op /\ NumChunks' = NumChunks /\ Chunks' = Chunks /\ Capacity' = Capacity
           /\ MaxBlocks' = MaxBlocks
           /\ phase = "joined" /\ phase' = "parallel" /\ Running /\ Running'
           /\ \A i \in Tasks : /\ pc[i] = "done" /\ pc'[i] = "polls"
                               /\ blocks[i] = <<>> /\ slot_for'[i] = -1 /\ chunk'[i] = 0
           /\ Filled' = {} /\ Polled' = {} /\ batch' = batch + 1
           /\ JobInv' /\ PcInv' /\ RestInv'
           /\ ShuffleInv' /\ ScatterInv' /\ GatherInv'
           /\ NumChunks \in Nat /\ batch \in Nat
           /\ pc' \in [Tasks -> {"polls"}] /\ chunk' \in [Tasks -> {0}]
           /\ slot_for' \in [Tasks -> {-1}] /\ IsMap(buffer', Tasks)
<1>1. /\ phase = "joined" /\ phase' = "parallel" /\ batch' = batch + 1
      /\ pc' = PerTask("polls") /\ chunk' = PerTask(0) /\ slot_for' = PerTask(-1)
      /\ buffer' = PerTask(<<>>)
  BY DEF NextBatch
<1>2. /\ Op' = Op /\ NumChunks' = NumChunks /\ Chunks' = Chunks /\ Capacity' = Capacity
      /\ MaxBlocks' = MaxBlocks /\ JobInv'
  BY SameCall DEF OutputInv
<1>3. Running /\ Running'
  BY <1>1 DEF Running
<1>4. \A i \in Tasks : /\ pc[i] = "done" /\ pc'[i] = "polls"
                       /\ blocks[i] = <<>> /\ slot_for'[i] = -1 /\ chunk'[i] = 0
  BY <1>1 DEF OutputInv, PcInv, RestInv, PerTask
<1>5. Filled' = {} /\ Polled' = {}
  BY <1>4 DEF Filled, Polled
<1>6. PcInv' /\ RestInv'
  BY <1>1, <1>2, <1>3, <1>4 DEF OutputInv, PcInv, RestInv, Running
<1>7. ShuffleInv' /\ ScatterInv' /\ GatherInv'
  BY <1>1, NotShuffling
<1>8. NumChunks \in Nat /\ batch \in Nat
  BY DEF OutputInv, TypeInv, IsSeq, NumChunks
<1>9. /\ pc' \in [Tasks -> {"polls"}] /\ chunk' \in [Tasks -> {0}]
      /\ slot_for' \in [Tasks -> {-1}] /\ IsMap(buffer', Tasks)
  BY <1>1 DEF PerTask, IsMap
<1> QED BY <1>1, <1>2, <1>3, <1>4, <1>5, <1>6, <1>7, <1>8, <1>9

\* The tasks begin again; slots are counted on.
LEMMA NextBatchStep ==
    ASSUME OutputInv, BatchMapped \/ BatchSearched
    PROVE  OutputInv'
<1>1. /\ NextBatch /\ Op \in EmitOps \cup {"find_if"}
      /\ UNCHANGED <<job, source, unread, blocks, base, counter, file_offsets, headers,
                     pushed>>
  BY DEF BatchMapped, BatchSearched, EmitOps, arguments, output
<1>2. /\ Op' = Op /\ NumChunks' = NumChunks /\ Chunks' = Chunks /\ Capacity' = Capacity
      /\ MaxBlocks' = MaxBlocks
      /\ phase = "joined" /\ phase' = "parallel" /\ Running /\ Running'
      /\ \A i \in Tasks : /\ pc[i] = "done" /\ pc'[i] = "polls"
                          /\ blocks[i] = <<>> /\ slot_for'[i] = -1 /\ chunk'[i] = 0
      /\ batch' = batch + 1
      /\ JobInv' /\ PcInv' /\ RestInv'
      /\ ShuffleInv' /\ ScatterInv' /\ GatherInv'
      /\ NumChunks \in Nat /\ batch \in Nat
      /\ pc' \in [Tasks -> {"polls"}] /\ chunk' \in [Tasks -> {0}]
      /\ slot_for' \in [Tasks -> {-1}] /\ IsMap(buffer', Tasks)
  BY <1>1, NextBatchFrame
<1>3. TypeInv'
  <2>1. pc' \in [Tasks -> {"polls", "filter", "sieve", "find_if", "emits", "slot", "place",
                           "pushes", "scatters", "flushes", "done"}]
    BY <1>2
  <2>2. chunk' \in [Tasks -> 0..NumChunks] /\ slot_for' \in [Tasks -> Nat \cup {-1}]
    BY <1>2
  <2>3. batch' \in Nat
    BY <1>2
  <2> QED BY <1>1, <1>2, <2>1, <2>2, <2>3 DEF OutputInv, TypeInv, IsSeq, IsMap, IsHeader
<1>4. SizedInv' /\ ArrayInv'
  BY <1>1, <1>2 DEF OutputInv, SizedInv, ArrayInv
<1>5. MatchInv' /\ Used' = Used
  BY <1>1, SameOutput DEF OutputInv
<1>6. BatchInv' /\ FillInv'
  BY <1>1, <1>2, NotBatch DEF BatchOps, GenerateOps, PollOps, EmitOps
<1>7. EmitInv'
  <2> SUFFICES ASSUME Op \in EmitOps PROVE EmitInv'
    BY <1>2 DEF EmitInv
  <2>1. EmitInv /\ counter \in Nat
    BY DEF OutputInv, TypeInv
  <2>2. \A k \in Tasks : ~HasSlot(k)' /\ ~HasPlace(k)' /\ slot_for'[k] < counter'
    BY <1>1, <1>2, <2>1 DEF HasSlot, HasPlace
  <2>3. \A k \in Tasks : pc'[k] \in {"polls", "done"}
    BY <1>2
  <2> QED BY <1>1, <1>2, <1>5, <2>1, <2>2, <2>3 DEF EmitInv
<1>8. RoomInv'
  <2>1. \A k \in Tasks : SlotsNeeded(k)' = SlotsNeeded(k)
    BY <1>1, <1>2 DEF SlotsNeeded, HasSlot
  <2>2. Pending' = Pending
    BY <2>1, SamePending
  <2> QED BY <1>1, <1>2, <2>2 DEF OutputInv, RoomInv
<1> QED BY <1>2, <1>3, <1>4, <1>5, <1>6, <1>7, <1>8 DEF OutputInv

\* The places of the tasks' buffers are behind what is in the files, one for each,
\* and before what the files end at afterwards.
LEMMA Places ==
    ASSUME OutputInv, Running, Op \in BatchOps, PlacesTaken
    PROVE  /\ \A i \in Filled : /\ FileOf(i) \in Files /\ PlaceFor(i) \in Nat
                                /\ file_offsets[FileOf(i)] <= PlaceFor(i)
                                /\ PlaceFor(i) < file_offsets'[FileOf(i)]
           /\ \A i, k \in Filled :
                FileOf(i) = FileOf(k) /\ PlaceFor(i) = PlaceFor(k) => i = k
           /\ file_offsets' \in [Files -> Nat]
           /\ \A f \in Files : file_offsets[f] <= file_offsets'[f]
<1> DEFINE Upto(i) == {k \in Filled : k < i /\ FileOf(k) = FileOf(i)}
           In(f) == {i \in Filled : FileOf(i) = f}
<1>1. IsFiniteSet(Filled) /\ Filled \subseteq Nat /\ \A i \in Filled : FileOf(i) \in Files
  <2>1. Filled \subseteq Tasks
    BY DEF Filled
  <2>2. \A i \in Filled : FileOf(i) \in Files
    BY DEF OutputInv, BatchInv, FileOf
  <2> QED BY <2>1, <2>2, Sizes, FS_Subset
<1>2. /\ \A i : IsFiniteSet(Upto(i)) /\ Cardinality(Upto(i)) \in Nat
      /\ \A f : IsFiniteSet(In(f)) /\ Cardinality(In(f)) \in Nat
  BY <1>1, FS_Subset, FS_CardinalityType
<1>3. \A i \in Filled : PlaceFor(i) = file_offsets[FileOf(i)] + Cardinality(Upto(i))
  BY DEF PlaceFor
<1>4. \A f \in Files : file_offsets[f] \in Nat
                       /\ file_offsets'[f] = file_offsets[f] + Cardinality(In(f))
  BY DEF PlacesTaken, OutputInv, TypeInv
<1>5. ASSUME NEW i \in Filled PROVE Cardinality(Upto(i)) < Cardinality(In(FileOf(i)))
  <2>1. Upto(i) \subseteq In(FileOf(i)) /\ i \in In(FileOf(i)) /\ i \notin Upto(i)
    BY <1>1
  <2> HIDE DEF Upto, In
  <2>2. Upto(i) # In(FileOf(i))
    BY <2>1
  <2>3. /\ Cardinality(Upto(i)) <= Cardinality(In(FileOf(i)))
        /\ Cardinality(Upto(i)) # Cardinality(In(FileOf(i)))
    BY <1>2, <2>1, <2>2, FS_Subset
  <2> QED BY <1>2, <2>3
<1>6. ASSUME NEW i \in Filled, NEW k \in Filled, FileOf(i) = FileOf(k), i < k
      PROVE  Cardinality(Upto(i)) < Cardinality(Upto(k))
  <2>0. i \in Nat /\ k \in Nat /\ \A j \in Filled : j \in Nat /\ (j < i => j < k)
    BY <1>1, <1>6
  <2>1. Upto(i) \subseteq Upto(k)
    BY <1>6, <2>0
  <2>4. i \in Upto(k)
    BY <1>6
  <2>5. i \notin Upto(i)
    BY <2>0
  <2> HIDE DEF Upto, In
  <2>2. Upto(i) # Upto(k)
    BY <2>4, <2>5
  <2>3. /\ Cardinality(Upto(i)) <= Cardinality(Upto(k))
        /\ Cardinality(Upto(i)) # Cardinality(Upto(k))
    BY <1>2, <2>1, <2>2, FS_Subset
  <2> QED BY <1>2, <2>3
<1> HIDE DEF Upto, In
<1>7. \A i \in Filled : /\ FileOf(i) \in Files /\ PlaceFor(i) \in Nat
                        /\ file_offsets[FileOf(i)] <= PlaceFor(i)
                        /\ PlaceFor(i) < file_offsets'[FileOf(i)]
  BY <1>1, <1>2, <1>3, <1>4, <1>5
<1>8. \A i, k \in Filled : FileOf(i) = FileOf(k) /\ PlaceFor(i) = PlaceFor(k) => i = k
  <2> SUFFICES ASSUME NEW i \in Filled, NEW k \in Filled,
                      FileOf(i) = FileOf(k), PlaceFor(i) = PlaceFor(k)
               PROVE  ~ (i < k) /\ ~ (k < i)
    BY <1>1
  <2>1. Cardinality(Upto(i)) = Cardinality(Upto(k))
    BY <1>1, <1>2, <1>3, <1>4
  <2> QED BY <1>2, <1>6, <2>1
<1>9. file_offsets' \in [Files -> Nat] /\ \A f \in Files : file_offsets[f] <= file_offsets'[f]
  <2>1. \A f \in Files : file_offsets'[f] \in Nat /\ file_offsets[f] <= file_offsets'[f]
    BY <1>2, <1>4
  <2> QED BY <2>1 DEF PlacesTaken
<1> QED BY <1>7, <1>8, <1>9

\* The buffers of the batch go to the writer, each to the place in its header.
LEMMA PushBatchStep ==
    ASSUME OutputInv,
           \/ PushIota \/ PushFlags \/ PushWrittenIota \/ PushFiltered \/ PushPrimes
    PROVE  OutputInv'
<1> DEFINE placed == [i \in Filled |-> [headers[slot_for[i]] EXCEPT !.at = PlaceFor(i)]]
           new == {slot_for[i] : i \in Filled}
           blks == {Block(placed[i], buffer[i]) : i \in Filled}
<1>1. Op \in BatchOps /\ PushBatch
  BY DEF PushIota, PushFlags, PushWrittenIota, PushFiltered, PushPrimes, BatchOps,
         GenerateOps, PollOps
<1>2. /\ NextBatch /\ PlacesTaken /\ counter' = 0
      /\ headers' = [s \in DOMAIN headers |->
                        IF \E i \in Filled : slot_for[i] = s
                        THEN placed[CHOOSE i \in Filled : slot_for[i] = s]
                        ELSE headers[s]]
      /\ pushed' = pushed \cup blks
      /\ UNCHANGED <<job, source, unread, blocks, base>>
  BY <1>1 DEF PushBatch, arguments
<1>3. /\ Op' = Op /\ NumChunks' = NumChunks /\ Chunks' = Chunks /\ Capacity' = Capacity
      /\ MaxBlocks' = MaxBlocks
      /\ phase = "joined" /\ phase' = "parallel" /\ Running /\ Running'
      /\ \A i \in Tasks : /\ pc[i] = "done" /\ pc'[i] = "polls"
                          /\ blocks[i] = <<>> /\ slot_for'[i] = -1 /\ chunk'[i] = 0
      /\ Filled' = {} /\ Polled' = {} /\ batch' = batch + 1
      /\ JobInv' /\ PcInv' /\ RestInv'
      /\ ShuffleInv' /\ ScatterInv' /\ GatherInv'
      /\ NumChunks \in Nat /\ batch \in Nat
      /\ pc' \in [Tasks -> {"polls"}] /\ chunk' \in [Tasks -> {0}]
      /\ slot_for' \in [Tasks -> {-1}] /\ IsMap(buffer', Tasks)
  BY <1>2, NextBatchFrame
<1>4. /\ \A i \in Filled : /\ FileOf(i) \in Files /\ PlaceFor(i) \in Nat
                           /\ file_offsets[FileOf(i)] <= PlaceFor(i)
                           /\ PlaceFor(i) < file_offsets'[FileOf(i)]
      /\ \A i, k \in Filled :
           FileOf(i) = FileOf(k) /\ PlaceFor(i) = PlaceFor(k) => i = k
      /\ file_offsets' \in [Files -> Nat]
      /\ \A f \in Files : file_offsets[f] <= file_offsets'[f]
  BY <1>1, <1>2, <1>3, Places
<1> DEFINE o == batch * NumSSDs
<1>5. /\ counter \in Nat /\ o \in Nat /\ SlotOfBatch(0) = o /\ SlotOfBatch(counter) = o + counter
      /\ (batch + 1) * NumSSDs = o + NumSSDs /\ SlotOfBatch(NumSSDs) = o + NumSSDs
  <2>1. counter \in Nat
    BY DEF OutputInv, TypeInv
  <2> QED BY <1>3, <2>1, Batches, Sizes
<1> HIDE DEF o
<1>6. /\ counter = Cardinality(Filled)
      /\ \A i \in Filled :
           /\ slot_for[i] \in o..(o + counter - 1)
           /\ slot_for[i] \in DOMAIN headers
           /\ headers[slot_for[i]].at = -1
           /\ headers[slot_for[i]].file \in Files
      /\ \A i, k \in Filled : slot_for[i] = slot_for[k] => i = k
      /\ \A s \in Used : s < o
  BY <1>1, <1>3, <1>5 DEF OutputInv, BatchInv
<1>7. counter <= NumSSDs /\ IsFiniteSet(Filled)
  <2>1. Filled \subseteq Tasks
    BY DEF Filled
  <2> QED BY <1>6, <2>1, Sizes, FS_Subset
<1>8. ASSUME NEW i \in Filled
      PROVE  /\ IsHeader(placed[i])
             /\ placed[i].file = FileOf(i) /\ placed[i].at = PlaceFor(i)
             /\ placed[i].used = headers[slot_for[i]].used
             /\ headers'[slot_for[i]] = placed[i]
  <2>1. IsHeader(headers[slot_for[i]])
    BY <1>6 DEF OutputInv, TypeInv
  <2>2. /\ placed[i].file = FileOf(i) /\ placed[i].at = PlaceFor(i)
        /\ placed[i].used = headers[slot_for[i]].used
        /\ placed[i].index = headers[slot_for[i]].index
        /\ placed[i] = [index |-> placed[i].index, file |-> placed[i].file,
                        at |-> placed[i].at, used |-> placed[i].used]
    BY <2>1 DEF IsHeader, FileOf
  <2>3. IsHeader(placed[i])
    <3>1. placed[i].index \in Nat /\ placed[i].file \in Files /\ placed[i].at \in Nat
      BY <1>4, <2>1, <2>2 DEF IsHeader
    <3> HIDE DEF placed
    <3> QED BY <2>2, <3>1 DEF IsHeader
  <2>4. headers'[slot_for[i]] = placed[i]
    <3>1. (CHOOSE k \in Filled : slot_for[k] = slot_for[i]) = i
      BY <1>6
    <3> HIDE DEF placed
    <3> QED BY <1>2, <1>6, <3>1
  <2> QED BY <2>2, <2>3, <2>4
<1> HIDE DEF placed
<1>9. /\ DOMAIN headers' = DOMAIN headers /\ IsMap(headers', DOMAIN headers')
      /\ \A s \in DOMAIN headers : s \notin new => headers'[s] = headers[s]
      /\ new \subseteq DOMAIN headers
  <2>1. DOMAIN headers' = DOMAIN headers
    BY <1>2
  <2>2. IsMap(headers', DOMAIN headers')
    BY <1>2 DEF IsMap
  <2>3. \A s \in DOMAIN headers : s \notin new => headers'[s] = headers[s]
    BY <1>2
  <2> QED BY <1>6, <2>1, <2>2, <2>3
<1>10. \A s \in new : \E i \in Filled : s = slot_for[i]
  OBVIOUS
<1>11. \A i \in Filled : slot_for[i] \in new
  OBVIOUS
<1>12. Used \cap new = {}
  <2>1. \A i \in Filled : slot_for[i] \in Int /\ ~(slot_for[i] < o)
    BY <1>5, <1>6
  <2> QED BY <1>6, <1>10, <2>1
<1> HIDE DEF new
<1>13. Used' = Used \cup new /\ \A s \in Used : headers'[s] = headers[s]
  <2>1. \A s \in Used : headers'[s] = headers[s]
    BY <1>9, <1>12 DEF Used
  <2>2. \A s \in new : headers'[s].at \in Nat
    BY <1>4, <1>8, <1>10
  <2>3. \A s \in DOMAIN headers : s \in Used' <=> s \in Used \/ s \in new
    BY <1>9, <2>1, <2>2 DEF Used
  <2>4. Used \subseteq DOMAIN headers /\ Used' \subseteq DOMAIN headers
    BY <1>9 DEF Used
  <2> QED BY <1>9, <2>1, <2>3, <2>4
<1>14. /\ \A b \in blks : \E i \in Filled : b = Block(placed[i], buffer[i])
       /\ \A i \in Filled : Block(placed[i], buffer[i]) \in blks
       /\ \A i \in Filled : /\ Block(placed[i], buffer[i]).file = FileOf(i)
                            /\ PlaceOf(Block(placed[i], buffer[i])) = PlaceOf(placed[i])
  BY <1>8 DEF Block, PlaceOf
<1>15. OutputBlocks' = OutputBlocks \cup blks
  <2>1. \A b \in blks : b.file \in Files
    BY <1>4, <1>14
  <2> HIDE DEF blks
  <2> QED BY <1>2, <2>1 DEF OutputBlocks
<1>16. IsFiniteSet(pushed')
  <2>1. IsFiniteSet(blks)
    <3> DEFINE g == [i \in Filled |-> Block(placed[i], buffer[i])]
    <3>1. g \in Surjection(Filled, blks)
      BY DEF Surjection
    <3> HIDE DEF g, blks
    <3> QED BY <1>7, <3>1, FS_Surjection
  <2> HIDE DEF blks
  <2> QED BY <1>2, <2>1, FS_Union DEF OutputInv, TypeInv
<1> HIDE DEF blks
<1>17. \A i \in Filled : \A s \in Used : PlaceOf(headers[s]) # PlaceOf(placed[i])
  <2> SUFFICES ASSUME NEW i \in Filled, NEW s \in Used,
                      PlaceOf(headers[s]) = PlaceOf(placed[i])
               PROVE  FALSE
    OBVIOUS
  <2>1. headers[s].file = FileOf(i) /\ headers[s].at = PlaceFor(i)
    BY <1>8 DEF PlaceOf
  <2>2. headers[s].at \in Nat /\ headers[s].at < file_offsets[headers[s].file]
    BY UsedPlace DEF OutputInv
  <2>3. file_offsets[FileOf(i)] \in Nat
    BY <1>4 DEF OutputInv, TypeInv
  <2> QED BY <1>4, <2>1, <2>2, <2>3
<1>18. \A i, k \in Filled : PlaceOf(placed[i]) = PlaceOf(placed[k]) => i = k
  BY <1>4, <1>8 DEF PlaceOf
<1>19. MatchInv'
  <2>1. MatchInv
    BY DEF OutputInv
  <2>2. \A s \in Used' : headers'[s].file \in Files /\ headers'[s].at < file_offsets'[headers'[s].file]
    <3>1. ASSUME NEW s \in new
          PROVE  headers'[s].file \in Files /\ headers'[s].at < file_offsets'[headers'[s].file]
      BY <1>4, <1>8, <1>10
    <3>2. ASSUME NEW s \in Used
          PROVE  headers'[s].file \in Files /\ headers'[s].at < file_offsets'[headers'[s].file]
      <4>1. /\ headers[s].file \in Files /\ headers[s].at \in Nat
            /\ headers[s].at < file_offsets[headers[s].file]
        BY UsedPlace DEF OutputInv
      <4>2. file_offsets[headers[s].file] \in Nat
        BY <4>1 DEF OutputInv, TypeInv
      <4> QED BY <1>4, <1>13, <4>1, <4>2
    <3> QED BY <1>13, <3>1, <3>2
  <2>3. ASSUME NEW s \in Used', NEW t \in Used',
               PlaceOf(headers'[s]) = PlaceOf(headers'[t])
        PROVE  s = t
    <3>1. CASE s \in Used /\ t \in Used
      BY <1>13, <2>1, <2>3, <3>1 DEF MatchInv
    <3>2. CASE s \in new /\ t \in Used
      BY <1>8, <1>10, <1>13, <1>17, <2>3, <3>2
    <3>3. CASE s \in Used /\ t \in new
      BY <1>8, <1>10, <1>13, <1>17, <2>3, <3>3
    <3>4. CASE s \in new /\ t \in new
      BY <1>8, <1>10, <1>18, <2>3, <3>4
    <3> QED BY <1>13, <3>1, <3>2, <3>3, <3>4
  <2>4. ASSUME NEW s \in Used'
        PROVE  \E b \in OutputBlocks' : PlaceOf(b) = PlaceOf(headers'[s])
    <3>1. CASE s \in Used
      BY <1>13, <1>15, <2>1, <3>1 DEF MatchInv
    <3>2. CASE s \in new
      BY <1>8, <1>10, <1>14, <1>15, <3>2
    <3> QED BY <1>13, <3>1, <3>2
  <2>5. ASSUME NEW b \in OutputBlocks'
        PROVE  \E s \in Used' : PlaceOf(b) = PlaceOf(headers'[s])
    <3>1. CASE b \in OutputBlocks
      BY <1>13, <2>1, <3>1 DEF MatchInv
    <3>2. CASE b \in blks
      BY <1>8, <1>11, <1>13, <1>14, <3>2
    <3> QED BY <1>15, <3>1, <3>2
  <2>6. \A b, c \in OutputBlocks' : PlaceOf(b) = PlaceOf(c) => b = c
    <3>1. \A b \in OutputBlocks : \A i \in Filled : PlaceOf(b) # PlaceOf(placed[i])
      BY <1>17, <2>1 DEF MatchInv
    <3>2. \A b, c \in blks : PlaceOf(b) = PlaceOf(c) => b = c
      BY <1>14, <1>18
    <3>3. \A b \in OutputBlocks, c \in blks : PlaceOf(b) # PlaceOf(c)
      BY <1>14, <3>1
    <3> QED BY <1>15, <2>1, <3>2, <3>3 DEF MatchInv
  <2> QED BY <2>2, <2>3, <2>4, <2>5, <2>6 DEF MatchInv
<1>20. TypeInv'
  <2>1. pc' \in [Tasks -> {"polls", "filter", "sieve", "find_if", "emits", "slot", "place",
                           "pushes", "scatters", "flushes", "done"}]
    BY <1>3
  <2>2. chunk' \in [Tasks -> 0..NumChunks] /\ slot_for' \in [Tasks -> Nat \cup {-1}]
    BY <1>3
  <2>3. batch' \in Nat
    BY <1>3
  <2>4. \A s \in DOMAIN headers' : IsHeader(headers'[s])
    BY <1>8, <1>9, <1>10 DEF OutputInv, TypeInv
  <2>5. counter' \in Nat
    BY <1>2
  <2>6. UNCHANGED <<source, unread, blocks, base>>
    BY <1>2
  <2>7. IsFiniteSet(pushed') /\ IsMap(headers', DOMAIN headers') /\ file_offsets' \in [Files -> Nat]
    BY <1>4, <1>9, <1>16
  <2>8. IsSeq(source)' /\ \A ch \in Chunks' : source'[ch].index \in Nat
    BY <1>3, <2>6 DEF OutputInv, TypeInv, IsSeq, IsMap
  <2>9. unread' \subseteq Chunks' /\ phase' = "parallel" /\ chunk' \in [Tasks -> 0..NumChunks']
    BY <1>3, <2>2, <2>6 DEF OutputInv, TypeInv
  <2>10. IsMap(blocks', Tasks) /\ IsMap(base', Tasks) /\ IsMap(buffer', Tasks)
    BY <1>3, <2>6 DEF OutputInv, TypeInv
  <2>11. \A s \in DOMAIN headers' : IsHeader(headers[s])'
    BY <2>4 DEF IsHeader
  <2> QED BY <2>1, <2>2, <2>3, <2>5, <2>7, <2>8, <2>9, <2>10, <2>11 DEF TypeInv, IsMap
<1>21. SizedInv'
  BY <1>2, <1>6, <1>8, <1>9, <1>10 DEF OutputInv, SizedInv
<1>22. ArrayInv'
  BY <1>3, <1>9 DEF OutputInv, ArrayInv
<1>23. SlotOfBatch(0)' = o + NumSSDs
  <2>1. SlotOfBatch(0)' = (batch + 1) * NumSSDs + 0
    BY <1>3 DEF SlotOfBatch
  <2> QED BY <1>5, <2>1, Sizes
<1>24. BatchInv'
  <2>1. \A s \in Used' : s < o + NumSSDs
    <3>1. \A s \in Used : s \in Int
      <4>1. \E n \in {Cardinality(DOMAIN headers)} : DOMAIN headers = 0..(n - 1)
        BY DEF OutputInv, ArrayInv
      <4> QED BY <4>1 DEF Used
    <3>2. \A s \in Used : s < o + NumSSDs
      BY <1>5, <1>6, <3>1, Sizes
    <3>3. \A s \in new : s < o + NumSSDs
      BY <1>5, <1>6, <1>7, <1>10, Sizes
    <3> QED BY <1>13, <3>2, <3>3
  <2> QED BY <1>2, <1>3, <1>23, <2>1, FS_EmptySet DEF BatchInv
<1>25. FillInv'
  <2> SUFFICES ASSUME Op \in PollOps, unread # {}
               PROVE  SlotOfBatch(Cardinality(Polled))' + Cardinality(unread) = NumChunks
    BY <1>2, <1>3 DEF FillInv, PollOps
  <2>1. Polled = Tasks
    BY <1>3 DEF OutputInv, FillInv, Polled
  <2>2. SlotOfBatch(Cardinality(Polled)) + Cardinality(unread) = NumChunks
    BY <1>3 DEF OutputInv, FillInv
  <2>3. SlotOfBatch(NumSSDs) + Cardinality(unread) = NumChunks
    BY <2>1, <2>2, Sizes
  <2>4. SlotOfBatch(Cardinality(Polled))' = SlotOfBatch(0)'
    BY <1>3, FS_EmptySet DEF SlotOfBatch
  <2> QED BY <1>5, <1>23, <2>3, <2>4
<1>26. EmitInv' /\ RoomInv'
  BY <1>1, <1>3, NotEmit DEF BatchOps, GenerateOps, PollOps, EmitOps
<1> QED BY <1>3, <1>19, <1>20, <1>21, <1>22, <1>24, <1>25, <1>26 DEF OutputInv

-----------------------------------------------------------------------------
(* The end of a call                                                       *)

\* The headers are put in order, and renumbered or not.
LEMMA ReturnStep ==
    ASSUME OutputInv, Op \in BatchOps \cup EmitOps, NEW n \in Nat, NEW result,
           ReturnSequence(result),
           result = SortedHeaders(n) \/ result = Renumbered(SortedHeaders(n)),
           Used \subseteq 0..(n - 1), 0..(n - 1) \subseteq DOMAIN headers
    PROVE  OutputInv'
<1>1. /\ phase = "parallel" /\ ~InBatch /\ phase' = "returned"
      /\ headers' = [s \in 0..(Len(result) - 1) |-> result[s + 1]]
      /\ UNCHANGED <<job, source, unread, batch, pc, chunk, blocks, slot_for, base, buffer,
                     counter, file_offsets, pushed>>
  BY DEF ReturnSequence, arguments, task
<1>2. /\ Op' = Op /\ NumChunks' = NumChunks /\ Chunks' = Chunks /\ JobInv'
  BY <1>1, SameCall DEF OutputInv
<1>3. \A s \in 0..(n - 1) : IsHeader(headers[s])
  BY DEF OutputInv, TypeInv
<1>4. PICK p : Orders(p, n) /\ SortedHeaders(n) = [k \in 1..n |-> headers[p[k]]]
  <2>1. \A s \in 0..(n - 1) : headers[s].index \in Nat
    BY <1>3 DEF IsHeader
  <2> QED BY <2>1, SortedOrder
<1>5. \A k \in 1..n : p[k] \in 0..(n - 1)
  BY <1>4 DEF Orders
<1>6. /\ Len(result) = n
      /\ \A k \in 1..n : /\ IsHeader(result[k])
                         /\ result[k].file = headers[p[k]].file
                         /\ result[k].at = headers[p[k]].at
                         /\ result[k].used = headers[p[k]].used
  <2>1. CASE result = SortedHeaders(n)
    BY <1>3, <1>4, <1>5, <2>1
  <2>2. CASE result = Renumbered(SortedHeaders(n))
    <3>1. result = [k \in 1..n |-> [headers[p[k]] EXCEPT !.index = k - 1]]
      BY <1>4, <2>2 DEF Renumbered
    <3>2. Len(result) = n
      BY <3>1
    <3>3. ASSUME NEW k \in 1..n
          PROVE  /\ IsHeader(result[k])
                 /\ result[k].file = headers[p[k]].file
                 /\ result[k].at = headers[p[k]].at
                 /\ result[k].used = headers[p[k]].used
      <4>1. result[k] = [headers[p[k]] EXCEPT !.index = k - 1] /\ k - 1 \in Nat
        BY <3>1
      <4>2. IsHeader(headers[p[k]])
        BY <1>3, <1>5
      <4>3. result[k] = [index |-> k - 1, file |-> headers[p[k]].file,
                         at |-> headers[p[k]].at, used |-> headers[p[k]].used]
        BY <4>1, <4>2 DEF IsHeader
      <4> QED BY <4>1, <4>2, <4>3 DEF IsHeader
    <3> QED BY <3>2, <3>3
  <2> QED BY <2>1, <2>2
<1>7. DOMAIN headers' = 0..(n - 1) /\ IsMap(headers', DOMAIN headers')
  BY <1>1, <1>6 DEF IsMap
<1>8. \A s \in 0..(n - 1) : s + 1 \in 1..n /\ headers'[s] = result[s + 1]
  BY <1>1, <1>6
<1>9. \A s \in DOMAIN headers' : IsHeader(headers[s])'
  <2>1. \A s \in DOMAIN headers' : IsHeader(headers'[s])
    BY <1>6, <1>7, <1>8
  <2> QED BY <2>1 DEF IsHeader
<1>10. TypeInv'
  BY <1>1, <1>2, <1>7, <1>9 DEF OutputInv, TypeInv, IsSeq, IsMap
<1>11. SizedInv'
  <2> SUFFICES ASSUME job \in Seq(ElementCalls), NEW s \in 0..(n - 1)
               PROVE  headers'[s].used \in 0..ChunkSize
    BY <1>1, <1>7 DEF SizedInv
  <2>1. s + 1 \in 1..n /\ headers'[s].used = headers[p[s + 1]].used
    BY <1>6, <1>8
  <2>2. p[s + 1] \in DOMAIN headers
    BY <1>5, <2>1
  <2> QED BY <2>1, <2>2 DEF OutputInv, SizedInv
<1>12. \A i \in Tasks : pc[i] = "polls"
  BY <1>1 DEF OutputInv, PcInv, BatchOps, GenerateOps, PollOps, EmitOps
<1>13. PcInv' /\ RestInv'
  BY <1>1, <1>2, <1>12 DEF OutputInv, PcInv, RestInv, Running
<1>14. ArrayInv'
  <2>1. IsFiniteSet(0..(n - 1)) /\ Cardinality(0..(n - 1)) = n
    BY FS_Interval
  <2> QED BY <1>1, <1>7, <2>1 DEF ArrayInv, Running
<1>15. MatchInv'
  <2>1. \A k \in 1..n : /\ headers'[k - 1].file = headers[p[k]].file
                        /\ headers'[k - 1].at = headers[p[k]].at
    <3> SUFFICES ASSUME NEW k \in 1..n
                 PROVE  /\ headers'[k - 1].file = headers[p[k]].file
                        /\ headers'[k - 1].at = headers[p[k]].at
      OBVIOUS
    <3>1. k - 1 \in 0..(n - 1) /\ (k - 1) + 1 = k
      OBVIOUS
    <3>2. headers'[k - 1] = result[k]
      BY <1>8, <3>1
    <3> QED BY <1>6, <3>2
  <2> QED BY <1>1, <1>4, <1>7, <2>1, MatchOrdered DEF OutputInv
<1>16. BatchInv' /\ FillInv' /\ EmitInv' /\ RoomInv'
  BY <1>1, NotRunning DEF Running
<1>17. ShuffleInv' /\ ScatterInv' /\ GatherInv'
  BY <1>1, NotShuffling
<1> QED BY <1>2, <1>10, <1>11, <1>13, <1>14, <1>15, <1>16, <1>17 DEF OutputInv

\* What is left of the array of filter are the chunks.
LEMMA FilteredSize ==
    ASSUME NumChunks \in Nat
    PROVE  (ExpectedReads - 1) * NumSSDs + LastBatch = NumChunks
<1> DEFINE a == NumChunks
           b == NumSSDs
           r == a % b
           q == a \div b
<1>1. a \in Nat /\ b \in Nat \ {0}
  BY Sizes
<1>2. a = b * q + r /\ q \in Int /\ r \in 0..(b - 1)
  <2> HIDE DEF a, b
  <2> QED BY <1>1
<1>3. ExpectedReads = CeilDiv(a, b) /\ LastBatch = IF r = 0 THEN b ELSE r
  BY DEF ExpectedReads, LastBatch
<1> HIDE DEF a, b, q, r
<1>4. b * q = q * b /\ (q + 1) * b = q * b + b /\ (q - 1) * b = q * b - b /\ q * b \in Int
  BY <1>1, <1>2
<1>5. CASE r = 0
  <2>1. a <= q * b /\ q * b < a + b
    BY <1>1, <1>2, <1>4, <1>5
  <2>2. ExpectedReads = q
    BY <1>1, <1>2, <1>3, <2>1, CeilDivIs
  <2>3. (q - 1) * b + b = a
    BY <1>1, <1>2, <1>4, <1>5
  <2> QED BY <1>3, <1>5, <2>2, <2>3 DEF a, b
<1>6. CASE r # 0
  <2>1. a <= (q + 1) * b /\ (q + 1) * b < a + b
    BY <1>1, <1>2, <1>4, <1>6
  <2>2. ExpectedReads = q + 1
    BY <1>1, <1>2, <1>3, <2>1, CeilDivIs
  <2>3. ((q + 1) - 1) * b + r = a
    <3>1. (q + 1) - 1 = q
      BY <1>2
    <3> QED BY <1>2, <1>4, <3>1
  <2> QED BY <1>3, <1>6, <2>2, <2>3 DEF a, b
<1> QED BY <1>5, <1>6

\* The array of the others is cut down to the slots that were taken.
LEMMA ReturnActions ==
    ASSUME OutputInv,
           \/ ReturnIota \/ ReturnFlags \/ ReturnWrittenIota \/ ReturnPrimes
           \/ ReturnFiltered \/ ReturnMapped \/ ReturnTransformed
    PROVE  OutputInv'
<1>1. NumChunks \in Nat /\ counter \in Nat
  BY DEF OutputInv, TypeInv, IsSeq, NumChunks
<1>2. CASE ReturnIota \/ ReturnFlags \/ ReturnWrittenIota \/ ReturnPrimes \/ ReturnFiltered
  <2>1. Op \in BatchOps /\ ReturnSequence(SortedHeaders(NumChunks))
    BY <1>1, <1>2, FilteredSize
       DEF ReturnIota, ReturnFlags, ReturnWrittenIota, ReturnPrimes, ReturnFiltered,
           BatchOps, GenerateOps, PollOps
  <2>2. Running
    BY <2>1 DEF ReturnSequence, Running
  <2>3. DOMAIN headers = 0..(NumChunks - 1)
    BY <2>1, <2>2 DEF OutputInv, ArrayInv, Capacity
  <2>4. Used \subseteq 0..(NumChunks - 1)
    BY <2>3 DEF Used
  <2> QED BY <1>1, <2>1, <2>3, <2>4, ReturnStep
<1>3. CASE ReturnMapped \/ ReturnTransformed
  <2>1. Op \in EmitOps /\ ReturnSequence(Renumbered(SortedHeaders(counter)))
    BY <1>3 DEF ReturnMapped, ReturnTransformed, EmitOps
  <2>2. Running
    BY <2>1 DEF ReturnSequence, Running
  <2>3. counter <= Capacity /\ Capacity \in Nat
    <3>1. /\ MaxBlocks \in Nat \ {0} /\ Cardinality(unread) \in Nat
          /\ Cardinality(Pending) \in Nat /\ Capacity \in Nat
          /\ counter + Cardinality(Pending) + Cardinality(unread) * MaxBlocks <= Capacity
      BY <2>1, <2>2, RoomTypes
    <3>2. Cardinality(unread) * MaxBlocks \in Nat
      <4>1. \A a, b \in Nat : a * b \in Nat
        OBVIOUS
      <4> QED BY <3>1, <4>1
    <3> QED BY <1>1, <3>1, <3>2
  <2>4. DOMAIN headers = 0..(Capacity - 1)
    BY <2>2 DEF OutputInv, ArrayInv
  <2>5. Used \subseteq 0..(counter - 1)
    <3>1. \A s \in Used : s < counter /\ s \in 0..(Capacity - 1)
      BY <2>1, <2>2, <2>4 DEF OutputInv, EmitInv, Used
    <3> QED BY <1>1, <2>3, <3>1
  <2>6. 0..(counter - 1) \subseteq DOMAIN headers
    BY <1>1, <2>3, <2>4
  <2> QED BY <1>1, <2>1, <2>5, <2>6, ReturnStep
<1> QED BY <1>2, <1>3

\* A number is returned, or what was reduced.
LEMMA ReturnValueStep ==
    ASSUME OutputInv, ReturnPosition \/ ReturnReduced
    PROVE  OutputInv'
<1>1. /\ phase = "parallel" /\ phase' = "returned" /\ Op \in {"find_if", "reduce"}
      /\ \A i \in Tasks : pc[i] \in {"polls", "done"}
      /\ UNCHANGED <<job, source, unread, batch, pc, chunk, blocks, slot_for, base, buffer,
                     counter, file_offsets, headers, pushed>>
  <2>1. CASE ReturnPosition
    BY <2>1 DEF ReturnPosition, arguments, task, output, OutputInv, PcInv
  <2>2. CASE ReturnReduced
    BY <2>2 DEF ReturnReduced, arguments, task, output
  <2> QED BY <2>1, <2>2
<1>2. /\ Op' = Op /\ NumChunks' = NumChunks /\ Chunks' = Chunks /\ JobInv'
  BY <1>1, SameCall DEF OutputInv
<1>3. TypeInv'
  BY <1>1, <1>2 DEF OutputInv, TypeInv, IsSeq, IsMap, IsHeader
<1>4. SizedInv' /\ ArrayInv'
  BY <1>1, <1>2 DEF OutputInv, SizedInv, ArrayInv, Running
<1>5. PcInv' /\ RestInv'
  BY <1>1, <1>2 DEF OutputInv, PcInv, RestInv, Running, BatchOps, GenerateOps, PollOps, EmitOps
<1>6. MatchInv'
  BY <1>1, SameOutput DEF OutputInv
<1>7. BatchInv' /\ FillInv' /\ EmitInv' /\ RoomInv'
  BY <1>1, NotRunning DEF Running
<1>8. ShuffleInv' /\ ScatterInv' /\ GatherInv'
  BY <1>1, NotShuffling
<1> QED BY <1>2, <1>3, <1>4, <1>5, <1>6, <1>7, <1>8 DEF OutputInv

\* A worker of reduce takes a chunk.
LEMMA ReduceStep ==
    ASSUME OutputInv, NEW i \in Tasks, ReduceChunk(i)
    PROVE  OutputInv'
<1>1. /\ phase = "parallel" /\ Op = "reduce" /\ unread' \subseteq unread
      /\ UNCHANGED <<job, source, phase, batch, pc, chunk, blocks, slot_for, base, buffer,
                     counter, file_offsets, headers, pushed>>
  BY DEF ReduceChunk, arguments, task, output
<1>2. /\ Op' = Op /\ NumChunks' = NumChunks /\ Chunks' = Chunks /\ Capacity' = Capacity
      /\ JobInv' /\ ExpectedReads' = ExpectedReads
  BY <1>1, SameCall DEF OutputInv
<1>3. TypeInv'
  BY <1>1, <1>2 DEF OutputInv, TypeInv, IsSeq, IsMap, IsHeader
<1>4. SizedInv' /\ ArrayInv'
  BY <1>1, <1>2 DEF OutputInv, SizedInv, ArrayInv, Running
<1>5. PcInv' /\ RestInv'
  <2>1. InBatch' = InBatch
    BY <1>1, <1>2 DEF InBatch
  <2> QED BY <1>1, <1>2, <2>1 DEF OutputInv, PcInv, RestInv, Running
<1>6. MatchInv'
  BY <1>1, SameOutput DEF OutputInv
<1>7. BatchInv' /\ FillInv' /\ EmitInv' /\ RoomInv'
  BY <1>1, <1>2, NotBatch, NotEmit DEF BatchOps, GenerateOps, PollOps, EmitOps
<1>8. ShuffleInv' /\ ScatterInv' /\ GatherInv'
  BY <1>1, NotShuffling
<1> QED BY <1>2, <1>3, <1>4, <1>5, <1>6, <1>7, <1>8 DEF OutputInv

\* The next call has what was returned, in chunks of up to a block if it was elements.
LEMMA NextCallStep ==
    ASSUME OutputInv, NextCall
    PROVE  OutputInv'
<1> DEFINE n == Cardinality(DOMAIN headers)
<1>1. /\ phase' = "begins" /\ Len(job) > 1 /\ job' = Tail(job)
      /\ source' = [k \in 1..n |-> [index |-> headers[k - 1].index,
                                    used |-> headers[k - 1].used,
                                    block |-> BlockAt(headers[k - 1])]]
      /\ unread' = {} /\ batch' = 0 /\ counter' = 0 /\ pushed' = {}
      /\ pc' = PerTask("polls") /\ chunk' = PerTask(0)
      /\ blocks' = PerTask(<<>>) /\ slot_for' = PerTask(-1)
      /\ base' = PerTask(NoHeader) /\ buffer' = PerTask(<<>>)
      /\ file_offsets' = [f \in Files |-> 0] /\ headers' = <<>>
  BY DEF NextCall
<1>2. n \in Nat /\ DOMAIN headers = 0..(n - 1)
  BY FS_CardinalityType DEF OutputInv, ArrayInv
<1> HIDE DEF n
<1>3. IsSeq(source') /\ NumChunks' = n /\ Chunks' = 1..n
  <2>1. source' = [k \in 1..n |-> source'[k]]
    BY <1>1
  <2>2. IsSeq(source') /\ Len(source') = n
    BY <1>2, <2>1, IsSeqOf
  <2> QED BY <2>2 DEF NumChunks, Chunks
<1>4. \A ch \in 1..n : /\ ch - 1 \in DOMAIN headers
                       /\ source'[ch].index = headers[ch - 1].index
                       /\ source'[ch].used = headers[ch - 1].used
  BY <1>1, <1>2
<1>5. DOMAIN headers' = {} /\ IsMap(headers', DOMAIN headers')
  <2>1. <<>> \in Seq({}) /\ Len(<<>>) = 0
    BY EmptySeq
  <2>2. IsSeq(<<>>) /\ DOMAIN <<>> = 1..Len(<<>>)
    BY <2>1, IsSeqSeq
  <2> QED BY <1>1, <2>1, <2>2 DEF IsSeq
<1>6. \A i \in Tasks : /\ pc'[i] = "polls" /\ chunk'[i] = 0 /\ blocks'[i] = <<>>
                       /\ slot_for'[i] = -1
  BY <1>1 DEF PerTask
<1>7. Used' = {} /\ OutputBlocks' = {}
  BY <1>1, <1>5 DEF Used, OutputBlocks
<1>8. TypeInv'
  <2>1. \A ch \in Chunks' : source'[ch].index \in Nat
    BY <1>3, <1>4 DEF OutputInv, TypeInv, IsHeader
  <2>2. /\ pc' \in [Tasks -> {"polls", "filter", "sieve", "find_if", "emits", "slot", "place",
                              "pushes", "scatters", "flushes", "done"}]
        /\ slot_for' \in [Tasks -> Nat \cup {-1}]
    BY <1>1 DEF PerTask
  <2>3. chunk' \in [Tasks -> 0..NumChunks']
    BY <1>1, <1>2, <1>3 DEF PerTask
  <2>4. IsMap(blocks', Tasks) /\ IsMap(base', Tasks) /\ IsMap(buffer', Tasks)
    BY <1>1 DEF PerTask, IsMap
  <2>5. IsFiniteSet(pushed')
    BY <1>1, FS_EmptySet
  <2>6. file_offsets' \in [Files -> Nat]
    BY <1>1
  <2> QED BY <1>1, <1>3, <1>5, <2>1, <2>2, <2>3, <2>4, <2>5, <2>6 DEF TypeInv, IsSeq, IsMap
<1>9. JobInv'
  <2>1. CASE job \in Seq(ElementCalls)
    <3>1. Tail(job) \in Seq(ElementCalls) /\ Tail(job) # <<>>
      BY <1>1, <2>1, HeadTailProperties, EmptySeq
    <3>2. \A ch \in 1..n : source'[ch].used \in 0..ChunkSize
      BY <1>4, <2>1 DEF OutputInv, SizedInv
    <3> QED BY <1>1, <1>3, <3>1, <3>2 DEF JobInv
  <2>2. CASE job \in {<<"bool", "sieve">>, <<"write_iota", "find_if">>}
    <3>0. Tail(<<"bool", "sieve">>) = <<"sieve">>
          /\ Tail(<<"write_iota", "find_if">>) = <<"find_if">>
      OBVIOUS
    <3>1. job' \in {<<"find_if">>, <<"sieve">>}
      BY <1>1, <2>2, <3>0
    <3> QED BY <3>1 DEF JobInv
  <2>3. CASE job \in {<<"find_if">>, <<"sieve">>, <<"iota">>}
    BY <1>1, <2>3
  <2> QED BY <2>1, <2>2, <2>3 DEF OutputInv, JobInv
<1>10. SizedInv'
  BY <1>5 DEF SizedInv
<1>11. PcInv' /\ RestInv'
  BY <1>1, <1>6 DEF PcInv, RestInv, Running
<1>12. ArrayInv'
  BY <1>1, <1>5, FS_EmptySet DEF ArrayInv, Running
<1>13. MatchInv'
  BY <1>7 DEF MatchInv
<1>14. BatchInv' /\ FillInv' /\ EmitInv' /\ RoomInv'
  BY <1>1, NotRunning DEF Running
<1>15. ShuffleInv' /\ ScatterInv' /\ GatherInv'
  BY <1>1, NotShuffling
<1> QED BY <1>8, <1>9, <1>10, <1>11, <1>12, <1>13, <1>14, <1>15 DEF OutputInv

-----------------------------------------------------------------------------
(* Shuffle                                                                 *)

\* What the workers do to the buckets leaves the output empty.
LEMMA ScatterFrame ==
    ASSUME OutputInv, phase = "scatters", NEW i \in Tasks,
           NEW next \in {"polls", "scatters", "flushes", "done"},
           pc' = [pc EXCEPT ![i] = next],
           unread' \subseteq unread,
           UNCHANGED <<job, source, phase, batch, chunk, blocks, slot_for, base, counter,
                       headers>>,
           IsMap(buffer', Tasks), \A k \in Tasks : pc'[k] = "scatters" => IsSeq(buffer'[k]),
           IsFiniteSet(pushed'), OutputBlocks' = {}, file_offsets' \in [Files -> Nat],
           ShuffleInv'
    PROVE  OutputInv'
<1>1. /\ Op' = Op /\ NumChunks' = NumChunks /\ Chunks' = Chunks /\ JobInv'
  BY SameCall DEF OutputInv
<1>2. /\ pc'[i] = next /\ \A k \in Tasks : k # i => pc'[k] = pc[k]
      /\ pc' \in [Tasks -> {"polls", "filter", "sieve", "find_if", "emits", "slot", "place",
                            "pushes", "scatters", "flushes", "done"}]
  BY DEF OutputInv, TypeInv
<1>3. Op = "shuffle"
  BY DEF OutputInv, PcInv
<1>4. \A k \in Tasks : slot_for[k] = -1 /\ chunk[k] = 0 /\ blocks[k] = <<>>
  BY <1>3 DEF OutputInv, PcInv, RestInv, BatchOps, GenerateOps, PollOps, EmitOps
<1>5. TypeInv'
  BY <1>1, <1>2 DEF OutputInv, TypeInv, IsSeq, IsMap, IsHeader
<1>6. SizedInv' /\ ArrayInv'
  BY <1>1 DEF OutputInv, SizedInv, ArrayInv, Running
<1>7. PcInv'
  BY <1>1, <1>2, <1>3 DEF OutputInv, PcInv, Running
<1>8. RestInv'
  BY <1>4 DEF RestInv
<1>9. MatchInv'
  <2>1. Used' = {}
    BY DEF OutputInv, ArrayInv, Used
  <2> QED BY <2>1 DEF MatchInv
<1>10. BatchInv' /\ FillInv' /\ EmitInv' /\ RoomInv'
  BY NotRunning DEF Running
<1>11. ScatterInv' /\ GatherInv'
  BY DEF ScatterInv, GatherInv
<1> QED BY <1>1, <1>5, <1>6, <1>7, <1>8, <1>9, <1>10, <1>11 DEF OutputInv

\* A worker takes a chunk, or is at the end of its input.
LEMMA ScatterPollStep ==
    ASSUME OutputInv, NEW i \in Tasks, ScatterPoll(i)
    PROVE  OutputInv'
<1>1. /\ phase = "scatters" /\ Op = "shuffle"
      /\ UNCHANGED <<job, source, phase, batch, chunk, blocks, slot_for, base, counter,
                     headers, pushed, file_offsets, buf, produced>>
  BY DEF ScatterPoll, arguments, output, shuffling, OutputInv, PcInv
<1>2. ShuffleInv'
  BY <1>1, SameBuckets DEF OutputInv
<1>3. /\ IsFiniteSet(pushed') /\ OutputBlocks' = {} /\ file_offsets' \in [Files -> Nat]
  BY <1>1 DEF OutputInv, TypeInv, ScatterInv, OutputBlocks
<1>4. CASE unread = {}
  <2>1. pc' = [pc EXCEPT ![i] = "flushes"] /\ UNCHANGED <<unread, buffer>>
    BY <1>4 DEF ScatterPoll, Goto
  <2>2. \A k \in Tasks : pc'[k] = "scatters" => IsSeq(buffer'[k])
    BY <1>1, <2>1 DEF OutputInv, TypeInv, ScatterInv
  <2>3. IsMap(buffer', Tasks)
    BY <2>1 DEF OutputInv, TypeInv, IsMap
  <2> QED BY <1>1, <1>2, <1>3, <2>1, <2>2, <2>3, ScatterFrame
<1>5. CASE unread # {}
  <2>1. PICK ch \in unread : /\ unread' = unread \ {ch}
                             /\ buffer' = [buffer EXCEPT ![i] = ElementsOf(ch)]
    BY <1>5 DEF ScatterPoll
  <2>2. pc' = [pc EXCEPT ![i] = "scatters"]
    BY <1>5 DEF ScatterPoll, Goto
  <2>3. IsSeq(ElementsOf(ch))
    <3>1. source[ch].used \in 0..ChunkSize
      BY <1>1, CallOfJob DEF OutputInv, TypeInv, Op, ElementCalls
    <3>2. source[ch].used \in Int
      BY <3>1, Sizes
    <3> QED BY <3>2, IsSeqSubSeq DEF ElementsOf
  <2>4. /\ buffer'[i] = ElementsOf(ch) /\ IsMap(buffer', Tasks)
        /\ \A k \in Tasks : k # i => buffer'[k] = buffer[k]
    BY <2>1 DEF OutputInv, TypeInv, IsMap
  <2>5. \A k \in Tasks : pc'[k] = "scatters" => IsSeq(buffer'[k])
    BY <1>1, <2>2, <2>3, <2>4 DEF OutputInv, TypeInv, ScatterInv
  <2> QED BY <1>1, <1>2, <1>3, <2>1, <2>2, <2>4, <2>5, ScatterFrame
<1> QED BY <1>4, <1>5

\* The buffer of a bucket goes to a file that is none of the output's, or grows.
LEMMA BufferStep ==
    ASSUME OutputInv, phase = "scatters", NEW i \in Tasks, NEW b \in Buckets,
           NEW content, IsSeq(content), NEW rest, IsSeq(rest),
           UNCHANGED <<job, source, phase>>,
           \/ Flush(i, b, content)
           \/ /\ buf' = [buf EXCEPT ![i][b] = rest]
              /\ UNCHANGED <<produced, pushed, file_offsets>>
    PROVE  /\ ShuffleInv' /\ IsFiniteSet(pushed') /\ OutputBlocks' = {}
           /\ file_offsets' \in [Files -> Nat]
<1>1. /\ \E n \in {ShuffleBucketCount(Length)} : n \in Nat \ {0} /\ Buckets = 0..(n - 1)
      /\ IsMap(buf, Tasks) /\ IsMap(produced, Tasks)
      /\ \A k \in Tasks : IsMap(buf[k], Buckets) /\ IsMap(produced[k], Buckets)
      /\ \A k \in Tasks, c \in Buckets :
           /\ IsSeq(buf[k][c])
           /\ IsSeq(produced[k][c])
           /\ \A j \in 1..Len(produced[k][c]) : produced[k][c][j].used \in Nat
  BY DEF OutputInv, ShuffleInv
<1>2. /\ IsFiniteSet(pushed) /\ OutputBlocks = {} /\ file_offsets \in [Files -> Nat]
  BY DEF OutputInv, TypeInv, ScatterInv
<1>3. ShuffleBucketCount(Length)' = ShuffleBucketCount(Length)
  BY SameCall DEF ShuffleBucketCount
<1>4. IsSeq(<<>>)
  BY EmptySeq, IsSeqSeq
<1>5. ASSUME NEW new, IsSeq(new), buf' = [buf EXCEPT ![i][b] = new]
      PROVE  /\ Buckets' = Buckets /\ IsMap(buf', Tasks)
             /\ \A k \in Tasks : IsMap(buf'[k], Buckets)
             /\ \A k \in Tasks, c \in Buckets : IsSeq(buf'[k][c])
  <2>1. buf' = [buf EXCEPT ![i] = [buf[i] EXCEPT ![b] = new]]
    BY <1>5
  <2>2. IsMap(buf', Tasks) /\ buf'[i] = [buf[i] EXCEPT ![b] = new]
        /\ \A k \in Tasks : k # i => buf'[k] = buf[k]
    BY <1>1, <2>1 DEF IsMap
  <2>3. IsMap(buf'[i], Buckets) /\ buf'[i][b] = new
        /\ \A c \in Buckets : c # b => buf'[i][c] = buf[i][c]
    BY <1>1, <2>2 DEF IsMap
  <2>4. Buckets' = Buckets
    <3>1. DOMAIN buf'[0] = DOMAIN buf[0]
      BY <1>1, <2>2, <2>3, Sizes DEF IsMap
    <3> QED BY <3>1 DEF Buckets
  <2> QED BY <1>1, <1>5, <2>2, <2>3, <2>4
<1>6. ASSUME Buckets' = Buckets, IsMap(buf', Tasks), IsMap(produced', Tasks),
             \A k \in Tasks : IsMap(buf'[k], Buckets) /\ IsMap(produced'[k], Buckets),
             \A k \in Tasks, c \in Buckets :
               /\ IsSeq(buf'[k][c])
               /\ IsSeq(produced'[k][c])
               /\ \A j \in 1..Len(produced'[k][c]) : produced'[k][c][j].used \in Nat
      PROVE  ShuffleInv'
  <2>1. \E n \in {ShuffleBucketCount(Length)'} : n \in Nat \ {0} /\ Buckets' = 0..(n - 1)
    BY <1>1, <1>3, <1>6
  <2>2. IsMap(buf, Tasks)' /\ IsMap(produced, Tasks)'
    BY <1>6 DEF IsMap
  <2>3. \A k \in Tasks : IsMap(buf[k], Buckets)' /\ IsMap(produced[k], Buckets)'
    BY <1>6 DEF IsMap
  <2>4. \A k \in Tasks, c \in Buckets' : IsSeq(buf[k][c])'
    BY <1>6 DEF IsSeq, IsMap
  <2>5. \A k \in Tasks, c \in Buckets' : IsSeq(produced[k][c])'
    BY <1>6 DEF IsSeq, IsMap
  <2> QED BY <1>6, <2>1, <2>2, <2>3, <2>4, <2>5 DEF ShuffleInv
<1>7. CASE Flush(i, b, content)
  <2>1. PICK f \in Files :
          LET h == [index |-> b, file |-> TmpFile(f), at |-> file_offsets[f],
                    used |-> Len(content)]
          IN  /\ produced' = [produced EXCEPT ![i][b] = Append(@, h)]
              /\ pushed' = pushed \cup {Block(h, Padded(content, ChunkSize))}
              /\ Advance(f)
    BY <1>7 DEF Flush
  <2> DEFINE h == [index |-> b, file |-> TmpFile(f), at |-> file_offsets[f],
                   used |-> Len(content)]
             blk == Block(h, Padded(content, ChunkSize))
  <2>2. /\ produced' = [produced EXCEPT ![i][b] = Append(@, h)]
        /\ pushed' = pushed \cup {blk} /\ Advance(f)
        /\ buf' = [buf EXCEPT ![i][b] = <<>>]
    BY <1>7, <2>1 DEF Flush
  <2>3. h.used \in Nat /\ blk.file \notin Files
    <3>1. TmpFile(f) \notin Files
      BY Sizes DEF TmpFile, Files
    <3> QED BY <3>1 DEF Block, IsSeq
  <2> HIDE DEF h, blk
  <2>4. OutputBlocks' = {} /\ IsFiniteSet(pushed')
    <3>1. OutputBlocks' = {}
      BY <1>2, <2>2, <2>3 DEF OutputBlocks
    <3> QED BY <1>2, <2>2, <3>1, FS_AddElement
  <2>5. file_offsets' \in [Files -> Nat]
    BY <1>2, <2>2 DEF Advance
  <2>6. /\ Buckets' = Buckets /\ IsMap(buf', Tasks)
        /\ \A k \in Tasks : IsMap(buf'[k], Buckets)
        /\ \A k \in Tasks, c \in Buckets : IsSeq(buf'[k][c])
    BY <1>4, <1>5, <2>2
  <2> DEFINE more == Append(produced[i][b], h)
  <2>7. /\ IsSeq(more) /\ \A j \in 1..Len(more) : more[j].used \in Nat
    <3>1. IsSeq(produced[i][b]) /\ \A j \in 1..Len(produced[i][b]) : produced[i][b][j].used \in Nat
      BY <1>1
    <3>2. /\ IsSeq(more) /\ Len(more) = Len(produced[i][b]) + 1
          /\ \A j \in 1..Len(produced[i][b]) : more[j] = produced[i][b][j]
          /\ more[Len(produced[i][b]) + 1] = h
      BY <3>1, IsSeqAppend
    <3>3. Len(produced[i][b]) \in Nat
      BY <3>1 DEF IsSeq
    <3> HIDE DEF more
    <3>4. \A j \in 1..Len(more) : j \in 1..Len(produced[i][b]) \/ j = Len(produced[i][b]) + 1
      BY <3>2, <3>3
    <3> QED BY <2>3, <3>1, <3>2, <3>4
  <2>8. produced' = [produced EXCEPT ![i] = [produced[i] EXCEPT ![b] = more]]
    BY <2>2
  <2> HIDE DEF more
  <2>9. IsMap(produced', Tasks) /\ produced'[i] = [produced[i] EXCEPT ![b] = more]
        /\ \A k \in Tasks : k # i => produced'[k] = produced[k]
    BY <1>1, <2>8 DEF IsMap
  <2>10. IsMap(produced'[i], Buckets) /\ produced'[i][b] = more
         /\ \A c \in Buckets : c # b => produced'[i][c] = produced[i][c]
    BY <1>1, <2>9 DEF IsMap
  <2>11. \A k \in Tasks : IsMap(produced'[k], Buckets)
    BY <1>1, <2>9, <2>10
  <2>12. \A k \in Tasks, c \in Buckets :
           /\ IsSeq(produced'[k][c])
           /\ \A j \in 1..Len(produced'[k][c]) : produced'[k][c][j].used \in Nat
    <3> SUFFICES ASSUME NEW k \in Tasks, NEW c \in Buckets
                 PROVE  /\ IsSeq(produced'[k][c])
                        /\ \A j \in 1..Len(produced'[k][c]) : produced'[k][c][j].used \in Nat
      OBVIOUS
    <3>1. produced'[k][c] = more \/ produced'[k][c] = produced[k][c]
      BY <2>9, <2>10
    <3>2. CASE produced'[k][c] = more
      BY <2>7, <3>2
    <3>3. CASE produced'[k][c] = produced[k][c]
      BY <1>1, <3>3
    <3> QED BY <3>1, <3>2, <3>3
  <2>13. ShuffleInv'
    BY <1>6, <2>6, <2>9, <2>11, <2>12
  <2> QED BY <2>4, <2>5, <2>13
<1>8. CASE /\ buf' = [buf EXCEPT ![i][b] = rest]
           /\ UNCHANGED <<produced, pushed, file_offsets>>
  <2>1. /\ Buckets' = Buckets /\ IsMap(buf', Tasks)
        /\ \A k \in Tasks : IsMap(buf'[k], Buckets)
        /\ \A k \in Tasks, c \in Buckets : IsSeq(buf'[k][c])
    BY <1>5, <1>8
  <2>2. ShuffleInv'
    BY <1>1, <1>8, <1>6, <2>1
  <2> QED BY <1>2, <1>8, <2>2 DEF OutputBlocks
<1> QED BY <1>7, <1>8

\* An element goes to a bucket, which is flushed when full.
LEMMA ScatterStep ==
    ASSUME OutputInv, NEW i \in Tasks, Scatter(i)
    PROVE  OutputInv'
<1>1. /\ phase = "scatters" /\ pc[i] = "scatters"
      /\ UNCHANGED <<job, source, phase, unread, batch, chunk, blocks, slot_for, base, counter,
                     headers>>
  BY DEF Scatter, arguments, OutputInv, PcInv
<1>2. /\ IsSeq(buffer[i]) /\ \A k \in Tasks : pc[k] = "scatters" => IsSeq(buffer[k])
      /\ IsMap(buffer, Tasks) /\ pc = [k \in Tasks |-> pc[k]]
  BY <1>1 DEF OutputInv, TypeInv, ScatterInv
<1>3. CASE buffer[i] = <<>>
  <2>1. /\ pc' = [pc EXCEPT ![i] = "polls"]
        /\ UNCHANGED <<buffer, buf, produced, pushed, file_offsets>>
    BY <1>3 DEF Scatter, Goto
  <2>2. ShuffleInv'
    BY <1>1, <2>1, SameBuckets DEF OutputInv
  <2>3. /\ IsFiniteSet(pushed') /\ OutputBlocks' = {} /\ file_offsets' \in [Files -> Nat]
    BY <1>1, <2>1 DEF OutputInv, TypeInv, ScatterInv, OutputBlocks
  <2>4. \A k \in Tasks : pc'[k] = "scatters" => IsSeq(buffer'[k])
    BY <1>2, <2>1
  <2>5. IsMap(buffer', Tasks)
    BY <1>2, <2>1
  <2> QED BY <1>1, <2>1, <2>2, <2>3, <2>4, <2>5, ScatterFrame
<1>4. CASE buffer[i] # <<>>
  <2>1. /\ buffer' = [buffer EXCEPT ![i] = Tail(@)] /\ pc' = pc
        /\ \E b \in Buckets :
             LET filled == Append(buf[i][b], Head(buffer[i]))
             IN  IF Len(filled) = ChunkSize
                 THEN Flush(i, b, filled)
                 ELSE /\ buf' = [buf EXCEPT ![i][b] = filled]
                      /\ UNCHANGED <<produced, pushed, file_offsets>>
    BY <1>4 DEF Scatter
  <2>2. PICK b \in Buckets :
          \/ Flush(i, b, Append(buf[i][b], Head(buffer[i])))
          \/ /\ buf' = [buf EXCEPT ![i][b] = Append(buf[i][b], Head(buffer[i]))]
             /\ UNCHANGED <<produced, pushed, file_offsets>>
    BY <2>1
  <2> DEFINE filled == Append(buf[i][b], Head(buffer[i]))
  <2>3. IsSeq(filled)
    <3>1. IsSeq(buf[i][b])
      BY <1>1 DEF OutputInv, ShuffleInv
    <3> QED BY <3>1, IsSeqAppend
  <2>4. \/ Flush(i, b, filled)
        \/ /\ buf' = [buf EXCEPT ![i][b] = filled]
           /\ UNCHANGED <<produced, pushed, file_offsets>>
    BY <2>2
  <2> HIDE DEF filled
  <2>5. /\ ShuffleInv' /\ IsFiniteSet(pushed') /\ OutputBlocks' = {}
        /\ file_offsets' \in [Files -> Nat]
    BY <1>1, <2>3, <2>4, BufferStep
  <2>6. /\ buffer'[i] = Tail(buffer[i]) /\ IsMap(buffer', Tasks)
        /\ \A k \in Tasks : k # i => buffer'[k] = buffer[k]
    BY <1>2, <2>1 DEF IsMap
  <2>7. IsSeq(buffer'[i])
    BY <1>2, <1>4, <2>6, IsSeqTail
  <2>8. \A k \in Tasks : pc'[k] = "scatters" => IsSeq(buffer'[k])
    BY <1>2, <2>1, <2>6, <2>7
  <2>9. pc' = [pc EXCEPT ![i] = "scatters"]
    BY <1>1, <1>2, <2>1
  <2> QED BY <1>1, <2>5, <2>6, <2>8, <2>9, ScatterFrame
<1> QED BY <1>3, <1>4

\* In the end all buckets are flushed.
LEMMA FlushRestStep ==
    ASSUME OutputInv, NEW i \in Tasks, FlushRest(i)
    PROVE  OutputInv'
<1>1. /\ phase = "scatters" /\ pc[i] = "flushes"
      /\ UNCHANGED <<job, source, phase, unread, batch, chunk, blocks, slot_for, base, buffer,
                     counter, headers>>
  BY DEF FlushRest, arguments, OutputInv, PcInv
<1>2. /\ \A k \in Tasks : pc[k] = "scatters" => IsSeq(buffer[k])
      /\ IsMap(buffer', Tasks) /\ pc = [k \in Tasks |-> pc[k]]
  BY <1>1 DEF OutputInv, TypeInv, ScatterInv
<1> DEFINE rest == {b \in Buckets : buf[i][b] # <<>>}
<1>3. CASE rest = {}
  <2>1. /\ pc' = [pc EXCEPT ![i] = "done"]
        /\ UNCHANGED <<buf, produced, pushed, file_offsets>>
    BY <1>3 DEF FlushRest, Goto
  <2>2. ShuffleInv'
    BY <1>1, <2>1, SameBuckets DEF OutputInv
  <2>3. /\ IsFiniteSet(pushed') /\ OutputBlocks' = {} /\ file_offsets' \in [Files -> Nat]
    BY <1>1, <2>1 DEF OutputInv, TypeInv, ScatterInv, OutputBlocks
  <2>4. \A k \in Tasks : pc'[k] = "scatters" => IsSeq(buffer'[k])
    BY <1>1, <1>2, <2>1
  <2> QED BY <1>1, <1>2, <2>1, <2>2, <2>3, <2>4, ScatterFrame
<1>4. CASE rest # {}
  <2> DEFINE b == MinOf(rest)
  <2>1. Flush(i, b, buf[i][b]) /\ pc' = pc
    BY <1>4 DEF FlushRest
  <2>2. b \in Buckets
    <3>1. \E n \in Nat \ {0} : Buckets = 0..(n - 1)
      BY <1>1, SomeBuckets DEF OutputInv
    <3>2. rest \subseteq Nat
      BY <3>1
    <3>3. \E n \in rest : \A m \in rest : n <= m
      <4> HIDE DEF rest
      <4> QED BY <1>4, <3>2, LeastNat
    <3>4. b \in rest
      BY <3>3 DEF MinOf
    <3> QED BY <3>4
  <2> HIDE DEF b, rest
  <2>3. IsSeq(buf[i][b])
    BY <1>1, <2>2 DEF OutputInv, ShuffleInv
  <2>4. /\ ShuffleInv' /\ IsFiniteSet(pushed') /\ OutputBlocks' = {}
        /\ file_offsets' \in [Files -> Nat]
    BY <1>1, <2>1, <2>2, <2>3, BufferStep
  <2>5. pc' = [pc EXCEPT ![i] = "flushes"]
    BY <1>1, <1>2, <2>1
  <2>6. \A k \in Tasks : pc'[k] = "scatters" => IsSeq(buffer'[k])
    BY <1>1, <1>2, <2>1
  <2> QED BY <1>1, <1>2, <2>4, <2>5, <2>6, ScatterFrame
<1> QED BY <1>3, <1>4

\* The buckets get ranges of the array, one behind the other.
LEMMA JoinScatterStep ==
    ASSUME OutputInv, JoinScatter
    PROVE  OutputInv'
<1> DEFINE nb == [b \in Buckets |-> Total([k \in DOMAIN BlocksOf(b) |-> BlocksOf(b)[k].used])]
           ocount == [b \in Buckets |-> CeilDiv(nb[b], ChunkSize)]
           start == [b \in Buckets |-> Total([k \in 1..b |-> ocount[k - 1]])]
           all == Total([k \in 1..Cardinality(Buckets) |-> ocount[k - 1]])
<1>1. /\ phase = "scatters" /\ phase' = "gathers" /\ \A i \in Tasks : pc[i] = "done"
      /\ headers' = [s \in 0..(all - 1) |-> NoHeader]
      /\ data' = [b \in Buckets |-> [slot |-> start[b], blocks |-> ocount[b], seq |-> <<>>]]
      /\ file_offsets' = [f \in Files |-> 0]
      /\ UNCHANGED <<job, source, unread, batch, pc, chunk, blocks, slot_for, base, buffer,
                     counter, pushed, buf, produced>>
  BY DEF JoinScatter, arguments, task
<1>2. /\ Op' = Op /\ NumChunks' = NumChunks /\ Chunks' = Chunks /\ Length' = Length /\ JobInv'
  BY <1>1, SameCall DEF OutputInv
<1>3. PICK n \in Nat \ {0} : Buckets = 0..(n - 1)
  BY <1>1, SomeBuckets DEF OutputInv
<1>4. Cardinality(Buckets) = n
  BY <1>3, FS_Interval
<1>5. \A b \in Buckets : nb[b] = SizeOf(b) /\ nb[b] \in Nat
  BY <1>1, BucketBlocks DEF OutputInv, SizeOf
<1>6. \A b \in Buckets : ocount[b] = CeilDiv(SizeOf(b), ChunkSize) /\ ocount[b] \in Nat
  <2> HIDE DEF nb
  <2> QED BY <1>5, Sizes, CeilDivValue
<1> DEFINE c == [k \in 1..n |-> ocount[k - 1]]
<1>7. \A k \in 1..n : c[k] = ocount[k - 1] /\ k - 1 \in Buckets /\ c[k] \in Nat
  <2> HIDE DEF ocount
  <2> QED BY <1>3, <1>6
<1>8. PICK g : /\ g \in [0..n -> Nat] /\ g[0] = 0
               /\ \A k \in 1..n : g[k] = g[k - 1] + c[k]
               /\ \A k \in 0..n : \A d :
                    Len(d) = k /\ (\A j \in 1..k : d[j] = c[j]) => Total(d) = g[k]
               /\ \A j, k \in 0..n : j <= k => g[j] <= g[k]
  <2> HIDE DEF c, ocount
  <2>1. n \in Nat /\ \A k \in 1..n : c[k] \in Nat
    BY <1>7
  <2>2. PICK g : Grows(c, g, n)
    BY <2>1, TotalGrows
  <2> QED BY <2>2 DEF Grows
<1>9. \A b \in Buckets : start[b] = g[b]
  <2> SUFFICES ASSUME NEW b \in Buckets PROVE start[b] = g[b]
    OBVIOUS
  <2> DEFINE d == [k \in 1..b |-> ocount[k - 1]]
  <2>1. b \in 0..n /\ \A k \in 1..b : k \in 1..n
    BY <1>3
  <2>2. Len(d) = b /\ \A j \in 1..b : d[j] = c[j]
    <3> HIDE DEF ocount
    <3> QED BY <2>1
  <2>3. start[b] = Total(d)
    <3> HIDE DEF ocount
    <3> QED OBVIOUS
  <2> HIDE DEF d, start, c
  <2> QED BY <1>8, <2>1, <2>2, <2>3
<1>10. all = g[n] /\ g[n] \in Nat
  <2> DEFINE d == [k \in 1..Cardinality(Buckets) |-> ocount[k - 1]]
  <2>1. Len(d) = n /\ \A j \in 1..n : d[j] = c[j]
    <3> HIDE DEF ocount
    <3> QED BY <1>4
  <2>2. all = Total(d) /\ n \in 0..n
    <3> HIDE DEF ocount
    <3> QED OBVIOUS
  <2> HIDE DEF d, all, c
  <2> QED BY <1>8, <2>1, <2>2
<1>11. ASSUME NEW b \in Buckets
       PROVE  /\ b \in 0..n /\ b + 1 \in 0..n /\ g[b] \in Nat
              /\ g[b + 1] = g[b] + ocount[b] /\ g[b + 1] <= g[n]
  <2>1. b \in 0..n /\ b + 1 \in 1..n /\ b + 1 \in 0..n /\ n \in 0..n /\ (b + 1) - 1 = b
        /\ b + 1 <= n
    BY <1>3
  <2>2. g[b + 1] = g[(b + 1) - 1] + c[b + 1] /\ c[b + 1] = ocount[(b + 1) - 1]
    <3> HIDE DEF c, ocount
    <3> QED BY <1>7, <1>8, <2>1
  <2> HIDE DEF c, ocount
  <2> QED BY <1>8, <2>1, <2>2
<1> HIDE DEF all, start, ocount, nb, c
<1>12. DOMAIN headers' = 0..(g[n] - 1) /\ \A s \in DOMAIN headers' : headers'[s] = NoHeader
  BY <1>1, <1>10
<1>13. Used' = {} /\ OutputBlocks' = {}
  BY <1>1, <1>12 DEF Used, NoHeader, OutputBlocks, OutputInv, ScatterInv
<1>14. TypeInv'
  <2>1. IsHeader(NoHeader)
    BY DEF IsHeader, NoHeader
  <2>2. \A s \in DOMAIN headers' : IsHeader(headers[s])'
    BY <1>12, <2>1 DEF IsHeader
  <2>3. IsMap(headers', DOMAIN headers')
    BY <1>1, <1>12 DEF IsMap
  <2>4. file_offsets' \in [Files -> Nat]
    BY <1>1
  <2>5. UNCHANGED <<source, unread, batch, pc, chunk, blocks, slot_for, base, buffer,
                    counter, pushed>>
    BY <1>1
  <2> QED BY <1>1, <1>2, <2>2, <2>3, <2>4, <2>5 DEF OutputInv, TypeInv, IsSeq, IsMap
<1>15. SizedInv'
  BY <1>12, Sizes DEF SizedInv, NoHeader
<1>16. PcInv' /\ RestInv'
  BY <1>1, <1>2 DEF OutputInv, PcInv, RestInv, Running
<1>17. ArrayInv'
  <2>1. IsFiniteSet(0..(g[n] - 1)) /\ Cardinality(0..(g[n] - 1)) = g[n]
    <3> DEFINE m == g[n]
    <3>1. m \in Nat
      BY <1>10
    <3> HIDE DEF m
    <3>2. IsFiniteSet(0..(m - 1)) /\ Cardinality(0..(m - 1)) = m
      BY <3>1, FS_Interval
    <3> QED BY <3>2 DEF m
  <2> QED BY <1>1, <1>12, <2>1 DEF ArrayInv, Running
<1>18. MatchInv'
  BY <1>13 DEF MatchInv
<1>19. BatchInv' /\ FillInv' /\ EmitInv' /\ RoomInv'
  BY <1>1, NotRunning DEF Running
<1>20. Buckets' = Buckets /\ (\A b : SizeOf(b)' = SizeOf(b)) /\ ShuffleInv'
  BY <1>1, SameBuckets DEF OutputInv
<1>22. ScatterInv'
  BY <1>1 DEF ScatterInv
<1>23. GatherInv'
  <2>1. IsMap(data', Buckets)
    BY <1>1 DEF IsMap
  <2>2. ASSUME NEW b \in Buckets
        PROVE  /\ data'[b] = [slot |-> g[b], blocks |-> ocount[b], seq |-> <<>>]
               /\ data'[b].slot = g[b] /\ data'[b].blocks = ocount[b] /\ data'[b].seq = <<>>
    BY <1>1, <1>9
  <2>3. IsSeq(<<>>)
    BY EmptySeq, IsSeqSeq
  <2>4. ASSUME NEW b \in Buckets
        PROVE  /\ data'[b].slot \in Nat /\ data'[b].blocks \in Nat
               /\ \A s \in data'[b].slot..(data'[b].slot + data'[b].blocks - 1) :
                    s \in DOMAIN headers' /\ s \notin Used'
               /\ data'[b].blocks = CeilDiv(SizeOf(b), ChunkSize)
    <3>1. g[b] \in Nat /\ ocount[b] \in Nat /\ g[b] + ocount[b] <= g[n]
      BY <1>6, <1>11
    <3>2. \A s \in g[b]..(g[b] + ocount[b] - 1) : s \in 0..(g[n] - 1)
      BY <1>10, <3>1
    <3> QED BY <1>6, <1>12, <1>13, <2>2, <3>1, <3>2
  <2>5. ASSUME NEW b \in Buckets, NEW d \in Buckets, b < d
        PROVE  data'[b].slot + data'[b].blocks <= data'[d].slot
    <3>1. b + 1 <= d
      BY <1>3, <2>5
    <3>2. g[b + 1] = g[b] + ocount[b] /\ b + 1 \in 0..n /\ d \in 0..n
      BY <1>11
    <3>3. g[b + 1] <= g[d]
      BY <1>8, <3>1, <3>2
    <3> QED BY <2>2, <3>2, <3>3
  <2>6. /\ IsMap(data, Buckets)'
        /\ \A b \in Buckets' : IsSeq(data[b].seq)'
    BY <1>20, <2>1, <2>2, <2>3 DEF IsMap, IsSeq
  <2> QED BY <1>20, <2>2, <2>4, <2>5, <2>6 DEF GatherInv
<1> QED BY <1>2, <1>14, <1>15, <1>16, <1>17, <1>18, <1>19, <1>20, <1>22, <1>23 DEF OutputInv

\* The elements of a bucket are as many as were put in.
LEMMA GatherStep ==
    ASSUME OutputInv, phase = "gathers", NEW b \in Buckets, Gather(b)
    PROVE  OutputInv'
<1> DEFINE all == Concat([k \in DOMAIN BlocksOf(b) |-> ContentAt(BlocksOf(b)[k])])
<1>1. PICK seq \in Shuffles(all) : data' = [data EXCEPT ![b].seq = seq]
  BY DEF Gather
<1>2. /\ data[b].blocks > 0 /\ data[b].seq = <<>>
      /\ UNCHANGED <<job, source, phase, unread, batch, pc, chunk, blocks, slot_for, base,
                     buffer, counter, file_offsets, headers, pushed, buf, produced>>
  BY DEF Gather, arguments, task, output
<1>3. IsSeq(all) /\ Len(all) = SizeOf(b) /\ SizeOf(b) \in Nat
  BY BucketBlocks DEF OutputInv
<1> HIDE DEF all
<1>4. IsSeq(seq) /\ Len(seq) = SizeOf(b)
  <2>1. DOMAIN all = 1..SizeOf(b)
    BY <1>3, EmptyIs
  <2>2. seq = [k \in 1..SizeOf(b) |-> seq[k]]
    BY <2>1 DEF Shuffles
  <2> QED BY <1>3, <2>2, IsSeqOf
<1>5. /\ Op' = Op /\ NumChunks' = NumChunks /\ Chunks' = Chunks /\ Length' = Length /\ JobInv'
  BY <1>2, SameCall DEF OutputInv
<1>6. TypeInv'
  BY <1>2, <1>5 DEF OutputInv, TypeInv, IsSeq, IsMap, IsHeader
<1>7. SizedInv' /\ ArrayInv'
  BY <1>2, <1>5 DEF OutputInv, SizedInv, ArrayInv, Running
<1>8. PcInv' /\ RestInv'
  BY <1>2, <1>5 DEF OutputInv, PcInv, RestInv, Running
<1>9. MatchInv' /\ Used' = Used
  BY <1>2, SameOutput DEF OutputInv
<1>10. BatchInv' /\ FillInv' /\ EmitInv' /\ RoomInv'
  BY <1>2, NotRunning DEF Running
<1>11. Buckets' = Buckets /\ (\A c : SizeOf(c)' = SizeOf(c)) /\ ShuffleInv'
  BY <1>2, SameBuckets DEF OutputInv
<1>12. ScatterInv'
  BY <1>2 DEF ScatterInv
<1>13. GatherInv'
  <2>1. GatherInv
    BY DEF OutputInv
  <2>2. data' = [data EXCEPT ![b] = [data[b] EXCEPT !.seq = seq]]
    BY <1>1
  <2>3. /\ data'[b] = [slot |-> data[b].slot, blocks |-> data[b].blocks, seq |-> seq]
        /\ IsMap(data', Buckets)
        /\ \A c \in Buckets : c # b => data'[c] = data[c]
    <3>1. data = [c \in Buckets |-> data[c]]
      BY <2>1 DEF GatherInv, IsMap
    <3>2. data[b] = [slot |-> data[b].slot, blocks |-> data[b].blocks, seq |-> data[b].seq]
      BY <2>1 DEF GatherInv
    <3>3. data'[b] = [data[b] EXCEPT !.seq = seq]
      BY <2>2, <3>1
    <3>4. data' = [c \in Buckets |-> data'[c]]
      BY <2>2, <3>1
    <3>5. \A c \in Buckets : c # b => data'[c] = data[c]
      BY <2>2, <3>1
    <3>6. data'[b] = [slot |-> data[b].slot, blocks |-> data[b].blocks, seq |-> seq]
      BY <3>2, <3>3
    <3> QED BY <3>4, <3>5, <3>6 DEF IsMap
  <2>4. \A c \in Buckets : data'[c].slot = data[c].slot /\ data'[c].blocks = data[c].blocks
    BY <2>3
  <2>5. data[b].blocks = CeilDiv(SizeOf(b), ChunkSize)
    <3>1. data[b].blocks \in {0, CeilDiv(SizeOf(b), ChunkSize)}
      BY <1>2, <2>1 DEF GatherInv
    <3> QED BY <1>2, <3>1
  <2>6. ASSUME NEW c \in Buckets
        PROVE  /\ data'[c] = [slot |-> data'[c].slot, blocks |-> data'[c].blocks,
                              seq |-> data'[c].seq]
               /\ IsSeq(data'[c].seq)
               /\ data'[c].seq = <<>> =>
                    data'[c].blocks \in {0, CeilDiv(SizeOf(c), ChunkSize)}
               /\ data'[c].seq # <<>> =>
                    data'[c].blocks = CeilDiv(Len(data'[c].seq), ChunkSize)
    <3>1. CASE c = b
      BY <1>4, <2>3, <2>5, <3>1
    <3>2. CASE c # b
      BY <2>1, <2>3, <3>2 DEF GatherInv
    <3> QED BY <3>1, <3>2
  <2>7. ASSUME NEW c \in Buckets
        PROVE  /\ data'[c].slot \in Nat /\ data'[c].blocks \in Nat
               /\ \A s \in data'[c].slot..(data'[c].slot + data'[c].blocks - 1) :
                    s \in DOMAIN headers' /\ s \notin Used'
    BY <1>2, <1>9, <2>1, <2>4 DEF GatherInv
  <2>8. \A c, d \in Buckets : c < d => data'[c].slot + data'[c].blocks <= data'[d].slot
    BY <2>1, <2>4 DEF GatherInv
  <2>9. IsMap(data, Buckets)' /\ \A c \in Buckets' : IsSeq(data[c].seq)'
    BY <1>11, <2>3, <2>6 DEF IsMap, IsSeq
  <2> QED BY <1>2, <1>11, <2>6, <2>7, <2>8, <2>9 DEF GatherInv
<1> QED BY <1>5, <1>6, <1>7, <1>8, <1>9, <1>10, <1>11, <1>12, <1>13 DEF OutputInv

\* A block of a bucket goes to the first slot of its range, which gets shorter.
LEMMA WriteBlockStep ==
    ASSUME OutputInv, phase = "gathers", NEW b \in Buckets, WriteBlock(b)
    PROVE  OutputInv'
<1> DEFINE seq == data[b].seq
           cnt == MinOf({ChunkSize, Len(seq)})
           slot == data[b].slot
           left == SubSeq(seq, cnt + 1, Len(seq))
           content == Padded(SubSeq(seq, 1, cnt), ChunkSize)
<1>1. PICK f \in Files :
        LET h == [index |-> data[b].slot, file |-> f, at |-> file_offsets[f], used |-> cnt]
        IN  /\ headers' = [headers EXCEPT ![h.index] = h]
            /\ pushed' = pushed \cup {Block(h, content)}
            /\ Advance(f)
  BY DEF WriteBlock
<1> DEFINE h == [index |-> data[b].slot, file |-> f, at |-> file_offsets[f], used |-> cnt]
<1>2. /\ headers' = [headers EXCEPT ![slot] = h]
      /\ pushed' = pushed \cup {Block(h, content)}
      /\ file_offsets' = [file_offsets EXCEPT ![f] = @ + 1]
  BY <1>1 DEF Advance
<1>3. /\ seq # <<>>
      /\ data' = [data EXCEPT ![b] = [slot |-> @.slot + 1, blocks |-> @.blocks - 1,
                                      seq |-> left]]
      /\ UNCHANGED <<job, source, phase, unread, batch, pc, chunk, blocks, slot_for, base,
                     buffer, counter, buf, produced>>
  BY DEF WriteBlock, arguments, task
<1>4. GatherInv
  BY DEF OutputInv
<1>5. /\ slot \in Nat /\ data[b].blocks \in Nat /\ IsSeq(seq)
      /\ data[b].blocks = CeilDiv(Len(seq), ChunkSize)
      /\ \A s \in slot..(slot + data[b].blocks - 1) : s \in DOMAIN headers /\ s \notin Used
  BY <1>3, <1>4 DEF GatherInv
<1>6. Len(seq) \in Nat \ {0}
  BY <1>3, <1>5, EmptyIs
<1>7. cnt = IF ChunkSize <= Len(seq) THEN ChunkSize ELSE Len(seq)
  BY <1>6, Sizes, MinOfTwo
<1> HIDE DEF content, cnt
<1>8. /\ data[b].blocks > 0
      /\ Len(seq) <= ChunkSize => data[b].blocks = 1
      /\ Len(seq) > ChunkSize =>
           CeilDiv(Len(seq) - ChunkSize, ChunkSize) = data[b].blocks - 1
  <2> DEFINE l == Len(seq)
  <2>1. l \in Nat /\ l > 0 /\ data[b].blocks = CeilDiv(l, ChunkSize)
    BY <1>5, <1>6
  <2> HIDE DEF l
  <2>2. /\ CeilDiv(l, ChunkSize) > 0
        /\ l <= ChunkSize => CeilDiv(l, ChunkSize) = 1
        /\ l > ChunkSize => CeilDiv(l - ChunkSize, ChunkSize) = CeilDiv(l, ChunkSize) - 1
    BY <2>1, Sizes, CeilDivTake
  <2> QED BY <2>1, <2>2 DEF l
<1>9. /\ IsSeq(left) /\ Len(left) = Len(seq) - cnt /\ cnt \in 0..ChunkSize
      /\ left = <<>> => data[b].blocks - 1 = 0
      /\ left # <<>> => data[b].blocks - 1 = CeilDiv(Len(left), ChunkSize)
  <2> DEFINE l == Len(seq)
  <2>1. l \in Nat /\ l > 0 /\ ChunkSize \in Nat /\ ChunkSize > 0
        /\ cnt = IF ChunkSize <= l THEN ChunkSize ELSE l
    BY <1>6, <1>7, Sizes
  <2>2. IsSeq(left) /\ Len(left) = IF cnt + 1 <= l THEN l - (cnt + 1) + 1 ELSE 0
    <3>1. cnt + 1 \in Nat \ {0} /\ l \in 0..Len(seq)
      BY <2>1
    <3> HIDE DEF seq
    <3> DEFINE from == cnt + 1
    <3>2. from \in Nat \ {0}
      BY <3>1
    <3>3. left = SubSeq(seq, from, l)
      OBVIOUS
    <3> HIDE DEF from, l
    <3>4. /\ IsSeq(SubSeq(seq, from, l))
          /\ Len(SubSeq(seq, from, l)) = IF from <= l THEN l - from + 1 ELSE 0
      BY <1>5, <3>1, <3>2, IsSeqSubSeq
    <3> QED BY <3>3, <3>4 DEF from
  <2>3. left = <<>> <=> Len(left) = 0
    BY <2>2, EmptyIs
  <2> HIDE DEF left, l
  <2>4. Len(left) = l - cnt /\ cnt \in 0..ChunkSize
    BY <2>1, <2>2
  <2>5. CASE l <= ChunkSize
    <3>1. Len(left) = 0
      BY <2>1, <2>4, <2>5
    <3> QED BY <1>8, <2>2, <2>3, <2>4, <2>5, <3>1 DEF l
  <2>6. CASE l > ChunkSize
    <3>1. Len(left) = l - ChunkSize /\ Len(left) # 0
      BY <2>1, <2>4, <2>6
    <3> QED BY <1>8, <2>2, <2>3, <2>4, <2>6, <3>1 DEF l
  <2> QED BY <2>1, <2>5, <2>6
<1> HIDE DEF left
<1>10. slot \in DOMAIN headers /\ slot \notin Used
  <2>1. slot \in slot..(slot + data[b].blocks - 1)
    <3> HIDE DEF slot
    <3> QED BY <1>5, <1>8
  <2> QED BY <1>5, <2>1
<1>11. /\ file_offsets[f] \in Nat /\ file_offsets'[f] = file_offsets[f] + 1
       /\ file_offsets' \in [Files -> Nat]
       /\ \A g \in Files : file_offsets'[g] \in Nat /\ file_offsets[g] <= file_offsets'[g]
  BY <1>2 DEF OutputInv, TypeInv
<1>12. /\ IsHeader(h) /\ h.file = f /\ h.at = file_offsets[f] /\ h.used = cnt
  BY <1>5, <1>11 DEF IsHeader
<1> HIDE DEF h, slot
<1>13. \A s \in Used : PlaceOf(headers[s]) # PlaceOf(h)
  <2> SUFFICES ASSUME NEW s \in Used, PlaceOf(headers[s]) = PlaceOf(h) PROVE FALSE
    OBVIOUS
  <2>1. headers[s].file = f /\ headers[s].at = file_offsets[f]
    BY <1>12 DEF PlaceOf
  <2>2. headers[s].at \in Nat /\ headers[s].at < file_offsets[headers[s].file]
    BY UsedPlace DEF OutputInv
  <2> QED BY <1>11, <2>1, <2>2
<1>14. MatchInv' /\ Used' = Used \cup {slot} /\ DOMAIN headers' = DOMAIN headers
  <2>1. h.file \in Files /\ h.at \in Nat /\ h.at < file_offsets'[h.file]
    BY <1>11, <1>12
  <2> QED BY <1>2, <1>10, <1>11, <1>13, <2>1, MatchAdded DEF OutputInv
<1>15. /\ headers'[slot] = h
       /\ \A s \in DOMAIN headers : s # slot => headers'[s] = headers[s]
       /\ IsMap(headers', DOMAIN headers')
  BY <1>2, <1>10 DEF OutputInv, TypeInv, IsMap
<1>16. /\ Op' = Op /\ NumChunks' = NumChunks /\ Chunks' = Chunks /\ Length' = Length /\ JobInv'
  BY <1>3, SameCall DEF OutputInv
<1>17. TypeInv'
  <2>1. \A s \in DOMAIN headers' : IsHeader(headers'[s])
    BY <1>12, <1>14, <1>15 DEF OutputInv, TypeInv
  <2>2. \A s \in DOMAIN headers' : IsHeader(headers[s])'
    BY <2>1 DEF IsHeader
  <2>3. IsFiniteSet(pushed')
    <3>1. IsFiniteSet(pushed)
      BY DEF OutputInv, TypeInv
    <3> QED BY <1>2, <3>1, FS_AddElement
  <2> QED BY <1>3, <1>11, <1>15, <1>16, <2>2, <2>3 DEF OutputInv, TypeInv, IsSeq, IsMap
<1>18. SizedInv'
  BY <1>3, <1>9, <1>12, <1>14, <1>15 DEF OutputInv, SizedInv
<1>19. ArrayInv'
  BY <1>3, <1>14 DEF OutputInv, ArrayInv, Running
<1>20. PcInv' /\ RestInv'
  BY <1>3, <1>16 DEF OutputInv, PcInv, RestInv, Running
<1>21. BatchInv' /\ FillInv' /\ EmitInv' /\ RoomInv'
  BY <1>3, NotRunning DEF Running
<1>22. Buckets' = Buckets /\ (\A c : SizeOf(c)' = SizeOf(c)) /\ ShuffleInv'
  BY <1>3, SameBuckets DEF OutputInv
<1>23. ScatterInv'
  BY <1>3 DEF ScatterInv
<1>24. GatherInv'
  <2>1. /\ data'[b] = [slot |-> slot + 1, blocks |-> data[b].blocks - 1, seq |-> left]
        /\ IsMap(data', Buckets)
        /\ \A c \in Buckets : c # b => data'[c] = data[c]
    BY <1>3, <1>4 DEF GatherInv, IsMap, slot
  <2>2. \A c \in Buckets : c \in Int
    <3>1. \E n \in Nat \ {0} : Buckets = 0..(n - 1)
      BY SomeBuckets DEF OutputInv
    <3> QED BY <3>1
  <2>3. ASSUME NEW c \in Buckets
        PROVE  /\ data'[c] = [slot |-> data'[c].slot, blocks |-> data'[c].blocks,
                              seq |-> data'[c].seq]
               /\ IsSeq(data'[c].seq)
               /\ data'[c].seq = <<>> =>
                    data'[c].blocks \in {0, CeilDiv(SizeOf(c), ChunkSize)}
               /\ data'[c].seq # <<>> =>
                    data'[c].blocks = CeilDiv(Len(data'[c].seq), ChunkSize)
    <3>1. CASE c = b
      BY <1>9, <2>1, <3>1
    <3>2. CASE c # b
      BY <1>4, <2>1, <3>2 DEF GatherInv
    <3> QED BY <3>1, <3>2
  <2>4. ASSUME NEW c \in Buckets
        PROVE  /\ data[c].slot \in Nat /\ data[c].blocks \in Nat
               /\ c < b => data[c].slot + data[c].blocks <= slot
               /\ b < c => slot + data[b].blocks <= data[c].slot
    BY <1>4 DEF GatherInv, slot
  <2>5. ASSUME NEW c \in Buckets
        PROVE  /\ data'[c].slot \in Nat /\ data'[c].blocks \in Nat
               /\ \A s \in data'[c].slot..(data'[c].slot + data'[c].blocks - 1) :
                    s \in DOMAIN headers' /\ s \notin Used'
    <3>1. CASE c = b
      <4>1. data'[b].slot = slot + 1 /\ data'[b].blocks = data[b].blocks - 1
        BY <2>1
      <4>2. \A s \in (slot + 1)..((slot + 1) + (data[b].blocks - 1) - 1) :
              s \in slot..(slot + data[b].blocks - 1) /\ s # slot
        BY <1>5, <1>8, <2>4
      <4>3. \A s \in slot..(slot + data[b].blocks - 1) : s \in DOMAIN headers /\ s \notin Used
        BY <1>5
      <4>4. slot + 1 \in Nat /\ data[b].blocks - 1 \in Nat
        BY <1>5, <1>8
      <4> QED BY <1>14, <3>1, <4>1, <4>2, <4>3, <4>4
    <3>2. CASE c # b
      <4>1. \A s \in data[c].slot..(data[c].slot + data[c].blocks - 1) :
              s \in DOMAIN headers /\ s \notin Used
        BY <1>4 DEF GatherInv
      <4>2. c < b \/ b < c
        BY <2>2, <3>2
      <4>3. slot \notin data[c].slot..(data[c].slot + data[c].blocks - 1)
        BY <1>5, <1>8, <2>4, <4>2
      <4> QED BY <1>14, <2>1, <2>4, <3>2, <4>1, <4>3
    <3> QED BY <3>1, <3>2
  <2>6. ASSUME NEW c \in Buckets, NEW d \in Buckets, c < d
        PROVE  data'[c].slot + data'[c].blocks <= data'[d].slot
    <3>1. data[c].slot + data[c].blocks <= data[d].slot
      BY <1>4, <2>6 DEF GatherInv
    <3>2. data'[c].slot + data'[c].blocks = data[c].slot + data[c].blocks
      <4>1. data'[b].slot = slot + 1 /\ data'[b].blocks = data[b].blocks - 1
        BY <2>1
      <4>2. (slot + 1) + (data[b].blocks - 1) = slot + data[b].blocks
        BY <1>5
      <4> QED BY <2>1, <4>1, <4>2 DEF slot
    <3>3. data[d].slot <= data'[d].slot
      <4>1. CASE d = b
        BY <1>5, <2>1, <4>1 DEF slot
      <4>2. CASE d # b
        BY <2>1, <2>4, <4>2
      <4> QED BY <4>1, <4>2
    <3> QED BY <2>4, <2>5, <3>1, <3>2, <3>3
  <2>7. IsMap(data, Buckets)' /\ \A c \in Buckets' : IsSeq(data[c].seq)'
    BY <1>22, <2>1, <2>3 DEF IsMap, IsSeq
  <2> QED BY <1>3, <1>22, <2>3, <2>5, <2>6, <2>7 DEF GatherInv
<1> QED BY <1>14, <1>16, <1>17, <1>18, <1>19, <1>20, <1>21, <1>22, <1>23,
       <1>24 DEF OutputInv

\* The blocks of the buckets are removed.
LEMMA ReturnShuffledStep ==
    ASSUME OutputInv, ReturnShuffled
    PROVE  OutputInv'
<1>1. /\ phase = "gathers" /\ phase' = "returned"
      /\ pushed' = {b \in pushed : b.file \in Files}
      /\ UNCHANGED <<job, source, unread, batch, pc, chunk, blocks, slot_for, base,
                     buffer, counter, file_offsets, headers>>
  BY DEF ReturnShuffled, arguments, task
<1>2. Op = "shuffle" /\ \A i \in Tasks : pc[i] = "done"
  BY <1>1 DEF OutputInv, PcInv
<1>3. /\ Op' = Op /\ NumChunks' = NumChunks /\ Chunks' = Chunks /\ JobInv'
  BY <1>1, SameCall DEF OutputInv
<1>4. IsFiniteSet(pushed')
  BY <1>1, FS_Subset DEF OutputInv, TypeInv
<1>5. TypeInv'
  BY <1>1, <1>3, <1>4 DEF OutputInv, TypeInv, IsSeq, IsMap, IsHeader
<1>6. SizedInv' /\ ArrayInv'
  BY <1>1, <1>3 DEF OutputInv, SizedInv, ArrayInv, Running
<1>7. PcInv' /\ RestInv'
  BY <1>1, <1>2, <1>3
     DEF OutputInv, PcInv, RestInv, Running, BatchOps, GenerateOps, PollOps, EmitOps
<1>8. MatchInv'
  <2>1. OutputBlocks' = OutputBlocks /\ Used' = Used
    BY <1>1 DEF OutputBlocks, Used
  <2>2. \A f \in Files : file_offsets'[f] \in Nat /\ file_offsets[f] <= file_offsets'[f]
    BY <1>1 DEF OutputInv, TypeInv
  <2> QED BY <1>1, <2>1, <2>2, MatchSame DEF OutputInv
<1>9. BatchInv' /\ FillInv' /\ EmitInv' /\ RoomInv'
  BY <1>1, NotRunning DEF Running
<1>10. ShuffleInv' /\ ScatterInv' /\ GatherInv'
  BY <1>1, NotShuffling
<1> QED BY <1>3, <1>5, <1>6, <1>7, <1>8, <1>9, <1>10 DEF OutputInv

-----------------------------------------------------------------------------
(* The start of a job                                                      *)

\* The first call of a job is one that may be made with what it is given.
Given ==
    /\ IsSeq(source)
    /\ \A ch \in Chunks : source[ch].index \in Nat
    /\ JobInv

\* The state before the first call.
LEMMA InitHolds ==
    ASSUME Init, Given
    PROVE  OutputInv
<1>1. /\ phase = "begins" /\ unread = {} /\ batch = 0 /\ counter = 0 /\ pushed = {}
      /\ pc = PerTask("polls") /\ chunk = PerTask(0)
      /\ blocks = PerTask(<<>>) /\ slot_for = PerTask(-1)
      /\ base = PerTask(NoHeader) /\ buffer = PerTask(<<>>)
      /\ file_offsets = [f \in Files |-> 0] /\ headers = <<>>
  BY DEF Init
<1>2. DOMAIN headers = {} /\ IsMap(headers, DOMAIN headers)
  <2>1. <<>> \in Seq({}) /\ Len(<<>>) = 0
    BY EmptySeq
  <2>2. IsSeq(<<>>) /\ DOMAIN <<>> = 1..Len(<<>>)
    BY <2>1, IsSeqSeq
  <2> QED BY <1>1, <2>1, <2>2 DEF IsSeq
<1>3. \A i \in Tasks : /\ pc[i] = "polls" /\ chunk[i] = 0 /\ blocks[i] = <<>>
                       /\ slot_for[i] = -1
  BY <1>1 DEF PerTask
<1>4. Used = {} /\ OutputBlocks = {}
  BY <1>1, <1>2 DEF Used, OutputBlocks
<1>5. TypeInv
  <2>1. IsSeq(source) /\ NumChunks \in Nat /\ \A ch \in Chunks : source[ch].index \in Nat
    BY DEF Given, IsSeq, NumChunks
  <2>2. /\ pc \in [Tasks -> {"polls", "filter", "sieve", "find_if", "emits", "slot", "place",
                             "pushes", "scatters", "flushes", "done"}]
        /\ slot_for \in [Tasks -> Nat \cup {-1}]
    BY <1>1 DEF PerTask
  <2>3. chunk \in [Tasks -> 0..NumChunks]
    BY <1>1, <2>1 DEF PerTask
  <2>4. IsMap(blocks, Tasks) /\ IsMap(base, Tasks) /\ IsMap(buffer, Tasks)
    BY <1>1 DEF PerTask, IsMap
  <2>5. IsFiniteSet(pushed)
    BY <1>1, FS_EmptySet
  <2>6. file_offsets \in [Files -> Nat]
    BY <1>1
  <2> QED BY <1>1, <1>2, <2>1, <2>2, <2>3, <2>4, <2>5, <2>6 DEF TypeInv
<1>6. JobInv /\ SizedInv
  BY <1>2 DEF Given, SizedInv
<1>7. PcInv /\ RestInv
  BY <1>1, <1>3 DEF PcInv, RestInv, Running
<1>8. ArrayInv
  BY <1>1, <1>2, FS_EmptySet DEF ArrayInv, Running
<1>9. MatchInv
  BY <1>4, MatchEmpty
<1>10. BatchInv /\ FillInv /\ EmitInv /\ RoomInv
  BY <1>1 DEF BatchInv, FillInv, EmitInv, RoomInv, Running
<1>11. ShuffleInv /\ ScatterInv /\ GatherInv
  BY <1>1 DEF ShuffleInv, ScatterInv, GatherInv
<1> QED BY <1>5, <1>6, <1>7, <1>8, <1>9, <1>10, <1>11 DEF OutputInv

\* What is built of some lengths are chunks of these lengths.
LEMMA Built ==
    ASSUME NEW lengths, IsSeq(lengths), \A c \in 1..Len(lengths) : lengths[c] \in Nat,
           source = BuildInput(MakeChunks(lengths))
    PROVE  /\ IsSeq(source) /\ NumChunks = Len(lengths) /\ Chunks = 1..Len(lengths)
           /\ \A ch \in Chunks : source[ch].index \in Nat /\ source[ch].used = lengths[ch]
<1> DEFINE n == Len(lengths)
           chunks == MakeChunks(lengths)
<1>1. n \in Nat /\ DOMAIN lengths = 1..n
  BY EmptyIs
<1>2. DOMAIN chunks = 1..n
  BY <1>1 DEF MakeChunks
<1>3. ASSUME NEW c \in 1..n PROVE Len(chunks[c]) = lengths[c]
  <2> DEFINE Before == FoldLeft(LAMBDA sum, k : sum + k, 0, SubSeq(lengths, 1, c - 1))
             line == [k \in 1..lengths[c] |-> Before + k - 1]
  <2>1. chunks[c] = line
    BY <1>1 DEF MakeChunks
  <2>2. line = [k \in 1..lengths[c] |-> line[k]]
    OBVIOUS
  <2> HIDE DEF line, chunks
  <2>3. Len(line) = lengths[c]
    BY <2>2, IsSeqOf
  <2> QED BY <2>1, <2>3
<1> HIDE DEF chunks
<1>4. /\ source = [i \in 1..n |-> source[i]]
      /\ \A i \in 1..n : source[i].index = i - 1 /\ source[i].used = Len(chunks[i])
  BY <1>2 DEF BuildInput, chunks
<1> HIDE DEF n
<1>5. IsSeq(source) /\ Len(source) = n
  BY <1>1, <1>4, IsSeqOf
<1> QED BY <1>1, <1>3, <1>4, <1>5 DEF NumChunks, Chunks, n

\* Elements in chunks of up to a block.
LEMMA GivenElements ==
    ASSUME NEW lengths, IsSeq(lengths), \A c \in 1..Len(lengths) : lengths[c] \in 0..ChunkSize,
           source = BuildInput(MakeChunks(lengths)), job \in Seq(ElementCalls) \ {<<>>}
    PROVE  Given
<1>1. \A c \in 1..Len(lengths) : lengths[c] \in Nat
  OBVIOUS
<1>2. /\ IsSeq(source) /\ Chunks = 1..Len(lengths)
      /\ \A ch \in Chunks : source[ch].index \in Nat /\ source[ch].used = lengths[ch]
  BY <1>1, Built
<1> QED BY <1>2 DEF Given, JobInv

\* A test that reads its input has a call on elements and some lengths.
LEMMA GivenCase ==
    ASSUME NEW calls \in ElementCalls, NEW num \in Int,
           NEW len, \A c \in Nat : len[c] \in 0..ChunkSize,
           NEW pred, NEW in \in {Case(<<calls>>, num, len, pred)},
           job = in.job, source = in.source
    PROVE  Given
<1> DEFINE bounded == MinOf({num, MaxTestChunks})
           lengths == Lengths(bounded, len)
<1>1. job = <<calls>> /\ source = BuildInput(MakeChunks(lengths))
  BY DEF Case
<1>2. bounded \in Int
  BY MinOfTwo, BoundsAssumption
<1> HIDE DEF bounded
<1>3. PICK n \in Nat : 1..bounded = 1..n
  <2>1. CASE bounded >= 0
    BY <1>2, <2>1
  <2>2. CASE bounded < 0
    <3>1. 1..bounded = 1..0
      BY <1>2, <2>2
    <3> QED BY <3>1
  <2> QED BY <1>2, <2>1, <2>2
<1>4. lengths = [c \in 1..n |-> lengths[c]] /\ \A c \in 1..n : lengths[c] = len[c - 1]
  BY <1>3 DEF Lengths
<1> HIDE DEF lengths
<1>5. IsSeq(lengths) /\ Len(lengths) = n
  BY <1>4, IsSeqOf
<1>6. \A c \in 1..n : lengths[c] \in 0..ChunkSize
  BY <1>4
<1>7. <<calls>> \in Seq(ElementCalls) \ {<<>>}
  OBVIOUS
<1> QED BY <1>1, <1>5, <1>6, <1>7, GivenElements

\* n elements in chunks of up to per: all chunks but the last are full.
LEMMA GivenIota ==
    ASSUME NEW calls \in {<<"iota">>, <<"bool", "sieve">>, <<"write_iota", "find_if">>},
           NEW n \in Int, NEW threshold,
           NEW per, per = IF calls = <<"bool", "sieve">> THEN FlagsPerChunk ELSE ChunkSize,
           NEW in \in {IotaOf(calls, n, per, threshold)},
           job = in.job, source = in.source
    PROVE  Given
<1> DEFINE k == CeilDiv(n, per)
           lengths == [c \in 1..k |-> MinOf({per, n - (c - 1) * per})]
<1>1. job = calls /\ source = BuildInput(MakeChunks(lengths))
  BY DEF IotaOf
<1>2. per \in Nat /\ per > 0
  BY Sizes
<1>3. \A c \in Int : (c - 1) * per \in Int /\ c * per \in Int /\ (c - 1) * per = c * per - per
  BY <1>2
<1>4. PerChunk = per
  <2>1. calls = <<"bool", "sieve">> => Op = "bool"
    BY <1>1 DEF Op
  <2>2. calls # <<"bool", "sieve">> => Op \in {"iota", "write_iota"}
    BY <1>1 DEF Op
  <2> QED BY <2>1, <2>2 DEF PerChunk
<1>5. CASE n > 0
  <2>1. k \in Nat /\ n <= k * per /\ k * per < n + per
    <3>1. n \in Nat /\ per \in Nat \ {0}
      BY <1>2, <1>5
    <3> QED BY <3>1, CeilDivValue
  <2>2. \A c \in 1..k : /\ n - (c - 1) * per \in Nat \ {0}
                        /\ c # k => c * per <= n
    <3> SUFFICES ASSUME NEW c \in 1..k
                 PROVE  n - (c - 1) * per \in Nat \ {0} /\ (c # k => c * per <= n)
      OBVIOUS
    <3> HIDE DEF k
    <3>1. c * per <= k * per
      <4>1. \A a, b, d \in Nat : a <= b => a * d <= b * d
        OBVIOUS
      <4> QED BY <1>2, <2>1, <4>1
    <3>2. c # k => (c + 1) * per <= k * per /\ (c + 1) * per = c * per + per
      <4>1. \A a, b, d \in Nat : a <= b => a * d <= b * d
        OBVIOUS
      <4>2. (c + 1) * per = c * per + per
        BY <1>2
      <4>3. c # k => c + 1 <= k
        BY <2>1
      <4> QED BY <1>2, <2>1, <4>1, <4>2, <4>3
    <3>3. c * per \in Int /\ k * per \in Int /\ (c - 1) * per \in Int
          /\ (c - 1) * per = c * per - per
      BY <1>3, <2>1
    <3>4. n - (c - 1) * per \in Nat \ {0}
      <4> DEFINE x == c * per
                 y == k * per
                 z == (c - 1) * per
      <4>1. x \in Int /\ y \in Int /\ z = x - per /\ x <= y /\ y < n + per
        BY <2>1, <3>1, <3>3
      <4> HIDE DEF x, y, z
      <4>2. n - z \in Nat \ {0}
        BY <1>2, <4>1
      <4> QED BY <4>2 DEF z
    <3>5. ASSUME c # k PROVE c * per <= n
      <4> DEFINE x == c * per
                 y == k * per
                 z == (c + 1) * per
      <4>1. x \in Int /\ y \in Int /\ z = x + per /\ z <= y /\ y < n + per
        BY <2>1, <3>2, <3>3, <3>5
      <4> HIDE DEF x, y, z
      <4>2. x <= n
        BY <1>2, <4>1
      <4> QED BY <4>2 DEF x
    <3> QED BY <3>4, <3>5
  <2> HIDE DEF k
  <2>3. lengths = [c \in 1..k |-> lengths[c]]
    OBVIOUS
  <2>4. \A c \in 1..k : lengths[c] = MinOf({per, n - (c - 1) * per})
    OBVIOUS
  <2> HIDE DEF lengths
  <2>5. IsSeq(lengths) /\ Len(lengths) = k
    BY <2>1, <2>3, IsSeqOf
  <2>6. \A c \in 1..k : lengths[c] = IF c = k THEN n - (k - 1) * per ELSE per
    <3> SUFFICES ASSUME NEW c \in 1..k
                 PROVE  lengths[c] = IF c = k THEN n - (k - 1) * per ELSE per
      OBVIOUS
    <3> DEFINE m == n - (c - 1) * per
    <3>1. m \in Int /\ lengths[c] = MinOf({per, m})
      BY <1>3, <2>4
    <3>2. lengths[c] = IF per <= m THEN per ELSE m
      <4> HIDE DEF m
      <4> QED BY <1>2, <3>1, MinOfTwo
    <3>3. /\ c * per \in Int /\ (c - 1) * per = c * per - per
          /\ c # k => c * per <= n
      BY <1>3, <2>2
    <3> DEFINE x == c * per
               z == (c - 1) * per
    <3>4. x \in Int /\ z = x - per /\ m = n - z /\ (c # k => x <= n) /\ (c = k => n <= x)
      BY <2>1, <3>3
    <3>5. c = k => m = n - (k - 1) * per
      OBVIOUS
    <3> HIDE DEF m, x, z
    <3>6. (c # k => per <= m) /\ (c = k => m <= per)
      BY <1>2, <3>4
    <3>7. CASE c = k
      <4>1. lengths[c] = m
        BY <1>2, <3>1, <3>2, <3>6, <3>7
      <4> QED BY <3>5, <3>7, <4>1
    <3>8. CASE c # k
      BY <3>2, <3>6, <3>8
    <3> QED BY <3>7, <3>8
  <2>7. \A c \in 1..k : lengths[c] \in Nat
    BY <1>2, <2>2, <2>6
  <2>8. /\ IsSeq(source) /\ NumChunks = k /\ Chunks = 1..k
        /\ \A ch \in Chunks : source[ch].index \in Nat /\ source[ch].used = lengths[ch]
    BY <1>1, <2>5, <2>7, Built
  <2>9. Length = n
    <3> DEFINE counts == [ch \in Chunks |-> source[ch].used]
               sums == [c \in 0..k |-> IF c = k THEN n ELSE c * per]
    <3>1. Length = Total(counts)
      BY <2>7, <2>8, InputLength
    <3>2. counts = [c \in 1..k |-> counts[c]] /\ \A c \in 1..k : counts[c] = lengths[c]
      BY <2>8
    <3> HIDE DEF counts
    <3>3. Len(counts) = k
      BY <2>1, <3>2, IsSeqOf
    <3>4. k # 0
      <4>1. k = 0 => k * per = 0
        BY <1>2
      <4> QED BY <1>5, <2>1, <4>1
    <3>5. sums[0] = 0 /\ sums[k] = n
      <4>1. 0 * per = 0
        BY <1>2
      <4> QED BY <2>1, <3>4, <4>1
    <3>6. \A c \in 1..k : sums[c] = sums[c - 1] + counts[c]
      <4> SUFFICES ASSUME NEW c \in 1..k PROVE sums[c] = sums[c - 1] + counts[c]
        OBVIOUS
      <4>1. c - 1 # k /\ c - 1 \in 0..k /\ c \in 0..k
        BY <2>1
      <4>2. sums[c - 1] = (c - 1) * per /\ sums[c] = IF c = k THEN n ELSE c * per
        BY <4>1
      <4>3. counts[c] = IF c = k THEN n - (k - 1) * per ELSE per
        BY <2>6, <3>2
      <4>4. c * per \in Int /\ (c - 1) * per \in Int /\ (c - 1) * per = c * per - per
        BY <1>3
      <4> HIDE DEF sums
      <4>5. CASE c = k
        BY <4>2, <4>3, <4>4, <4>5
      <4>6. CASE c # k
        BY <1>2, <4>2, <4>3, <4>4, <4>6
      <4> QED BY <4>5, <4>6
    <3> HIDE DEF sums
    <3>7. Total(counts) = sums[k]
      BY <2>1, <3>3, <3>5, <3>6, TotalIs
    <3> QED BY <3>1, <3>5, <3>7
  <2>10. NumChunks = ChunksFor(Length)
    BY <1>4, <2>8, <2>9 DEF ChunksFor, k
  <2> QED BY <1>1, <2>8, <2>10 DEF Given, JobInv
<1>6. CASE n <= 0
  <2>1. 1..k = 1..0
    <3>1. ASSUME NEW x \in Int, NEW y \in Nat, y > 0, x < y
          PROVE  x \div y \in Int /\ ~ (x \div y >= 1)
      <4> DEFINE d == x \div y
                 r == x % y
      <4>1. d \in Int /\ r \in 0..(y - 1) /\ x = y * d + r
        BY <3>1
      <4> HIDE DEF d, r
      <4>2. SUFFICES ASSUME d >= 1 PROVE FALSE
        BY <4>1 DEF d
      <4>3. y * d >= y
        <5>1. \A u, v \in Nat : v >= 1 => u * v >= u
          OBVIOUS
        <5> QED BY <4>1, <4>2, <5>1
      <4>4. y * d \in Int
        BY <4>1
      <4> QED BY <3>1, <4>1, <4>3, <4>4
    <3> DEFINE a == n + per - 1
    <3>2. k = a \div per /\ a \in Int /\ a < per
      BY <1>2, <1>6 DEF CeilDiv
    <3> HIDE DEF a, k
    <3>3. k \in Int /\ ~ (k >= 1)
      BY <1>2, <3>1, <3>2
    <3> QED BY <3>3
  <2>2. lengths = [c \in 1..0 |-> lengths[c]]
    BY <2>1
  <2> HIDE DEF lengths
  <2>3. IsSeq(lengths) /\ Len(lengths) = 0
    BY <2>2, IsSeqOf
  <2>4. /\ IsSeq(source) /\ NumChunks = 0 /\ Chunks = 1..0
        /\ \A ch \in Chunks : source[ch].index \in Nat /\ source[ch].used = lengths[ch]
    BY <1>1, <2>3, Built
  <2>5. Length = 0
    <3> DEFINE counts == [ch \in Chunks |-> source[ch].used]
    <3>1. Length = Total(counts)
      BY <2>4, InputLength
    <3>2. counts = [c \in 1..0 |-> counts[c]]
      BY <2>4
    <3> HIDE DEF counts
    <3>3. Len(counts) = 0
      BY <3>2, IsSeqOf
    <3> DEFINE sums == [c \in 0..0 |-> 0]
    <3>4. sums[0] = 0
      OBVIOUS
    <3> HIDE DEF sums
    <3>5. Total(counts) = sums[0]
      BY <3>3, <3>4, TotalIs
    <3> QED BY <3>1, <3>4, <3>5
  <2>6. NumChunks = ChunksFor(Length)
    BY <1>2, <1>4, <2>4, <2>5, CeilDivTake DEF ChunksFor
  <2> QED BY <1>1, <2>4, <2>6 DEF Given, JobInv
<1> QED BY <1>5, <1>6

\* Every test.
LEMMA GivenTest ==
    ASSUME NEW in \in Tests, job = in.job, source = in.source
    PROVE  Given
<1> DEFINE none == [x \in Nat |-> FALSE]
           all == [x \in Nat |-> TRUE]
           Modulo(d, r) == [x \in Nat |-> x % d = r]
           Same(n) == [c \in Nat |-> n]
<1> HIDE DEF none, all, Modulo, Same
<1>1. ChunkSize \in Nat /\ ChunkSize > 0 /\ NumSSDs \in Nat /\ FlagsPerChunk \in Nat
      /\ OutCap \in Nat
  BY Sizes, OutSizes
<1>2. /\ \A c \in Nat : VariedLen[c] \in 0..ChunkSize
      /\ \A c \in Nat : TinyLen[c] \in 0..ChunkSize
      /\ \A c \in Nat : OneBlockLen[c] \in 0..ChunkSize
      /\ \A n \in 0..ChunkSize : \A c \in Nat : Same(n)[c] \in 0..ChunkSize
  <2>1. \A c \in Nat : VariedLen[c] \in 0..ChunkSize
    <3>1. \A c \in Nat : c % ChunkSize \in 0..(ChunkSize - 1)
      BY <1>1
    <3> QED BY <1>1, <3>1 DEF VariedLen
  <2>2. \A c \in Nat : TinyLen[c] \in 0..ChunkSize
    BY <1>1 DEF TinyLen
  <2>3. OutCap <= ChunkSize
    <3> DEFINE o == OutCap
    <3>1. o \in Nat /\ Fanout \in Nat /\ Fanout >= 1 /\ o * Fanout = ChunkSize
      BY OutSizes, Sizes
    <3> HIDE DEF o
    <3>2. \A a, b \in Nat : b >= 1 => a <= a * b
      OBVIOUS
    <3> QED BY <1>1, <3>1, <3>2 DEF o
  <2>4. \A c \in Nat : OneBlockLen[c] \in 0..ChunkSize
    <3>1. \A c \in Nat : c % (OutCap + 1) \in 0..OutCap
      BY <1>1
    <3> QED BY <1>1, <2>3, <3>1 DEF OneBlockLen
  <2> QED BY <2>1, <2>2, <2>4 DEF Same
<1>3. ASSUME NEW num \in Int, NEW pred, in \in RunSizeCase(num, pred, VariedLen) PROVE Given
  BY <1>2, <1>3, GivenCase DEF RunSizeCase, ElementCalls
<1>4. ASSUME NEW num \in Int, NEW pred, in \in RunSizeCase(num, pred, TinyLen) PROVE Given
  BY <1>2, <1>4, GivenCase DEF RunSizeCase, ElementCalls
<1>5. ASSUME NEW num \in Int, NEW len, \A c \in Nat : len[c] \in 0..ChunkSize,
             in \in RunMapCase(num, len) \cup RunReduceCase(num, len)
      PROVE  Given
  <2>1. PICK calls \in ElementCalls : in \in {Case(<<calls>>, num, len, none)}
    BY <1>5 DEF RunMapCase, RunReduceCase, ElementCalls, none
  <2> QED BY <1>5, <2>1, GivenCase
<1>6. CASE in \in TestBatchBoundaries
  <2>1. ASSUME NEW num \in {1, NumSSDs - 1, NumSSDs, NumSSDs + 1},
               in \in RunSizeCase(num, Modulo(2, 0), VariedLen)
        PROVE  Given
    BY <1>1, <1>3, <2>1
  <2>2. ASSUME in \in RunSizeCase(2 * NumSSDs + 1, Modulo(3, 0), VariedLen) PROVE Given
    BY <1>1, <1>3, <2>2
  <2>3. \/ \E num \in {1, NumSSDs - 1, NumSSDs, NumSSDs + 1} :
             in \in RunSizeCase(num, Modulo(2, 0), VariedLen)
        \/ in \in RunSizeCase(2 * NumSSDs + 1, Modulo(3, 0), VariedLen)
    BY <1>6 DEF TestBatchBoundaries, Modulo
  <2> QED BY <2>1, <2>2, <2>3
<1>7. CASE in \in TestPredicateShapes
  <2>1. PICK num \in {NumSSDs + 1, 3 * NumSSDs + 1} :
            \/ in \in RunSizeCase(num, none, VariedLen)
            \/ in \in RunSizeCase(num, all, VariedLen)
            \/ in \in RunSizeCase(num, Modulo(97, 0), VariedLen)
            \/ in \in RunSizeCase(num, Modulo(2, 1), VariedLen)
    BY <1>7 DEF TestPredicateShapes, none, all, Modulo
  <2>2. num \in Int
    BY <1>1
  <2> QED BY <1>3, <2>1, <2>2
<1>8. CASE in \in TestManyTinyChunks \cup TestDeterminism
  <2>1. \/ in \in RunSizeCase(4 * NumSSDs + 1, Modulo(4, 0), TinyLen)
        \/ in \in RunSizeCase(2 * NumSSDs + 1, Modulo(7, 0), VariedLen)
    BY <1>8 DEF TestManyTinyChunks, TestDeterminism, Modulo
  <2>2. 4 * NumSSDs + 1 \in Int /\ 2 * NumSSDs + 1 \in Int
    BY <1>1
  <2> QED BY <1>3, <1>4, <2>1, <2>2
<1>9. ASSUME NEW n \in Int, in \in RunIotaCase(n) PROVE Given
  BY <1>9, GivenIota DEF RunIotaCase
<1>10. \A n \in Int, tail \in Int : Elements(n, tail) \in Int
  BY <1>1 DEF Elements
<1>11. CASE in \in TestIotaBatchBoundaries \cup TestIotaPartialTail
  <2>1. /\ ChunkSize \div 3 + 1 \in Int /\ ChunkSize \div 2 \in Int
        /\ NumSSDs - 1 \in Int /\ NumSSDs + 1 \in Int /\ NumSSDs + 2 \in Int
        /\ 2 * NumSSDs + 1 \in Int
    BY <1>1
  <2>2. PICK n \in {1, ChunkSize, Elements(NumSSDs - 1, ChunkSize \div 3 + 1),
                    Elements(NumSSDs, ChunkSize), Elements(NumSSDs + 1, 1),
                    Elements(2 * NumSSDs + 1, ChunkSize \div 2),
                    Elements(NumSSDs + 2, 1), Elements(NumSSDs + 2, ChunkSize)} :
            in \in RunIotaCase(n)
    BY <1>11 DEF TestIotaBatchBoundaries, TestIotaPartialTail
  <2>3. n \in Int
    BY <1>1, <1>10, <2>1
  <2> QED BY <1>9, <2>2, <2>3
<1>12. CASE in \in TestMapBatchBoundaries
  <2>1. PICK num \in {1, NumSSDs - 1, NumSSDs, NumSSDs + 1, 2 * NumSSDs + 1} :
            in \in RunMapCase(num, OneBlockLen)
    BY <1>12 DEF TestMapBatchBoundaries
  <2>2. num \in Int
    BY <1>1
  <2> QED BY <1>2, <1>5, <2>1, <2>2
<1>13. CASE in \in TestMapManyTinyChunks
  <2>1. in \in RunMapCase(4 * NumSSDs + 1, TinyLen) /\ 4 * NumSSDs + 1 \in Int
    BY <1>1, <1>13 DEF TestMapManyTinyChunks
  <2> QED BY <1>2, <1>5, <2>1
<1>14. CASE in \in TestMapGrowFanout
  <2>1. PICK n \in 0..ChunkSize : in \in RunMapCase(1, Same(n))
    BY <1>14 DEF TestMapGrowFanout, Same
  <2> QED BY <1>2, <1>5, <2>1
<1>15. CASE in \in TestReduceSum \cup TestReduceEmpty
  <2>1. \/ in \in RunReduceCase(2 * NumSSDs + 1, VariedLen)
        \/ in \in RunReduceCase(NumSSDs + 1, Same(0))
    BY <1>15 DEF TestReduceSum, TestReduceEmpty, Same
  <2>2. 2 * NumSSDs + 1 \in Int /\ NumSSDs + 1 \in Int /\ 0 \in 0..ChunkSize
    BY <1>1
  <2> QED BY <1>2, <1>5, <2>1, <2>2
<1>16. CASE in \in RunFind
  <2> DEFINE n == 2 * NumSSDs * ChunkSize
  <2>1. PICK threshold :
            in \in {IotaOf(<<"write_iota", "find_if">>, n, ChunkSize, threshold)}
    BY <1>16 DEF RunFind
  <2>2. n \in Int
    BY <1>1
  <2> HIDE DEF n
  <2> QED BY <2>1, <2>2, GivenIota
<1>17. CASE in \in RunPrimes
  <2>1. PICK n \in {2, FlagsPerChunk, MaxTestChunks * FlagsPerChunk - 2} :
            in \in {IotaOf(<<"bool", "sieve">>, n + 1, FlagsPerChunk, 0)}
    BY <1>17 DEF RunPrimes
  <2>2. n + 1 \in Int
    BY <1>1, BoundsAssumption
  <2> QED BY <2>1, <2>2, GivenIota
<1> QED
  BY <1>6, <1>7, <1>8, <1>11, <1>12, <1>13, <1>14, <1>15, <1>16, <1>17 DEF Tests

\* Every small sequence.
LEMMA GivenSmall ==
    ASSUME NEW in \in SmallInputs, job = in.job, source = in.source
    PROVE  Given
<1>1. PICK lengths \in BoundedSeq(0..ChunkSize, MaxChunks) :
          in.job \in Jobs /\ in.source = BuildInput(MakeChunks(lengths))
  BY DEF SmallInputs
<1>2. PICK m \in 0..MaxChunks : lengths \in [1..m -> 0..ChunkSize]
  BY DEF BoundedSeq, SeqOf
<1>3. m \in Nat /\ lengths = [c \in 1..m |-> lengths[c]]
  BY <1>2, BoundsAssumption
<1>4. IsSeq(lengths) /\ Len(lengths) = m
  BY <1>3, IsSeqOf
<1>5. \A c \in 1..m : lengths[c] \in 0..ChunkSize
  BY <1>2
<1>6. job \in Seq(ElementCalls) \ {<<>>}
  BY <1>1, JobsAssumption
<1> QED BY <1>1, <1>4, <1>5, <1>6, GivenElements

-----------------------------------------------------------------------------
(* The theorem                                                             *)

LEMMA InitInv == MainInit => OutputInv
<1> SUFFICES ASSUME MainInit PROVE OutputInv
  OBVIOUS
<1>1. PICK in \in Inputs : job = in.job /\ source = in.source
  BY DEF MainInit
<1>2. Given
  BY <1>1, GivenTest, GivenSmall DEF Inputs
<1> QED BY <1>2, InitHolds DEF MainInit

\* What a step leaves alone.
LEMMA StutterStep ==
    ASSUME OutputInv, UNCHANGED vars
    PROVE  OutputInv'
<1>1. UNCHANGED <<job, source, phase, unread, batch, pc, chunk, blocks, slot_for, base,
                  buffer, counter, file_offsets, headers, pushed, buf, produced, data>>
  BY DEF vars, arguments, task, output, shuffling
<1>2. /\ Op' = Op /\ NumChunks' = NumChunks /\ Chunks' = Chunks /\ Capacity' = Capacity
      /\ MaxBlocks' = MaxBlocks /\ ExpectedReads' = ExpectedReads /\ Length' = Length /\ JobInv'
  BY <1>1, SameCall DEF OutputInv
<1>3. Running' = Running /\ InBatch' = InBatch
  BY <1>1, <1>2 DEF Running, InBatch
<1>4. Used' = Used /\ OutputBlocks' = OutputBlocks /\ MatchInv'
  BY <1>1, SameOutput DEF OutputInv
<1>5. TypeInv'
  BY <1>1, <1>2 DEF OutputInv, TypeInv, IsSeq, IsMap, IsHeader
<1>6. SizedInv' /\ PcInv' /\ RestInv' /\ ArrayInv'
  BY <1>1, <1>2, <1>3 DEF OutputInv, SizedInv, PcInv, RestInv, ArrayInv
<1>7. Filled' = Filled /\ Polled' = Polled /\ \A k : SlotOfBatch(k)' = SlotOfBatch(k)
  BY <1>1 DEF Filled, Polled, SlotOfBatch
<1>8. BatchInv' /\ FillInv'
  BY <1>1, <1>2, <1>3, <1>4, <1>7 DEF OutputInv, BatchInv, FillInv
<1>9. /\ \A k : SlotsNeeded(k)' = SlotsNeeded(k)
      /\ \A k : HasSlot(k)' = HasSlot(k) /\ HasPlace(k)' = HasPlace(k)
  BY <1>1 DEF SlotsNeeded, HasSlot, HasPlace
<1>10. Pending' = Pending
  BY <1>9, SamePending
<1>11. RoomInv'
  BY <1>1, <1>2, <1>3, <1>10 DEF OutputInv, RoomInv
<1>12. EmitInv'
  BY <1>1, <1>2, <1>3, <1>4, <1>9 DEF OutputInv, EmitInv, IsSeq, IsMap, IsHeader, PlaceOf
<1>13. Buckets' = Buckets /\ (\A c : SizeOf(c)' = SizeOf(c)) /\ ShuffleInv'
  BY <1>1, SameBuckets DEF OutputInv
<1>14. ScatterInv'
  BY <1>1, <1>4 DEF OutputInv, ScatterInv, IsSeq, IsMap
<1>15. GatherInv'
  BY <1>1, <1>4, <1>13 DEF OutputInv, GatherInv, IsMap, IsSeq
<1> QED BY <1>2, <1>4, <1>5, <1>6, <1>8, <1>11, <1>12, <1>13, <1>14, <1>15 DEF OutputInv

LEMMA NextInv == OutputInv /\ [Next]_vars => OutputInv'
<1> SUFFICES ASSUME OutputInv, [Next]_vars PROVE OutputInv'
  OBVIOUS
<1>1. ASSUME NEW i \in Tasks, Task(i) PROVE OutputInv'
  <2>1. CASE Iota(i) \/ BoolCreate(i) \/ WriteIota(i)
    BY <2>1, GenerateStep
  <2>2. CASE Poll(i)
    BY <2>2, PollStep
  <2>3. CASE PollEnd(i) \/ ReduceEnd(i)
    BY <2>3, PollEndStep
  <2>4. CASE Filter(i) \/ Sieve(i)
    BY <2>4, FilterStep
  <2>5. CASE Search(i)
    BY <2>5, SearchStep
  <2>6. CASE MapPoll(i) \/ EngineMap(i) \/ EngineFilter(i)
    BY <2>6, PollBodyStep
  <2>7. CASE MapSlot(i) \/ EmitSlot(i)
    BY <2>7, TakeSlotStep
  <2>8. CASE MapPlace(i) \/ EmitPlace(i)
    BY <2>8, TakePlaceStep
  <2>9. CASE MapPush(i) \/ EmitPush(i)
    BY <2>9, PushBlockStep
  <2>10. CASE ReduceChunk(i)
    BY <2>10, ReduceStep
  <2>11. CASE ScatterPoll(i)
    BY <2>11, ScatterPollStep
  <2>12. CASE Scatter(i)
    BY <2>12, ScatterStep
  <2>13. CASE FlushRest(i)
    BY <2>13, FlushRestStep
  <2> QED
    BY <1>1, <2>1, <2>2, <2>3, <2>4, <2>5, <2>6, <2>7, <2>8, <2>9, <2>10, <2>11, <2>12,
       <2>13 DEF Task
<1>2. CASE BucketTask
  BY <1>2, GatherStep, WriteBlockStep DEF BucketTask
<1>3. CASE Caller
  <2>1. CASE \/ BeginIota \/ BeginFlags \/ BeginWriteIota \/ BeginFilter \/ BeginSieve
             \/ BeginMap \/ BeginTransform \/ BeginReduce \/ BeginFind
    BY <2>1, BeginActions
  <2>2. CASE BeginShuffle
    BY <2>2, BeginShuffleStep
  <2>3. CASE Join
    BY <2>3, JoinStep
  <2>4. CASE BatchMapped \/ BatchSearched
    BY <2>4, NextBatchStep
  <2>5. CASE PushIota \/ PushFlags \/ PushWrittenIota \/ PushFiltered \/ PushPrimes
    BY <2>5, PushBatchStep
  <2>6. CASE \/ ReturnIota \/ ReturnFlags \/ ReturnWrittenIota \/ ReturnPrimes
             \/ ReturnFiltered \/ ReturnMapped \/ ReturnTransformed
    BY <2>6, ReturnActions
  <2>7. CASE ReturnPosition \/ ReturnReduced
    BY <2>7, ReturnValueStep
  <2>8. CASE JoinScatter
    BY <2>8, JoinScatterStep
  <2>9. CASE ReturnShuffled
    BY <2>9, ReturnShuffledStep
  <2>10. CASE NextCall
    BY <2>10, NextCallStep
  <2> QED
    BY <1>3, <2>1, <2>2, <2>3, <2>4, <2>5, <2>6, <2>7, <2>8, <2>9, <2>10 DEF Caller
<1>4. CASE UNCHANGED vars
  BY <1>4, StutterStep
<1> QED BY <1>1, <1>2, <1>3, <1>4 DEF Next

\* Whatever job is done with whatever number of disks and sizes: no task uses a
\* slot outside of the output array, which is sized before anything is known of
\* the output, every header with a place leads to one block of the output, and
\* no two blocks were pushed to one place
\* (external_engine.h lines 51-64 and 99, ExternalMap.h lines 72 and 108-116,
\* externalFilter.h lines 47, 178 and 213-215, primes.h lines 149 and 152-156,
\* Extern_random_shuffle.h lines 206-221 and 262-272).
THEOREM OutputAlwaysFits == Spec => []OutputFits
<1>1. Spec => []OutputInv
  BY InitInv, NextInv, PTL DEF Spec
<1> QED BY <1>1, InvFits, PTL

=============================================================================
