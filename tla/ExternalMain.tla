---------------------------- MODULE ExternalMain -----------------------------
(***************************************************************************)
(* The calls that the tests and benchmarks of Plaidlay make of the         *)
(* primitives, external_main.cpp, find_if_benchmark.cpp and                *)
(* primes_benchmark.cpp, and what they check of the headers and elements   *)
(* returned; together with every sequence of a few small chunks.           *)
(*                                                                         *)
(* The inputs are scaled down with NUM_SSDS and the size of a block.  The  *)
(* names of files, the types of elements and memory use are left out.      *)
(***************************************************************************)
EXTENDS ExternalPrimitives

CONSTANTS
    Jobs,           \* the jobs given every small sequence
    MaxChunks,      \* bound on the chunks of these
    MaxTestChunks,  \* bound on the chunks of a test that reads its input
    MaxShuffled     \* bound on the elements that are shuffled

ASSUME BoundsAssumption == {MaxChunks, MaxTestChunks, MaxShuffled} \subseteq Nat

\* The calls that take elements; the sieve takes flags, the others generate.
ElementCalls ==
    {"filter", "engine_filter", "map", "engine_map", "reduce", "find_if", "shuffle"}

ASSUME JobsAssumption == Jobs \subseteq Seq(ElementCalls) \ {<<>>}

-----------------------------------------------------------------------------
(* Building inputs                                                         *)

\* Chunk i in a file of its own, padded with zeros; index i orders it.
BuildInput(chunks) ==
    [i \in DOMAIN chunks |->
        [index |-> i - 1, used |-> Len(chunks[i]),
         block |-> [j \in 1..FlagsPerChunk |->
                       IF j <= Len(chunks[i]) THEN chunks[i][j] ELSE 0]]]

\* Chunks of the given lengths, their elements numbered through all of them.
MakeChunks(lengths) ==
    LET Before(c) == FoldLeft(LAMBDA sum, n : sum + n, 0, SubSeq(lengths, 1, c - 1))
    IN  [c \in DOMAIN lengths |-> [k \in 1..lengths[c] |-> Before(c) + k - 1]]

\* Lengths that vary and do not fill a block; short ones.
VariedLen == [c \in Nat |-> 1 + (c % ChunkSize)]
TinyLen == [c \in Nat |-> 1]
Lengths(num_chunks, len) == [c \in 1..num_chunks |-> len[c - 1]]

Numbers(chunks) == UNION {ToSet(chunks[c]) : c \in DOMAIN chunks}

\* The input of a job: num_chunks chunks, and the elements that satisfy pred.
Case(calls, num_chunks, len, pred) ==
    LET bounded == MinOf({num_chunks, MaxTestChunks})
        chunks == MakeChunks(Lengths(bounded, len))
    IN  [job |-> calls, source |-> BuildInput(chunks),
         kept |-> {x \in Numbers(chunks) : pred[x]}]

-----------------------------------------------------------------------------
(* The tests                                                               *)

RunSizeCase(num_chunks, pred, len) == {Case(<<"filter">>, num_chunks, len, pred)}

TestBatchBoundaries ==
    RunSizeCase(2 * NumSSDs + 1, [x \in Nat |-> x % 3 = 0], VariedLen)
    \cup UNION {RunSizeCase(num_chunks, [x \in Nat |-> x % 2 = 0], VariedLen) :
                    num_chunks \in {1, NumSSDs - 1, NumSSDs, NumSSDs + 1}}

\* Nothing, everything, few and every other element.
TestPredicateShapes ==
    RunSizeCase(NumSSDs + 1, [x \in Nat |-> FALSE], VariedLen)
    \cup RunSizeCase(NumSSDs + 1, [x \in Nat |-> TRUE], VariedLen)
    \cup RunSizeCase(3 * NumSSDs + 1, [x \in Nat |-> x % 97 = 0], VariedLen)
    \cup RunSizeCase(NumSSDs + 1, [x \in Nat |-> x % 2 = 1], VariedLen)

TestManyTinyChunks == RunSizeCase(4 * NumSSDs + 1, [x \in Nat |-> x % 4 = 0], TinyLen)

\* The same input twice: every order of tasks and every choice of files.
TestDeterminism == RunSizeCase(2 * NumSSDs + 1, [x \in Nat |-> x % 7 = 0], VariedLen)

\* n elements for iota, which fills the chunks of per elements itself.
IotaOf(calls, n, per, threshold) ==
    LET chunks == MakeChunks([c \in 1..CeilDiv(n, per) |-> MinOf({per, n - (c - 1) * per})])
    IN  [job |-> calls, source |-> BuildInput(chunks),
         kept |-> {x \in Numbers(chunks) : x >= threshold}]

RunIotaCase(n) == {IotaOf(<<"iota">>, n, ChunkSize, n)}
Elements(chunks, tail) == (chunks - 1) * ChunkSize + tail

TestIotaBatchBoundaries ==
    UNION {RunIotaCase(n) :
               n \in {1, ChunkSize, Elements(NumSSDs - 1, ChunkSize \div 3 + 1),
                      Elements(NumSSDs, ChunkSize), Elements(NumSSDs + 1, 1),
                      Elements(2 * NumSSDs + 1, ChunkSize \div 2)}}

\* The last chunk has one element, or all.
TestIotaPartialTail ==
    UNION {RunIotaCase(Elements(NumSSDs + 2, tail)) : tail \in {1, ChunkSize}}

\* By hand and on the engine.
RunMapCase(num_chunks, len) ==
    {Case(<<calls>>, num_chunks, len, [x \in Nat |-> FALSE]) : calls \in {"map", "engine_map"}}

\* Blocks of map's output hold fewer elements: one block for a chunk.
OneBlockLen == [c \in Nat |-> c % (OutCap + 1)]
TestMapBatchBoundaries ==
    UNION {RunMapCase(num_chunks, OneBlockLen) :
               num_chunks \in {1, NumSSDs - 1, NumSSDs, NumSSDs + 1, 2 * NumSSDs + 1}}

TestMapManyTinyChunks == RunMapCase(4 * NumSSDs + 1, TinyLen)

\* One chunk that makes more than one block, if the types allow it.
TestMapGrowFanout ==
    UNION {RunMapCase(1, [c \in Nat |-> len]) : len \in {OutCap + 1} \cap 1..ChunkSize}

RunReduceCase(num_chunks, len) ==
    {Case(<<"reduce">>, num_chunks, len, [x \in Nat |-> FALSE])}

TestReduceSum == RunReduceCase(2 * NumSSDs + 1, VariedLen)
TestReduceEmpty == RunReduceCase(NumSSDs + 1, [c \in Nat |-> 0])

\* The benchmark of find_if: the first hit may be anywhere.
RunFind ==
    LET n == 2 * NumSSDs * ChunkSize
    IN  {IotaOf(<<"write_iota", "find_if">>, n, ChunkSize, threshold) : threshold \in 0..(n - 1)}

\* The primes up to n, of n + 1 flags; with n < 2 there is nothing to call.
RunPrimes ==
    {IotaOf(<<"bool", "sieve">>, n + 1, FlagsPerChunk, 0) :
        n \in {2, FlagsPerChunk, MaxTestChunks * FlagsPerChunk - 2}}

Tests ==
    UNION {TestBatchBoundaries, TestPredicateShapes, TestManyTinyChunks, TestDeterminism,
           TestIotaBatchBoundaries, TestIotaPartialTail, TestMapBatchBoundaries,
           TestMapManyTinyChunks, TestMapGrowFanout, TestReduceSum, TestReduceEmpty,
           RunFind, RunPrimes}

\* Every sequence of a few chunks, and every predicate where one is applied.
SmallInputs ==
    UNION {LET chunks == MakeChunks(lengths)
           IN  {[job |-> calls, source |-> BuildInput(chunks), kept |-> set] :
                    calls \in {c \in Jobs : Head(c) \in {"filter", "engine_filter", "find_if"}},
                    set \in SUBSET Numbers(chunks)}
               \cup {[job |-> calls, source |-> BuildInput(chunks), kept |-> {}] :
                         calls \in {c \in Jobs : Head(c) \in {"map", "engine_map", "reduce"}}}
               \cup {[job |-> calls, source |-> BuildInput(chunks), kept |-> {}] :
                         calls \in {c \in Jobs : /\ Head(c) = "shuffle"
                                                /\ Total(lengths) <= MaxShuffled}} :
           lengths \in BoundedSeq(0..ChunkSize, MaxChunks)}

Inputs == Tests \cup SmallInputs

MainInit ==
    /\ \E in \in Inputs : job = in.job /\ source = in.source /\ kept = in.kept
    /\ Init

Spec == MainInit /\ [][Next]_vars /\ Fairness

-----------------------------------------------------------------------------
(* What the tests check                                                    *)

Out == SortSeq([k \in 1..Cardinality(DOMAIN headers) |-> headers[k - 1]],
               LAMBDA a, b : a.index < b.index)

\* The elements on disk in the order of the headers; blocks without any skipped.
ReadOutput ==
    LET filled == SelectSeq(Out, LAMBDA h : h.used # 0)
    IN  Concat([k \in DOMAIN filled |-> ContentAt(filled[k])])

Dense == \A k \in DOMAIN Out : Out[k].index = k - 1
FromFiles == \A k \in DOMAIN Out : Out[k].file \in Files

\* One header for each chunk read, in a file of the output, of at most a block.
CheckOutputInvariants ==
    /\ Len(Out) = NumChunks
    /\ \A k \in DOMAIN Out : Out[k].used <= ChunkSize
    /\ FromFiles /\ Dense

\* As many headers as chunks, each but the last full, and no two blocks overlap.
CheckIotaInvariants ==
    /\ Len(Out) = ChunksFor(Length)
    /\ FromFiles /\ Dense
    /\ \A k \in DOMAIN Out : Out[k].used = MinOf({PerChunk, Length - (k - 1) * PerChunk})
    /\ FoldLeft(LAMBDA sum, h : sum + h.used, 0, Out) = Length
    /\ \A j, k \in DOMAIN Out :
         j # k => <<Out[j].file, Out[j].at>> # <<Out[k].file, Out[k].at>>

\* Element j of the chunk with index k is k * ChunkSize + j.
VerifyIotaData ==
    \A k \in DOMAIN Out : \A j \in 1..Out[k].used :
        ContentAt(Out[k])[j] = Out[k].index * ChunkSize + j - 1

\* As many elements as were read, in blocks of the output's size.
CheckMapInvariants ==
    /\ \A k \in DOMAIN Out : Out[k].used <= OutCap
    /\ FromFiles /\ Dense
    /\ FoldLeft(LAMBDA sum, h : sum + h.used, 0, Out) = Length

\* The primes read back, against those of the sieve in memory.
ReadExternalPrimes == ReadOutput = SelectSeq([i \in 1..Length |-> i - 1], Call!Prime)

\* Every check of the tests and benchmarks passes
\* (external_main.cpp lines 234-276, 478-566, 691-753 and 935,
\* find_if_benchmark.cpp line 235, primes_benchmark.cpp lines 132-141), and slot k
\* of what shuffle returns holds index k (Extern_random_shuffle.h line 282).
ChecksPass ==
    phase = "returned" =>
        CASE Op \in {"filter", "engine_filter"} ->
                /\ CheckOutputInvariants
                /\ ReadOutput = SelectSeq(Input, LAMBDA e : e \in kept)
          [] Op \in {"iota", "write_iota"} -> CheckIotaInvariants /\ VerifyIotaData
          [] Op = "bool" -> CheckIotaInvariants
          [] Op \in {"map", "engine_map"} ->
                /\ CheckMapInvariants
                /\ ReadOutput = [i \in DOMAIN Input |-> Call!Image(Input[i])]
                /\ (NumChunks = 1 /\ Length > OutCap) => Len(Out) > NumChunks
          [] Op = "sieve" -> ReadExternalPrimes
          [] Op = "shuffle" -> \A k \in DOMAIN headers : headers[k].index = k
          [] OTHER -> TRUE

=============================================================================
