------------------------------ MODULE FileMain -------------------------------
(***************************************************************************)
(* The programs that write files of numbers, make a call on them and check *)
(* what it left: sequence.cpp, scan_verify.cpp, sample-sort.cpp,           *)
(* permutation.cpp, the benchmark of random reads, and externalSeq, which  *)
(* calls map, filter and scan with the files it holds and finds those they *)
(* write; together with every list of a few small files.                   *)
(*                                                                         *)
(* The sizes are scaled down with the page, the read and the block.  The   *)
(* files of a test are not removed, as each run makes one test.            *)
(***************************************************************************)
EXTENDS SampleSort

CONSTANTS
    Jobs,           \* the jobs given every list of small files
    Step,           \* elements in a block of the input
    MaxFiles,       \* bounds on the small files
    MaxPages,
    MaxElement,     \* bound on the elements a predicate is defined for
    Randoms         \* outcomes of the random number generator

ASSUME BoundsAssumption ==
    /\ Step \in Nat \ {0} /\ Step % Page = 0
    /\ MaxFiles \in Nat /\ MaxPages \in Nat /\ MaxElement \in Nat

-----------------------------------------------------------------------------
(* Files written                                                           *)

\* The data in blocks, the last of which may be shorter.
Blocks(data, step) ==
    [k \in 1..CeilDiv(Len(data), step) |->
        SubSeq(data, (k - 1) * step + 1, Smaller(k * step, Len(data)))]

\* What an UnorderedFileWriter makes of blocks pushed without a place: the threads
\* take them as they come, and each appends to its own files in turn.
FilesWritten(blocks, num_files, num_threads) ==
    LET FilesOf(t) == CeilDiv(num_files - t, num_threads)
        Taken(takes, t) == SelectSeq([k \in DOMAIN blocks |-> k], LAMBDA k : takes[k] = t)
        File(takes, i) ==
            LET mine == Taken(takes, i % num_threads)
            IN  Concat([j \in DOMAIN mine |->
                    IF (j - 1) % FilesOf(i % num_threads) = i \div num_threads
                    THEN blocks[mine[j]] ELSE <<>>])
    IN  {[f \in 1..num_files |-> File(takes, f - 1)] :
            takes \in [DOMAIN blocks -> {t \in 0..(num_threads - 1) : t < num_files}]}

write_constant(n, val, num_files) ==
    FilesWritten(Blocks([k \in 1..n |-> val], Step), num_files, 1)

\* Orders of the numbers up to n: all of them, of more than four a few.
Orders(n) ==
    IF n <= 4 THEN {p \in [1..n -> 0..(n - 1)] : \A j, k \in 1..n : p[j] = p[k] => j = k}
    ELSE {[k \in 1..n |-> (k * m) % n] : m \in {1, 3}}

\* A random permutation, in files on all SSDs, by two threads.
GenerateSmallSample(n) ==
    UNION {FilesWritten(Blocks(nums, Smaller(Step, n)), SSDCount, 2) : nums \in Orders(n)}
randPerm(n) == GenerateSmallSample(n)

\* Random numbers up to a limit, a page in a block.
GenerateUniformRandomNumbers(count, limit) ==
    UNION {FilesWritten(Blocks(nums, Page), SSDCount, 1) : nums \in [1..count -> 0..limit]}

\* Files of numbers that grow from file to file, some without any.
SmallFiles ==
    LET Before(pages, i) == Page * Total(SubSeq(pages, 1, i - 1))
    IN  {[i \in DOMAIN pages |-> [j \in 1..(Page * pages[i]) |-> Before(pages, i) + j - 1]] :
            pages \in BoundedSeq(0..MaxPages, MaxFiles) \ {<<>>}}

-----------------------------------------------------------------------------
(* The programs                                                            *)

Case(calls, satisfy, ssds, contents) ==
    [job |-> calls, kept |-> satisfy, ssds |-> ssds, files |-> contents]

\* The elements that satisfy a predicate.
Never == {}
Always == (-MaxElement)..MaxElement
Divisible(d) == {e \in Always : e % d = 0}

\* The commands of sequence.cpp, on files that were there; map as externalSeq calls it.
RunReduce(contents) == Case(<<"reduce">>, Never, <<>>, contents)
MapOf(contents) == Case(<<"map">>, Never, <<>>, contents)
RunFilter(contents) == Case(<<"filter">>, Divisible(3), <<>>, contents)

\* A scan of ones, and of a permutation, with the SSDs listed first.
test_ones(n, num_files) ==
    {Case(<<"scan">>, Never, SSDSequence(0..(SSDCount - 1)), contents) :
        contents \in write_constant(n, 1, num_files)}
test_randperm(n) ==
    {Case(<<"scan">>, Never, ssds, contents) :
        ssds \in PopulateSSDList(2, TRUE), contents \in randPerm(n)}

\* A sequence is made, mapped, and what map returned is reduced, filtered or scanned.
SequenceOf(n) ==
    {Case(<<"map">> \o rest, Divisible(2), <<>>, contents) :
        rest \in {<<"reduce">>, <<"filter">>, <<"scan">>}, contents \in randPerm(n)}

\* Sorting and permuting a permutation and random numbers.
TestSampleSortSmall(n) == {Case(<<"sort">>, Never, <<>>, c) : c \in GenerateSmallSample(n)}
TestSampleSort(count) ==
    {Case(<<"sort">>, Never, <<>>, c) : c \in GenerateUniformRandomNumbers(count, 2)}
TestPermutation(n) == {Case(<<"permute">>, Never, <<>>, c) : c \in GenerateSmallSample(n)}

\* The benchmark that writes blocks of one size, here of numbers that can be told apart; and
\* the one that reads at random positions of what was written.
UnorderedWriteTest(n, step) ==
    FilesWritten(Blocks([k \in 1..n |-> k - 1], step), SSDCount, 1)
RandomReadTest(n) ==
    {Case(<<"random_read">>, Never, <<>>, contents) :
        contents \in UNION {UnorderedWriteTest(n, step) : step \in {Page, Step}}}

Programs ==
    UNION {test_ones(4 * Step, 2), test_ones(2 * Step, 4), test_randperm(4),
           test_randperm(2 * Step), SequenceOf(2 * Step), TestSampleSortSmall(2),
           TestSampleSortSmall(4), TestSampleSortSmall(2 * Step), TestSampleSort(2),
           TestPermutation(2 * Step), RandomReadTest(2 * Step)}
    \cup UNION {{RunReduce(contents), MapOf(contents), RunFilter(contents)} :
                    contents \in GenerateUniformRandomNumbers(2 * Page, 1)}

\* Every list of small files, and some predicates.
SmallInputs ==
    {Case(calls, satisfy, <<>>, contents) :
        calls \in Jobs, contents \in SmallFiles,
        satisfy \in {Never, Always, Divisible(2), 3..MaxElement}}

MainInit ==
    /\ \E in \in Programs \cup SmallInputs :
         /\ job = in.job
         /\ kept = in.kept
         /\ ssd_list = in.ssds
         /\ disk = [name \in {GetFileName(0, i - 1) : i \in DOMAIN in.files} |->
                       in.files[name.number + 1]]
         /\ rand \in IF in.job[Len(in.job)] \in {"sort", "permute"}
                     THEN Randoms ELSE {<<>>}
    /\ FileInit
    /\ requests = <<>> /\ pivots = <<>> /\ buckets = <<>>

Next ==
    \/ (\E t \in DOMAIN tasks : FileTask(t)) /\ UNCHANGED <<rand, sampleVars>>
    \/ FileCaller /\ UNCHANGED <<rand, sampleVars>>
    \/ \E t \in DOMAIN tasks : SortTask(t)
    \/ SortCaller
    \/ phase = "returned" /\ Len(job) = 1 /\ UNCHANGED sortVars

\* The program does not stop while a task or the caller can run.
Fairness == WF_sortVars(Next)

Spec == MainInit /\ [][Next]_sortVars /\ Fairness

-----------------------------------------------------------------------------
(* What the programs check                                                 *)

Sources == GetFileInfo(FindFiles(prefix), FALSE)
Outputs == GetFileInfo(FindFiles(prefix + 1), FALSE)

\* File by file and element by element.
VerifyMap ==
    /\ Len(Sources) = Len(Outputs)
    /\ \A i \in DOMAIN Sources :
         /\ Sources[i].size = Outputs[i].size
         /\ Readable(Outputs[i].name, Outputs[i].size)
         /\ ReadEntireFile(Outputs[i].name, Outputs[i].size)
              = [j \in 1..Sources[i].size |->
                    Image(ReadEntireFile(Sources[i].name, Sources[i].size)[j])]

\* The files one after the other, whose elements reduce took in some order.
VerifyReduce ==
    SortSeq(Concat([i \in DOMAIN Sources |->
                       ReadEntireFile(Sources[i].name, Sources[i].size)]), LAMBDA a, b : a < b)
      = SortSeq(value, LAMBDA a, b : a < b)

\* As many elements as the file is said to have.
read_output_file(f) == SubSeq(disk[f.name], 1, f.true)

\* The running sums of the elements, file after file.
VerifyScan ==
    LET ref == Concat([i \in DOMAIN Sources |-> disk[Sources[i].name]])
    IN  Concat([i \in DOMAIN results |-> read_output_file(results[i])])
          = [k \in DOMAIN ref |-> Total(SubSeq(ref, 1, k - 1))]

\* Found again with their end markers, the files have the sizes that were returned.
MarkersAgree ==
    LET found == GetFileInfo(FindFiles(prefix + 1), TRUE)
    IN  /\ Len(found) = Len(results)
        /\ \A i \in DOMAIN found :
             /\ found[i].name = results[i].name
             /\ found[i].true = results[i].true

\* The files one after the other hold the numbers up to n, in order.
CompareSortingResult ==
    LET actual == Concat([i \in DOMAIN results |-> read_output_file(results[i])])
    IN  actual = [k \in 1..Length |-> k - 1]

\* They can be read, hold as many numbers as there were, and none below the one before.
VerifySortingResult ==
    LET arr == Concat([i \in DOMAIN results |->
                  SubSeq(ReadEntireFile(results[i].name, results[i].size), 1, results[i].true)])
    IN  /\ \A i \in DOMAIN results : Readable(results[i].name, results[i].size)
        /\ Len(arr) = Length
        /\ \A k \in 2..Len(arr) : arr[k - 1] <= arr[k]

\* The true sizes of the files add up.
VerifyPermutation ==
    Total([i \in DOMAIN results |-> results[i].true]) = Length /\ MarkersAgree

\* Every check passes: those of sequence.cpp, scan_verify.cpp, sample-sort.cpp and
\* permutation.cpp, and of files that end in a marker, that GetFileInfo gets their
\* true sizes back from it (sequence.cpp lines 51-94, scan_verify.cpp lines 76-104
\* and 143-184, sample-sort.cpp lines 89-142 and 271-279, permutation.cpp lines
\* 28-39, file_utils.cpp lines 68-73, filter.h lines 73-84).
VerifiersPass ==
    phase = "returned" =>
        CASE Op = "map" -> VerifyMap
          [] Op = "reduce" -> VerifyReduce
          [] Op = "filter" -> MarkersAgree
          [] Op = "scan" -> VerifyScan /\ MarkersAgree
          [] Op = "sort" ->
                /\ VerifySortingResult /\ MarkersAgree
                /\ (ToSet(Input) = 0..(Length - 1)) => CompareSortingResult
          [] Op = "permute" -> VerifyPermutation
          [] OTHER -> TRUE

\* Whatever order the chunks of a file come in, and however workers and files are
\* interleaved, every call ends, and its value is that of the elements in the order
\* of the files: the images, the elements in some order, those that satisfy the
\* predicate, the running sums.
ImplementsCall == Call!Spec

=============================================================================
