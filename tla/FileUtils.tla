------------------------------ MODULE FileUtils ------------------------------
(***************************************************************************)
(* The file utilities of the sorting library: the list of SSDs, the names  *)
(* of the files of a sequence, what is known of a file before it is read,  *)
(* and the marker at the end of a file that was padded.                    *)
(*                                                                         *)
(* Sizes and offsets count elements.  A page is O_DIRECT_MULTIPLE, a whole *)
(* number of elements; the two bytes of the marker spoil one element.      *)
(* No prefix is taken to be the beginning of another file's name, and no   *)
(* two files of a prefix to have the same number.                          *)
(***************************************************************************)
EXTENDS Integers, Sequences, FiniteSets, SequencesExt

CONSTANTS
    Page,           \* O_DIRECT_MULTIPLE
    SSDCount        \* SSD_COUNT

ASSUME FileAssumption == Page \in Nat \ {0} /\ SSDCount \in Nat \ {0}

VARIABLES
    ssd_list,       \* empty until it is populated
    disk            \* the contents of every file, by its name

AlignDown(size) == (size \div Page) * Page
AlignUp(size) == ((size + Page - 1) \div Page) * Page

Rank(n, numbers) == Cardinality({m \in numbers : m < n})
Ascending(numbers) ==
    [i \in 1..Cardinality(numbers) |-> CHOOSE n \in numbers : Rank(n, numbers) = i - 1]

\* The SSDs, by number.
SSDSequence(ssd_numbers) == Ascending(ssd_numbers)

\* The first so many SSDs, or any so many of them.
PopulateSSDList(count, random) ==
    {SSDSequence(chosen) :
        chosen \in IF random
                   THEN {set \in SUBSET (0..(SSDCount - 1)) : Cardinality(set) = count}
                   ELSE {0..(count - 1)}}

\* All of them, when nobody populated the list.
GetSSDList == IF ssd_list = <<>> THEN SSDSequence(0..(SSDCount - 1)) ELSE ssd_list

\* Files are dealt to the SSDs in turn.
GetFileName(prefix, file_number) ==
    [ssd |-> GetSSDList[(file_number % Len(GetSSDList)) + 1],
     prefix |-> prefix, number |-> file_number]

GetFileSize(name) == Len(disk[name])

FileInfo(name, file_index, true_size, file_size) ==
    [name |-> name, index |-> file_index, true |-> true_size, size |-> file_size,
     before |-> 0]

\* The files of a prefix on the SSDs in use, by their number.
FindFiles(prefix) ==
    LET found == {name \in DOMAIN disk : name.prefix = prefix /\ name.ssd \in ToSet(GetSSDList)}
        numbers == Ascending({name.number : name \in found})
        Found(i) == CHOOSE name \in found : name.number = numbers[i]
    IN  [i \in DOMAIN numbers |-> FileInfo(Found(i), numbers[i], 0, GetFileSize(Found(i)))]

\* What a block holds where nothing was written, and the end marker, which
\* tells how much of the block is not data.
Garbage == -99
Marker(byte_diff) == -(1000 + byte_diff)
MarkerValue(marker) == -marker - 1000

\* The block of data, padded to the size, with the marker in its last bytes.
MakeFileEndMarker(buffer, size, real_size) ==
    [j \in 1..size |-> IF j = size THEN Marker(size - real_size)
                       ELSE IF j <= real_size THEN buffer[j] ELSE Garbage]

\* One page, from an offset that is a multiple of it.
ReadFileOnce(name, offset) == SubSeq(disk[name], offset + 1, offset + Page)

\* Whole pages are read; of a file that is shorter the read never ends.
Readable(name, read_size) == AlignUp(read_size) <= GetFileSize(name)
ReadEntireFile(name, read_size) == SubSeq(disk[name], 1, AlignUp(read_size))

\* The sizes of the files before each.
ComputeBeforeSize(info) ==
    LET before[i \in 1..(Len(info) + 1)] ==
            IF i = 1 THEN 0 ELSE before[i - 1] + info[i - 1].true
    IN  [i \in DOMAIN info |-> [info[i] EXCEPT !.before = before[i]]]

\* The size on disk, and the true size: what the marker says, if the files end
\* in one and it is not known, or else the size on disk.
TrueSize(f, file_size, eof_marker) ==
    IF ~eof_marker THEN file_size
    ELSE IF f.true = 0 /\ file_size > 0
    THEN file_size - MarkerValue(ReadFileOnce(f.name, file_size - Page)[Page])
    ELSE f.true

GetFileInfo(info, eof_marker) ==
    LET Sized(f) == IF f.size = 0 THEN GetFileSize(f.name) ELSE f.size
    IN  ComputeBeforeSize(
            [i \in DOMAIN info |->
                [info[i] EXCEPT !.size = Sized(info[i]),
                                !.true = TrueSize(info[i], Sized(info[i]), eof_marker)]])

=============================================================================
