----------------------------- MODULE SequenceOps -----------------------------
(***************************************************************************)
(* What the primitives promise of an external sequence: a call             *)
(* that ends, and whose value depends on the elements of the sequence and  *)
(* not on the chunks, files and tasks they are spread over.  The sequence  *)
(* a call returns can be the input of the next call of the job.            *)
(***************************************************************************)
EXTENDS Integers, Sequences, SequencesExt

VARIABLES
    job,        \* the calls to make, the one under way first
    input,      \* the elements of the sequence, in order
    kept,       \* the elements that satisfy the predicate
    whole,      \* every chunk but the last is full
    done,
    value       \* the sequence that the call returned; of find_if, one position

vars == <<job, input, kept, whole, done, value>>

Image(e) == -(e + 1)
Sum(seq) ==
    LET sum[k \in 0..Len(seq)] == IF k = 0 THEN 0 ELSE sum[k - 1] + seq[k]
    IN  sum[Len(seq)]
Prime(k) == k >= 2 /\ \A d \in 2..(k - 1) : k % d # 0

\* The position of the first element in set, or the length if there is none.
FirstIn(seq, set) ==
    LET hits == {i \in DOMAIN seq : seq[i] \in set}
    IN  IF hits = {} THEN Len(seq) ELSE (CHOOSE i \in hits : \A j \in hits : i <= j) - 1

\* Reduce and the permutations may take the elements in any order; find_if needs whole
\* chunks.  Flag number i of a sieve stands for the number i - 1.
Correct(v) ==
    CASE job[1] \in {"iota", "write_iota"} -> v = [i \in DOMAIN input |-> i - 1]
      [] job[1] = "bool" -> v = [i \in DOMAIN input |-> 1]
      [] job[1] = "sieve" -> v = SelectSeq([i \in DOMAIN input |-> i - 1], Prime)
      [] job[1] \in {"filter", "engine_filter"} ->
            v = SelectSeq(input, LAMBDA e : e \in kept)
      [] job[1] \in {"map", "engine_map"} -> v = [i \in DOMAIN input |-> Image(input[i])]
      [] job[1] = "scan" -> v = [i \in DOMAIN input |-> Sum(SubSeq(input, 1, i - 1))]
      [] job[1] = "sort" -> v = SortSeq(input, LAMBDA a, b : a < b)
      [] job[1] \in {"reduce", "shuffle", "permute"} ->
            /\ Len(v) = Len(input)
            /\ \A e \in ToSet(input) \cup ToSet(v) :
                 Len(SelectSeq(v, LAMBDA x : x = e)) = Len(SelectSeq(input, LAMBDA x : x = e))
      [] job[1] = "random_read" -> ToSet(v) \subseteq ToSet(input)
      [] job[1] = "find_if" -> whole => v = <<FirstIn(input, kept)>>

Init == ~done

Return ==
    /\ ~done
    /\ done' = TRUE
    /\ Correct(value')
    /\ UNCHANGED <<job, input, kept, whole>>

\* What one call returned is what the next one is called with.
Continue ==
    /\ done
    /\ Len(job) > 1
    /\ done' = FALSE
    /\ job' = Tail(job)
    /\ input' = value
    /\ UNCHANGED kept

Spec == Init /\ [][Return \/ Continue]_vars /\ <>(done /\ Len(job) = 1)

=============================================================================
