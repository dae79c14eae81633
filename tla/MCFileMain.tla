----------------------------- MODULE MCFileMain ------------------------------
(***************************************************************************)
(* The jobs for FileMain: each call, and those that read what map wrote.   *)
(***************************************************************************)
EXTENDS FileMain

MCJobs ==
    {<<"map">>, <<"reduce">>, <<"filter">>, <<"scan">>, <<"map", "reduce">>, <<"map", "scan">>, <<"permute">>}

\* The same number, numbers that differ, numbers that come back.
MCRandoms == {[k \in 0..32 |-> m * k + 1] : m \in {0, 1, 3}}

\* A few reads at positions that are the same, differ, or come back; and so many that
\* buffers run out.
MCDraws == {[k \in 1..7 |-> m * k + 1] : m \in {0, 1, 3}} \cup {[k \in 1..13 |-> 1]}

=============================================================================
