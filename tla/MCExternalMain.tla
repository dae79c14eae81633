--------------------------- MODULE MCExternalMain ----------------------------
(***************************************************************************)
(* The jobs for ExternalMain: each primitive that reads its input, and the *)
(* passes of one over what another returned.                               *)
(***************************************************************************)
EXTENDS ExternalMain

MCJobs ==
    {<<"filter">>, <<"engine_filter">>, <<"map">>, <<"engine_map">>, <<"reduce">>,
     <<"find_if">>, <<"filter", "reduce">>, <<"shuffle">>}

MCPartialJobs == {<<"filter", "find_if">>}

=============================================================================
