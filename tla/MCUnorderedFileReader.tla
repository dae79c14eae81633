------------------------ MODULE MCUnorderedFileReader ------------------------
(***************************************************************************)
(* Instances of UnorderedFileReader for TLC.                               *)
(***************************************************************************)
EXTENDS UnorderedFileReader

\* Fewer files than workers, one of them with more chunks than requests.
FewFiles == <<3, 1>>

\* More files than workers: worker 0 goes round between files 1 and 3.
ManyFiles == <<2, 1, 2>>

=============================================================================
