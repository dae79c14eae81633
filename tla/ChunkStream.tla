----------------------------- MODULE ChunkStream -----------------------------
(***************************************************************************)
(* What a reader promises its consumers (the comment on Poll in            *)
(* utils/unordered_file_reader.h): every chunk that was asked for is       *)
(* handed to exactly one of them, in no particular order, and a consumer   *)
(* is told the stream has ended only when nothing is left to hand out.     *)
(***************************************************************************)
EXTENDS Naturals

CONSTANTS
    Chunks,      \* everything that could be read
    Consumers    \* the threads that call Poll

VARIABLES
    wanted,      \* the chunks this use of the stream is asked for
    got,         \* the ones already handed out
    told         \* the consumers that have seen the end

vars == <<wanted, got, told>>

Init == wanted = {} /\ got = {} /\ told = {}

\* A new use, the first or the next, once the previous one is over.
Begin(request) ==
    /\ got = wanted
    /\ wanted' = request
    /\ got' = {}
    /\ told' = {}

Deliver(c) ==
    /\ c \notin told
    /\ \E chunk \in wanted \ got : got' = got \cup {chunk}
    /\ UNCHANGED <<wanted, told>>

TellEnd(c) ==
    /\ got = wanted
    /\ told' = told \cup {c}
    /\ UNCHANGED <<wanted, got>>

Next ==
    \/ \E request \in SUBSET Chunks : Begin(request)
    \/ \E c \in Consumers : Deliver(c) \/ TellEnd(c)

SafeSpec == Init /\ [][Next]_vars

\* Everything asked for is handed out in the end.
Spec ==
    /\ SafeSpec
    /\ WF_vars(\E c \in Consumers : Deliver(c))

=============================================================================
