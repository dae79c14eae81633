------------------------------ MODULE BlockStore ------------------------------
(***************************************************************************)
(* What a writer promises: every accepted block is written once, where the *)
(* caller asked for it or else on a place of its own, and Wait returns     *)
(* when all of them are dealt with.  A write that the system refuses is    *)
(* only reported.                                                          *)
(*                                                                         *)
(* A block may stay in memory until Wait is called: nothing is promised    *)
(* earlier.                                                                *)
(***************************************************************************)
EXTENDS Integers

CONSTANTS
    Requests,   \* [block, size, file, offset]; -1 where the caller does not care
    Places      \* [file, offset], everywhere a block may go

VARIABLES
    accepted,   \* the requests pushed so far
    stored,     \* the writes done: [request, file, offset]
    failed,     \* the requests whose write was refused
    waiting,    \* Wait was called
    done        \* and has returned

vars == <<accepted, stored, failed, waiting, done>>

\* The place the caller named.
Honours(w) ==
    /\ w.request.file # -1 => w.file = w.request.file
    /\ w.request.offset # -1 => w.offset = w.request.offset

Disjoint(a, b) ==
    \/ a.file # b.file
    \/ a.offset + a.request.size <= b.offset
    \/ b.offset + b.request.size <= a.offset

Settled == failed \cup {w.request : w \in stored}

Init ==
    /\ accepted = {} /\ stored = {} /\ failed = {}
    /\ waiting = FALSE /\ done = FALSE

Accept(r) ==
    /\ ~waiting
    /\ \A q \in accepted : q.block # r.block
    /\ accepted' = accepted \cup {r}
    /\ UNCHANGED <<stored, failed, waiting, done>>

Store(r) ==
    /\ r \in accepted \ Settled
    /\ \E p \in Places :
         LET w == [request |-> r, file |-> p.file, offset |-> p.offset]
         IN  /\ Honours(w)
             /\ \A other \in stored : Disjoint(w, other)
             /\ stored' = stored \cup {w}
    /\ UNCHANGED <<accepted, failed, waiting, done>>

Fail(r) ==
    /\ r \in accepted \ Settled
    /\ failed' = failed \cup {r}
    /\ UNCHANGED <<accepted, stored, waiting, done>>

Wait ==
    /\ ~waiting
    /\ waiting' = TRUE
    /\ UNCHANGED <<accepted, stored, failed, done>>

Finish ==
    /\ waiting
    /\ ~done
    /\ accepted = Settled
    /\ done' = TRUE
    /\ UNCHANGED <<accepted, stored, failed, waiting>>

Next ==
    \/ \E r \in Requests : Accept(r) \/ Store(r) \/ Fail(r)
    \/ Wait
    \/ Finish

SafeSpec == Init /\ [][Next]_vars

\* Only after Wait is the store obliged to get on.
Spec == SafeSpec /\ WF_vars(waiting /\ Next)

===============================================================================
