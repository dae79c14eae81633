--------------------------- MODULE ReaderAllocator ---------------------------
(***************************************************************************)
(* ReaderAllocator, the buffer pool of the readers                         *)
(* (utils/unordered_file_reader.h): a free list under one mutex and, under *)
(* another, its growth by a batch when it runs low.  The size test before  *)
(* growing reads the list without its mutex.                               *)
(***************************************************************************)
EXTENDS Naturals, Sequences, FiniteSets

CONSTANTS
    Threads,     \* workers that allocate and consumers that free
    Initial,     \* INITIAL_BUFFER_COUNT
    Batch,       \* ALLOCATION_BUFFERS
    Threshold,   \* ALLOCATION_THRESHOLD
    MaxHeld,     \* bound of the model on what one thread holds
    MaxBuffers,  \* bound of the model on the memory
    Nobody       \* a mutex that is not held

ASSUME PoolAssumption ==
    /\ IsFiniteSet(Threads) /\ Nobody \notin Threads
    /\ {Initial, Batch, MaxHeld, MaxBuffers} \subseteq Nat \ {0}
    /\ Threshold \in Nat
    /\ MaxBuffers >= Initial

VARIABLES
    free_list,        \* the free buffers, the next one to hand out last
    allocated,        \* buffers 1..allocated were carved out of allocations
    free_list_lock,   \* who holds it
    allocation_lock,  \* who holds it
    pc,               \* per thread: where it is
    held,             \* per thread: the buffers it owns
    freeing           \* per thread: the buffer it is about to free, 0 for none

vars == <<free_list, allocated, free_list_lock, allocation_lock, pc, held, freeing>>

Init ==
    /\ free_list = [i \in 1..Initial |-> i]
    /\ allocated = Initial
    /\ free_list_lock = Nobody
    /\ allocation_lock = Nobody
    /\ pc = [t \in Threads |-> "idle"]
    /\ held = [t \in Threads |-> {}]
    /\ freeing = [t \in Threads |-> 0]

Goto(t, place) == pc' = [pc EXCEPT ![t] = place]

-----------------------------------------------------------------------------
(* Alloc                                                                   *)

CallAlloc(t) ==
    /\ pc[t] = "idle"
    /\ Cardinality(held[t]) < MaxHeld
    /\ Goto(t, "alloc")
    /\ UNCHANGED <<free_list, allocated, free_list_lock, allocation_lock, held,
                   freeing>>

LockList(t, from, to) ==
    /\ pc[t] = from
    /\ free_list_lock = Nobody
    /\ free_list_lock' = t
    /\ Goto(t, to)
    /\ UNCHANGED <<free_list, allocated, allocation_lock, held, freeing>>

\* Mutant: the buffer is handed out and stays on the list.
PopBackKeeping(t) ==
    /\ free_list # <<>>
    /\ held' = [held EXCEPT ![t] = @ \cup {free_list[Len(free_list)]}]
    /\ Goto(t, "idle")
    /\ UNCHANGED free_list

PopBack(t) ==
    /\ free_list # <<>>
    /\ held' = [held EXCEPT ![t] = @ \cup {free_list[Len(free_list)]}]
    /\ free_list' = SubSeq(free_list, 1, Len(free_list) - 1)
    /\ Goto(t, "idle")

TakeFree(t) ==
    /\ pc[t] = "have_list"
    /\ \/ PopBack(t)
       \/ free_list = <<>> /\ Goto(t, "grow") /\ UNCHANGED <<held, free_list>>
    /\ free_list_lock' = Nobody
    /\ UNCHANGED <<allocated, allocation_lock, freeing>>

-----------------------------------------------------------------------------
(* AllocateMoreMemory                                                      *)

LockAllocation(t) ==
    /\ pc[t] = "grow"
    /\ allocation_lock = Nobody
    /\ allocation_lock' = t
    /\ Goto(t, "check_size")
    /\ UNCHANGED <<free_list, allocated, free_list_lock, held, freeing>>

\* Some thread is writing to the list.
ListChanging ==
    \E t \in Threads : \/ pc[t] \in {"adding", "freeing"}
                       \/ pc[t] = "have_list" /\ free_list # <<>>

\* Mutant: the comparison is the wrong way round.
EnoughWhenLow ==
    IF ListChanging THEN BOOLEAN ELSE {Len(free_list) <= Threshold}

\* What free_list.size() > ALLOCATION_THRESHOLD can say: anything, while
\* another thread is changing the list.
EnoughFree ==
    IF ListChanging THEN BOOLEAN ELSE {Len(free_list) > Threshold}

CheckSize(t) ==
    /\ pc[t] = "check_size"
    /\ \E enough \in EnoughFree :
         \/ /\ enough
            /\ allocation_lock' = Nobody
            /\ Goto(t, "alloc")
         \/ /\ ~enough
            /\ allocated + Batch <= MaxBuffers
            /\ Goto(t, "add")
            /\ UNCHANGED allocation_lock
    /\ UNCHANGED <<free_list, allocated, free_list_lock, held, freeing>>

\* Mutant: the batch starts one buffer too far.
NewBuffersShifted == [i \in 1..Batch |-> allocated + i + 1]

NewBuffers == [i \in 1..Batch |-> allocated + i]

AddBuffers(t) ==
    /\ pc[t] = "adding"
    /\ free_list' = free_list \o NewBuffers
    /\ allocated' = allocated + Batch
    /\ free_list_lock' = Nobody
    /\ allocation_lock' = Nobody
    /\ Goto(t, "alloc")
    /\ UNCHANGED <<held, freeing>>

-----------------------------------------------------------------------------
(* Free, of a buffer the caller owns.                                      *)

CallFree(t) ==
    /\ pc[t] = "idle"
    /\ \E b \in held[t] : /\ held' = [held EXCEPT ![t] = @ \ {b}]
                          /\ freeing' = [freeing EXCEPT ![t] = b]
    /\ Goto(t, "free")
    /\ UNCHANGED <<free_list, allocated, free_list_lock, allocation_lock>>

PushBack(t) ==
    /\ pc[t] = "freeing"
    /\ free_list' = Append(free_list, freeing[t])
    /\ freeing' = [freeing EXCEPT ![t] = 0]
    /\ free_list_lock' = Nobody
    /\ Goto(t, "idle")
    /\ UNCHANGED <<allocated, allocation_lock, held>>

\* A reader hands a buffer to its consumer through the buffer queue.
HandOver(t, u) ==
    /\ t # u
    /\ pc[t] = "idle" /\ pc[u] = "idle"
    /\ Cardinality(held[u]) < MaxHeld
    /\ \E b \in held[t] :
         held' = [held EXCEPT ![t] = @ \ {b}, ![u] = @ \cup {b}]
    /\ UNCHANGED <<free_list, allocated, free_list_lock, allocation_lock, pc,
                   freeing>>

-----------------------------------------------------------------------------
Locking(t) ==
    \/ LockList(t, "alloc", "have_list")
    \/ LockList(t, "add", "adding")
    \/ LockList(t, "free", "freeing")
    \/ LockAllocation(t)

Working(t) == TakeFree(t) \/ CheckSize(t) \/ AddBuffers(t) \/ PushBack(t)

Calling(t) == CallAlloc(t) \/ CallFree(t) \/ \E u \in Threads : HandOver(t, u)

Next == \E t \in Threads : Calling(t) \/ Locking(t) \/ Working(t)

\* A thread that wants a mutex that keeps being released gets it in the end;
\* a thread that holds one goes on.
Spec ==
    /\ Init
    /\ [][Next]_vars
    /\ \A t \in Threads : SF_vars(Locking(t)) /\ WF_vars(Working(t))

-----------------------------------------------------------------------------
(* Properties                                                              *)

\* Every variable holds a value of its type.
TypeOK ==
    /\ free_list \in Seq(1..MaxBuffers)
    /\ allocated \in 1..MaxBuffers
    /\ free_list_lock \in Threads \cup {Nobody}
    /\ allocation_lock \in Threads \cup {Nobody}
    /\ pc \in [Threads -> {"idle", "alloc", "have_list", "grow", "check_size",
                           "add", "adding", "free", "freeing"}]
    /\ held \in [Threads -> SUBSET (1..MaxBuffers)]
    /\ freeing \in [Threads -> 0..MaxBuffers]

\* Every buffer ever carved out has exactly one place: once on the free list,
\* with one thread, or on its way back.  Two reads never share a buffer and
\* none leaks, whatever the racy size test says
\* (unordered_file_reader.h lines 79-113).
OneOwner ==
    \A b \in 1..allocated :
        Cardinality({<<"list", i>> : i \in {j \in 1..Len(free_list) : free_list[j] = b}}
              \cup {<<"held", t>> : t \in {u \in Threads : b \in held[u]}}
              \cup {<<"freeing", t>> : t \in {u \in Threads : freeing[u] = b}}) = 1

\* As long as somebody is in Alloc, some call of Alloc finds a buffer.  One
\* thread may starve while the others allocate and free, but they are not all
\* sent round between an empty list, a size test that says there is enough,
\* and the empty list again (unordered_file_reader.h lines 79-108).
AllocProgress ==
    (\E t \in Threads : pc[t] = "alloc")
        ~> (\E t \in Threads : pc[t] = "have_list" /\ free_list # <<>>)

=============================================================================
