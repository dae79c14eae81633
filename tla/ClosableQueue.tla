---------------------------- MODULE ClosableQueue ----------------------------
(***************************************************************************)
(* What utils/simple_queue.h promises its callers: a first-in first-out    *)
(* queue that many threads share, bounded when limit > 0, that can be      *)
(* closed and reused.  A call either takes effect in one step or is        *)
(* pending; there are no condition variables, no wait sets and no notify   *)
(* calls here.  The other modules of the project use queues at this level, *)
(* and SimpleQueue is shown to implement this specification.               *)
(***************************************************************************)
EXTENDS Naturals, Sequences

CONSTANTS
    Threads,     \* the threads that share the queue
    Values,      \* what is queued
    Limits,      \* the size limits the queue can be given, 0 for none
    MaxLength,   \* bound of the model on an unbounded queue
    NoThread,    \* "nobody has returned from a call yet"
    NoValue      \* the default_result of Poll

VARIABLES
    items,       \* the queued values, oldest first
    open,        \* FALSE after Close
    limit,       \* the current size limit
    pending,     \* per thread: "none", or the call it is blocked in
    last         \* the most recent call that returned, and its result

vars == <<items, open, limit, pending, last>>

Full == limit > 0 /\ Len(items) >= limit

Returned(t, code, v) == last' = [by |-> t, code |-> code, value |-> v]

Init ==
    /\ items = <<>>
    /\ open = TRUE
    /\ limit \in Limits
    /\ pending = [t \in Threads |-> "none"]
    /\ last = [by |-> NoThread, code |-> "NONE", value |-> NoValue]

Put(t) ==
    /\ pending[t] \in {"none", "push"}
    /\ ~Full
    /\ Len(items) < MaxLength
    /\ \E v \in Values : /\ items' = Append(items, v)
                         /\ Returned(t, "PUSHED", v)
    /\ pending' = [pending EXCEPT ![t] = "none"]
    /\ UNCHANGED <<open, limit>>

\* A push blocks only on a full queue; closing the queue does not stop it.
BlockPut(t) ==
    /\ pending[t] = "none"
    /\ Full
    /\ pending' = [pending EXCEPT ![t] = "push"]
    /\ UNCHANGED <<items, open, limit, last>>

Take(t) ==
    /\ pending[t] \in {"none", "poll"}
    /\ items # <<>>
    /\ items' = Tail(items)
    /\ Returned(t, "SUCCESS", Head(items))
    /\ pending' = [pending EXCEPT ![t] = "none"]
    /\ UNCHANGED <<open, limit>>

\* A closed queue first hands out what it still holds.
Finish(t) ==
    /\ pending[t] \in {"none", "poll"}
    /\ items = <<>>
    /\ ~open
    /\ Returned(t, "FINISH", NoValue)
    /\ pending' = [pending EXCEPT ![t] = "none"]
    /\ UNCHANGED <<items, open, limit>>

\* A poll with a deadline may give up; one that never blocked gives up only
\* on an open queue that is empty.
GiveUp(t) ==
    /\ \/ pending[t] = "poll"
       \/ pending[t] = "none" /\ open /\ items = <<>>
    /\ Returned(t, "TIMEOUT", NoValue)
    /\ pending' = [pending EXCEPT ![t] = "none"]
    /\ UNCHANGED <<items, open, limit>>

BlockTake(t) ==
    /\ pending[t] = "none"
    /\ items = <<>>
    /\ open
    /\ pending' = [pending EXCEPT ![t] = "poll"]
    /\ UNCHANGED <<items, open, limit, last>>

Close ==
    /\ open' = FALSE
    /\ UNCHANGED <<items, limit, pending, last>>

Reopen ==
    /\ items = <<>>
    /\ \A t \in Threads : pending[t] = "none"
    /\ open' = TRUE
    /\ UNCHANGED <<items, limit, pending, last>>

SetLimit ==
    /\ items = <<>>
    /\ \A t \in Threads : pending[t] = "none"
    /\ limit' \in Limits
    /\ UNCHANGED <<items, open, pending, last>>

Next ==
    \/ \E t \in Threads : \/ Put(t) \/ BlockPut(t)
                          \/ Take(t) \/ Finish(t) \/ GiveUp(t) \/ BlockTake(t)
    \/ Close
    \/ Reopen
    \/ SetLimit

SafeSpec == Init /\ [][Next]_vars

BlockedPut == \E t \in Threads : pending[t] = "push" /\ Put(t)
BlockedTake == \E t \in Threads : pending[t] = "poll" /\ Take(t)
BlockedFinish(t) == pending[t] = "poll" /\ Finish(t)

(***************************************************************************)
(* Some blocked push gets in while there is room, some blocked poll is     *)
(* served while there is data, and every poll blocked on a drained, closed *)
(* queue is told so.  No single thread is promised its turn: a newcomer    *)
(* may overtake it.                                                        *)
(***************************************************************************)
Progress ==
    /\ WF_vars(BlockedPut)
    /\ WF_vars(BlockedTake)
    /\ \A t \in Threads : WF_vars(BlockedFinish(t))

Spec == SafeSpec /\ Progress

=============================================================================
