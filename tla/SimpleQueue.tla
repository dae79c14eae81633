----------------------------- MODULE SimpleQueue -----------------------------
(***************************************************************************)
(* utils/simple_queue.h: a std::queue under one mutex, with one condition  *)
(* variable for its readers and one for its writers.                       *)
(*                                                                         *)
(* All state is read and written under the mutex, so the code between two  *)
(* points where a thread releases it (a return, or a wait) is one action.  *)
(* A thread that waits on a condition variable leaves it when a notify     *)
(* picks it, or spuriously; it is then "woken" and competes for the mutex  *)
(* with every newcomer, which may find the queue first.                    *)
(***************************************************************************)
EXTENDS Naturals, Sequences, FiniteSets

CONSTANTS
    Threads,     \* the threads that share the queue
    Values,      \* what is queued
    Limits,      \* the size limits the queue can be given, 0 for none
    PollModes,   \* the kinds of timeout the callers of Poll use
    MaxLength,   \* bound of the model on an unbounded queue
    NoThread,    \* "nobody has returned from a call yet"
    NoValue      \* the default_result of Poll

ASSUME ThreadsAssumption == IsFiniteSet(Threads)
ASSUME LimitsAssumption ==
    /\ Limits \subseteq Nat
    /\ MaxLength \in Nat
    /\ \A n \in Limits : n <= MaxLength
ASSUME ModesAssumption == PollModes \subseteq {"forever", "now", "timed"}

VARIABLES
    queue,       \* the std::queue, front first
    open,        \* FALSE after Close
    size_limit,  \* 0: unbounded
    pc,          \* where each thread is
    value,       \* per thread: the argument of the Push it is in
    mode,        \* per thread: the timeout of the Poll it is in
    last,        \* the most recent call that returned, and its result
    deadlines    \* whether callers give Poll a deadline

vars == <<queue, open, size_limit, pc, value, mode, last, deadlines>>

Places == {"idle", "writer_wait", "writer_woken", "reader_wait", "reader_woken"}
Codes == {"NONE", "PUSHED", "SUCCESS", "TIMEOUT", "FINISH"}

At(place) == {t \in Threads : pc[t] = place}

\* No thread is inside a call.
Quiescent == \A t \in Threads : pc[t] = "idle"

Init ==
    /\ queue = <<>>
    /\ open = TRUE
    /\ size_limit \in Limits
    /\ pc = [t \in Threads |-> "idle"]
    /\ value = [t \in Threads |-> NoValue]
    /\ mode = [t \in Threads |-> "now"]
    /\ last = [by |-> NoThread, code |-> "NONE", value |-> NoValue]
    /\ deadlines \in BOOLEAN

Full == size_limit > 0 /\ Len(queue) >= size_limit

\* t leaves its call.
Return(t, code, v) ==
    last' = [by |-> t, code |-> code, value |-> v]

\* Mutant: the notify is forgotten.
LeaveWithoutNotify(t, waiting, woken) == pc' = [pc EXCEPT ![t] = "idle"]

\* t leaves, and notify_one moves one waiting thread, if there is one, out of
\* the wait set of a condition variable.
LeaveAndNotifyOne(t, waiting, woken) ==
    \/ /\ At(waiting) = {}
       /\ pc' = [pc EXCEPT ![t] = "idle"]
    \/ \E w \in At(waiting) : pc' = [pc EXCEPT ![t] = "idle", ![w] = woken]

Leave(t) == pc' = [pc EXCEPT ![t] = "idle"]

-----------------------------------------------------------------------------
(* Push.  It never looks at open.                                          *)

WaitForRoom(t, v) ==
    /\ Full
    /\ pc' = [pc EXCEPT ![t] = "writer_wait"]
    /\ value' = [value EXCEPT ![t] = v]
    /\ UNCHANGED <<queue, last>>

\* Mutant: the value of an earlier call is pushed.
EnqueueStale(t, v) ==
    /\ ~Full
    /\ Len(queue) < MaxLength
    /\ queue' = Append(queue, value[t])
    /\ LeaveAndNotifyOne(t, "reader_wait", "reader_woken")
    /\ value' = [value EXCEPT ![t] = NoValue]
    /\ Return(t, "PUSHED", v)

Enqueue(t, v) ==
    /\ ~Full
    /\ Len(queue) < MaxLength
    /\ queue' = Append(queue, v)
    /\ LeaveAndNotifyOne(t, "reader_wait", "reader_woken")
    /\ value' = [value EXCEPT ![t] = NoValue]
    /\ Return(t, "PUSHED", v)

\* Mutant: an if in place of the while, so a woken writer does not look again.
PushBodyIf(t, v) ==
    /\ \/ pc[t] = "idle" /\ WaitForRoom(t, v)
       \/ /\ pc[t] = "writer_woken" \/ ~Full
          /\ Len(queue) < MaxLength
          /\ queue' = Append(queue, v)
          /\ LeaveAndNotifyOne(t, "reader_wait", "reader_woken")
          /\ value' = [value EXCEPT ![t] = NoValue]
          /\ Return(t, "PUSHED", v)
    /\ UNCHANGED <<open, size_limit, mode, deadlines>>

PushBody(t, v) ==
    /\ WaitForRoom(t, v) \/ Enqueue(t, v)
    /\ UNCHANGED <<open, size_limit, mode, deadlines>>

Push(t) == pc[t] = "idle" /\ \E v \in Values : PushBody(t, v)

RetryPush(t) == pc[t] = "writer_woken" /\ PushBody(t, value[t])

-----------------------------------------------------------------------------
(* Poll                                                                    *)

Dequeue(t) ==
    /\ queue # <<>>
    /\ queue' = Tail(queue)
    /\ IF size_limit > 0
       THEN LeaveAndNotifyOne(t, "writer_wait", "writer_woken")
       ELSE Leave(t)
    /\ mode' = [mode EXCEPT ![t] = "now"]
    /\ Return(t, "SUCCESS", Head(queue))

\* Mutant: a closed queue reports FINISH before it is drained.
PollClosedEarly(t) ==
    /\ ~open
    /\ Leave(t)
    /\ mode' = [mode EXCEPT ![t] = "now"]
    /\ Return(t, "FINISH", NoValue)
    /\ UNCHANGED queue

PollClosed(t) ==
    /\ queue = <<>>
    /\ ~open
    /\ Leave(t)
    /\ mode' = [mode EXCEPT ![t] = "now"]
    /\ Return(t, "FINISH", NoValue)
    /\ UNCHANGED queue

PollEmpty(t, m) ==
    /\ queue = <<>>
    /\ open
    /\ \/ /\ m = "now"
          /\ Leave(t)
          /\ mode' = [mode EXCEPT ![t] = "now"]
          /\ Return(t, "TIMEOUT", NoValue)
       \/ /\ m # "now"
          /\ pc' = [pc EXCEPT ![t] = "reader_wait"]
          /\ mode' = [mode EXCEPT ![t] = m]
          /\ UNCHANGED last
    /\ UNCHANGED queue

PollBody(t, m) ==
    /\ Dequeue(t) \/ PollClosed(t) \/ PollEmpty(t, m)
    /\ UNCHANGED <<open, size_limit, value, deadlines>>

Modes == IF deadlines THEN PollModes ELSE PollModes \ {"timed"}

Poll(t) == pc[t] = "idle" /\ \E m \in Modes : PollBody(t, m)

RetryPoll(t) == pc[t] = "reader_woken" /\ PollBody(t, mode[t])

\* wait_for reports a timeout when the clock has passed the deadline, whether
\* or not a notify took the thread out of the wait set before; Poll then
\* returns without looking at the queue again.
Expire(t) ==
    /\ pc[t] \in {"reader_wait", "reader_woken"}
    /\ mode[t] = "timed"
    /\ Leave(t)
    /\ mode' = [mode EXCEPT ![t] = "now"]
    /\ Return(t, "TIMEOUT", NoValue)
    /\ UNCHANGED <<queue, open, size_limit, value, deadlines>>

-----------------------------------------------------------------------------
(* Close wakes the readers only; Reopen and SetSizeLimit are called by     *)
(* UnorderedFileReader::Reset and Start, between two uses of the queue.    *)

\* Mutant: only one reader is woken.
CloseNotifyOne ==
    /\ open' = FALSE
    /\ \/ At("reader_wait") = {} /\ UNCHANGED pc
       \/ \E w \in At("reader_wait") : pc' = [pc EXCEPT ![w] = "reader_woken"]
    /\ UNCHANGED <<queue, size_limit, value, mode, last, deadlines>>

Close ==
    /\ open' = FALSE
    /\ pc' = [t \in Threads |->
                IF pc[t] = "reader_wait" THEN "reader_woken" ELSE pc[t]]
    /\ UNCHANGED <<queue, size_limit, value, mode, last, deadlines>>

\* The CHECK aborts the process when the queue still holds something.
Reopen ==
    /\ Quiescent
    /\ queue = <<>>
    /\ open' = TRUE
    /\ UNCHANGED <<queue, size_limit, pc, value, mode, last, deadlines>>

\* Start sets the limit of a queue that is new or has just been reopened.
SetSizeLimit ==
    /\ Quiescent
    /\ queue = <<>>
    /\ size_limit' \in Limits
    /\ UNCHANGED <<queue, open, pc, value, mode, last, deadlines>>

\* std::condition_variable::wait may return without a notify.
SpuriousWakeup(t) ==
    /\ \/ /\ pc[t] = "reader_wait"
          /\ pc' = [pc EXCEPT ![t] = "reader_woken"]
       \/ /\ pc[t] = "writer_wait"
          /\ pc' = [pc EXCEPT ![t] = "writer_woken"]
    /\ UNCHANGED <<queue, open, size_limit, value, mode, last, deadlines>>

-----------------------------------------------------------------------------
Next ==
    \/ \E t \in Threads : \/ Push(t) \/ RetryPush(t)
                          \/ Poll(t) \/ RetryPoll(t)
                          \/ Expire(t) \/ SpuriousWakeup(t)
    \/ Close
    \/ Reopen
    \/ SetSizeLimit

SafeSpec == Init /\ [][Next]_vars

\* A woken thread gets the mutex in the end: every critical section is finite.
\* Nobody is obliged to call anything, and no wakeup is spurious by right.
Spec ==
    /\ SafeSpec
    /\ \A t \in Threads : WF_vars(RetryPush(t)) /\ WF_vars(RetryPoll(t))

-----------------------------------------------------------------------------
(* Properties                                                              *)

\* Every variable holds a value of its type.
TypeOK ==
    /\ queue \in Seq(Values)
    /\ open \in BOOLEAN
    /\ size_limit \in Limits
    /\ pc \in [Threads -> Places]
    /\ value \in [Threads -> Values \cup {NoValue}]
    /\ mode \in [Threads -> {"forever", "now", "timed"}]
    /\ last \in [by : Threads \cup {NoThread}, code : Codes,
                 value : Values \cup {NoValue}]
    /\ deadlines \in BOOLEAN

\* No reader sleeps on data nobody is coming for: as long as one waits, at
\* least as many readers are on their way as there are items.  It fails when
\* a notified reader can leave without looking, so it is claimed only for the
\* two timeouts the code uses (simple_queue.h lines 30 and 39-48).
NoReaderSleepsOnData ==
    ~deadlines /\ At("reader_wait") # {}
        => Len(queue) <= Cardinality(At("reader_woken"))

\* No writer sleeps on room nobody is coming for: as long as one waits, at
\* least as many writers are on their way as there are free places
\* (simple_queue.h lines 26-28 and 53-55).
NoWriterSleepsOnRoom ==
    At("writer_wait") # {}
        => size_limit <= Len(queue) + Cardinality(At("writer_woken"))

\* Nobody waits for data that cannot be announced: once the queue is closed no
\* reader is left in the wait set (simple_queue.h lines 36 and 62).
NoReaderSleepsOnClosed == ~open => At("reader_wait") = {}

\* With a limit, the queue never outgrows it, whatever the order in which
\* woken writers and newcomers get the mutex.
WithinLimit == size_limit > 0 => Len(queue) <= size_limit

-----------------------------------------------------------------------------
(* Refinement of the abstract queue.                                       *)

Pending ==
    [t \in Threads |->
        CASE pc[t] = "idle" -> "none"
          [] pc[t] \in {"writer_wait", "writer_woken"} -> "push"
          [] OTHER -> "poll"]

Abstract ==
    INSTANCE ClosableQueue
        WITH items <- queue, limit <- size_limit, pending <- Pending

\* Every behaviour is one of the abstract queue: what is pushed is polled once
\* and in order, and FINISH is returned only by a closed and drained queue
\* (simple_queue.h lines 24-71).
ImplementsQueueSafely == Abstract!SafeSpec

\* And when no caller gives Poll a deadline, as none in the repository does,
\* blocked calls complete (simple_queue.h lines 26-30, 36-47 and 53-62).
ImplementsQueue == Abstract!SafeSpec /\ (~deadlines => Abstract!Progress)

=============================================================================
