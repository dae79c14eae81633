-------------------------- MODULE SimpleQueueProofs --------------------------
(***************************************************************************)
(* SimpleQueue for every set of threads, values and limits: types, no lost *)
(* wakeup, and every step is a step of the abstract queue.                 *)
(***************************************************************************)
EXTENDS SimpleQueue, FiniteSetTheorems, TLAPS

\* A blocked push remembers what it pushes, a blocked poll that it may block.
ArgumentsKept ==
    \A t \in Threads :
        /\ pc[t] \in {"writer_wait", "writer_woken"} => value[t] \in Values
        /\ pc[t] \in {"reader_wait", "reader_woken"}
               => /\ mode[t] \in PollModes \ {"now"}
                  /\ mode[t] = "timed" => deadlines

TypeInv == TypeOK /\ ArgumentsKept

-----------------------------------------------------------------------------
(* Types                                                                   *)

\* A step that leaves a call keeps the places of all threads.
LEMMA LeaveAndNotifyOneType ==
    ASSUME NEW t \in Threads, NEW waiting \in Places, NEW woken \in Places,
           pc \in [Threads -> Places],
           LeaveAndNotifyOne(t, waiting, woken)
    PROVE  pc' \in [Threads -> Places]
BY DEF LeaveAndNotifyOne, At, Places

\* The initial state is well typed.
LEMMA TypeInvInit == Init => TypeInv
BY LimitsAssumption
   DEF Init, TypeInv, TypeOK, ArgumentsKept, Places, Codes

\* A Push, from outside or after a wait, keeps the types.
LEMMA TypeInvPush ==
    ASSUME TypeInv, NEW t \in Threads, NEW v \in Values,
           pc[t] \in {"idle", "writer_woken"}, PushBody(t, v)
    PROVE  TypeInv'
<1>1. CASE WaitForRoom(t, v)
  BY <1>1 DEF WaitForRoom, PushBody, TypeInv, TypeOK, ArgumentsKept, Places
<1>2. CASE Enqueue(t, v)
  <2>1. pc' \in [Threads -> Places]
    BY <1>2, LeaveAndNotifyOneType
       DEF Enqueue, TypeInv, TypeOK, Places
  <2>2. queue' \in Seq(Values)
    BY <1>2 DEF Enqueue, TypeInv, TypeOK
  <2>3. last' \in [by : Threads \cup {NoThread}, code : Codes,
                   value : Values \cup {NoValue}]
    BY <1>2 DEF Enqueue, Return, Codes
  <2>4. value' = [value EXCEPT ![t] = NoValue]
    BY <1>2 DEF Enqueue
  <2>5. TypeOK'
    BY <2>1, <2>2, <2>3, <2>4 DEF PushBody, TypeInv, TypeOK
  <2>6. ArgumentsKept'
    BY <1>2, <2>4 DEF Enqueue, LeaveAndNotifyOne, At, PushBody, TypeInv, TypeOK,
                      ArgumentsKept, Places
  <2> QED BY <2>5, <2>6 DEF TypeInv
<1> QED BY <1>1, <1>2 DEF PushBody

\* A Poll, from outside or after a wait, keeps the types.
LEMMA TypeInvPoll ==
    ASSUME TypeInv, NEW t \in Threads, NEW m \in PollModes,
           m = "timed" => deadlines,
           pc[t] \in {"idle", "reader_woken"}, PollBody(t, m)
    PROVE  TypeInv'
<1> USE ModesAssumption
<1>1. CASE Dequeue(t)
  <2>1. Head(queue) \in Values /\ queue' \in Seq(Values)
    BY <1>1 DEF Dequeue, TypeInv, TypeOK
  <2>2. pc' \in [Threads -> Places]
    <3> "writer_wait" \in Places /\ "writer_woken" \in Places /\ "idle" \in Places
      BY DEF Places
    <3>1. CASE size_limit > 0
      BY <1>1, <3>1, LeaveAndNotifyOneType DEF Dequeue, TypeInv, TypeOK
    <3>2. CASE ~(size_limit > 0)
      BY <1>1, <3>2 DEF Dequeue, Leave, TypeInv, TypeOK
    <3> QED BY <3>1, <3>2
  <2>3. last' \in [by : Threads \cup {NoThread}, code : Codes,
                   value : Values \cup {NoValue}]
    BY <1>1, <2>1 DEF Dequeue, Return, Codes
  <2>4. mode' = [mode EXCEPT ![t] = "now"]
    BY <1>1 DEF Dequeue
  <2>5. TypeOK'
    BY <2>1, <2>2, <2>3, <2>4 DEF PollBody, TypeInv, TypeOK
  <2>6. ArgumentsKept'
    BY <1>1, <2>4 DEF Dequeue, LeaveAndNotifyOne, Leave, At, PollBody, TypeInv,
                      TypeOK, ArgumentsKept, Places
  <2> QED BY <2>5, <2>6 DEF TypeInv
<1>2. CASE PollClosed(t)
  BY <1>2 DEF PollClosed, Leave, Return, PollBody, TypeInv, TypeOK,
              ArgumentsKept, Places, Codes
<1>3. CASE PollEmpty(t, m)
  BY <1>3 DEF PollEmpty, Leave, Return, PollBody, TypeInv, TypeOK,
              ArgumentsKept, Places, Codes
<1> QED BY <1>1, <1>2, <1>3 DEF PollBody

\* Every step keeps the types.
LEMMA TypeInvNext == TypeInv /\ [Next]_vars => TypeInv'
<1> SUFFICES ASSUME TypeInv, [Next]_vars PROVE TypeInv'
  OBVIOUS
<1>1. ASSUME NEW t \in Threads, Push(t) PROVE TypeInv'
  BY <1>1, TypeInvPush DEF Push
<1>2. ASSUME NEW t \in Threads, RetryPush(t) PROVE TypeInv'
  BY <1>2, TypeInvPush DEF RetryPush, TypeInv, ArgumentsKept
<1>3. ASSUME NEW t \in Threads, Poll(t) PROVE TypeInv'
  BY <1>3, TypeInvPoll DEF Poll, Modes
<1>4. ASSUME NEW t \in Threads, RetryPoll(t) PROVE TypeInv'
  BY <1>4, TypeInvPoll DEF RetryPoll, TypeInv, ArgumentsKept
<1>5. ASSUME NEW t \in Threads, Expire(t) PROVE TypeInv'
  BY <1>5 DEF Expire, Leave, Return, TypeInv, TypeOK, ArgumentsKept, Places,
              Codes
<1>6. ASSUME NEW t \in Threads, SpuriousWakeup(t) PROVE TypeInv'
  BY <1>6 DEF SpuriousWakeup, TypeInv, TypeOK, ArgumentsKept, Places
<1>7. CASE Close
  BY <1>7 DEF Close, TypeInv, TypeOK, ArgumentsKept, Places
<1>8. CASE Reopen
  BY <1>8 DEF Reopen, TypeInv, TypeOK, ArgumentsKept
<1>9. CASE SetSizeLimit
  BY <1>9 DEF SetSizeLimit, TypeInv, TypeOK, ArgumentsKept
<1>10. CASE UNCHANGED vars
  BY <1>10 DEF vars, TypeInv, TypeOK, ArgumentsKept
<1> QED
  BY <1>1, <1>2, <1>3, <1>4, <1>5, <1>6, <1>7, <1>8, <1>9, <1>10 DEF Next

\* Types hold in every reachable state, and blocked calls keep their
\* arguments.
THEOREM TypeCorrect == SafeSpec => [](TypeOK /\ ArgumentsKept)
BY TypeInvInit, TypeInvNext, PTL DEF SafeSpec, TypeInv

-----------------------------------------------------------------------------
(* No lost wakeup                                                          *)

\* The threads at a place are finitely many.
LEMMA AtFinite ==
    ASSUME NEW place
    PROVE  IsFiniteSet(At(place)) /\ Cardinality(At(place)) \in Nat
<1>1. At(place) \subseteq Threads
  BY DEF At
<1>2. IsFiniteSet(At(place))
  BY <1>1, ThreadsAssumption, FS_Subset
<1> QED BY <1>2, FS_CardinalityType

\* Losing at most one element costs at most one.
LEMMA LoseOne ==
    ASSUME NEW S, NEW T, NEW x, IsFiniteSet(S), IsFiniteSet(T),
           S \ {x} \subseteq T
    PROVE  Cardinality(S) <= Cardinality(T) + 1
<1>1. IsFiniteSet(T \cup {x})
  BY FS_AddElement
<1>2. S \subseteq T \cup {x}
  OBVIOUS
<1>3. Cardinality(S) <= Cardinality(T \cup {x})
  BY <1>1, <1>2, FS_Subset
<1>4. Cardinality(T \cup {x}) <= Cardinality(T) + 1
  <2>1. Cardinality(T) \in Nat
    BY FS_CardinalityType
  <2>2. CASE x \in T
    <3>1. Cardinality(T \cup {x}) = Cardinality(T)
      BY <2>2, FS_AddElement
    <3> QED BY <2>1, <3>1
  <2>3. CASE x \notin T
    <3>1. Cardinality(T \cup {x}) = Cardinality(T) + 1
      BY <2>3, FS_AddElement
    <3> QED BY <2>1, <3>1
  <2> QED BY <2>2, <2>3
<1> QED BY <1>1, <1>3, <1>4, FS_CardinalityType

\* Gaining an element that was not there counts.
LEMMA GainOne ==
    ASSUME NEW S, NEW T, NEW x, IsFiniteSet(S), IsFiniteSet(T),
           x \notin S, S \cup {x} \subseteq T
    PROVE  Cardinality(S) + 1 <= Cardinality(T)
<1>1. IsFiniteSet(S \cup {x}) /\ Cardinality(S \cup {x}) = Cardinality(S) + 1
  BY FS_AddElement
<1>2. Cardinality(S \cup {x}) <= Cardinality(T)
  BY FS_Subset
<1> QED BY <1>1, <1>2

\* A writer of a queue with a limit has found it within the limit, so the
\* queue never has negative room; this and the two counts are inductive.
SleepInv ==
    /\ NoReaderSleepsOnData
    /\ NoWriterSleepsOnRoom
    /\ NoReaderSleepsOnClosed
    /\ WithinLimit

\* Nobody sleeps in the initial state.
LEMMA SleepInvInit == Init => SleepInv
BY LimitsAssumption
   DEF Init, SleepInv, NoReaderSleepsOnData, NoWriterSleepsOnRoom,
       NoReaderSleepsOnClosed, WithinLimit, At

\* Length of a queue after one call.
LEMMA QueueLength ==
    ASSUME TypeInv
    PROVE  /\ Len(queue) \in Nat
           /\ size_limit \in Nat
           /\ \A v \in Values : Len(Append(queue, v)) = Len(queue) + 1
           /\ queue # <<>> => Len(queue) > 0 /\ Len(Tail(queue)) = Len(queue) - 1
BY LimitsAssumption DEF TypeInv, TypeOK

\* A Push leaves no reader asleep on data and no writer asleep on room: it
\* adds one item and wakes one reader; a woken writer that got in used up the
\* one place it was on its way to.
LEMMA SleepInvPush ==
    ASSUME TypeInv, SleepInv, NEW t \in Threads, NEW v \in Values,
           pc[t] \in {"idle", "writer_woken"}, PushBody(t, v)
    PROVE  SleepInv'
<1> DEFINE a == At("reader_wait")
           b == At("reader_woken")
           c == At("writer_wait")
           d == At("writer_woken")
<1>p. pc \in [Threads -> Places]
  BY DEF TypeInv, TypeOK
<1>n. /\ Len(queue) \in Nat
      /\ size_limit \in Nat
      /\ Len(Append(queue, v)) = Len(queue) + 1
  BY QueueLength
<1>f. /\ IsFiniteSet(b) /\ IsFiniteSet(b') /\ IsFiniteSet(d) /\ IsFiniteSet(d')
      /\ Cardinality(b) \in Nat /\ Cardinality(b') \in Nat
      /\ Cardinality(d) \in Nat /\ Cardinality(d') \in Nat
  <2>1. At("reader_woken")' \subseteq Threads /\ At("writer_woken")' \subseteq Threads
    BY DEF At
  <2> QED BY <2>1, AtFinite, ThreadsAssumption, FS_Subset, FS_CardinalityType
<1>u. open' = open /\ size_limit' = size_limit /\ deadlines' = deadlines
  BY DEF PushBody
<1>1. CASE WaitForRoom(t, v)
  <2>1. pc' = [pc EXCEPT ![t] = "writer_wait"] /\ queue' = queue /\ Full
    BY <1>1 DEF WaitForRoom
  <2>2. a' = a /\ b' = b
    BY <1>p, <2>1 DEF At
  <2> QED
    BY <1>u, <1>n, <1>f, <2>1, <2>2
       DEF SleepInv, NoReaderSleepsOnData, NoWriterSleepsOnRoom,
           NoReaderSleepsOnClosed, WithinLimit, Full
<1>2. CASE Enqueue(t, v)
  <2>1. queue' = Append(queue, v) /\ ~Full
        /\ LeaveAndNotifyOne(t, "reader_wait", "reader_woken")
    BY <1>2 DEF Enqueue
  <2>2. Len(queue') = Len(queue) + 1
    BY <1>n, <2>1
  <2>3. a' \subseteq a /\ c' = c /\ d \ {t} \subseteq d'
    BY <1>p, <2>1 DEF LeaveAndNotifyOne, At, Places
  <2>4. a # {} => \E w \in a : w \notin b /\ b \cup {w} \subseteq b'
    BY <1>p, <2>1 DEF LeaveAndNotifyOne, At, Places
  <2>5. a # {} => Cardinality(b) + 1 <= Cardinality(b')
    BY <1>f, <2>4, GainOne
  <2>6. Cardinality(d) <= Cardinality(d') + 1
    BY <1>f, <2>3, LoseOne
  <2>7. NoReaderSleepsOnData'
    BY <1>n, <1>f, <1>u, <2>2, <2>3, <2>5 DEF SleepInv, NoReaderSleepsOnData
  <2>8. NoWriterSleepsOnRoom'
    BY <1>n, <1>f, <1>u, <2>2, <2>3, <2>6 DEF SleepInv, NoWriterSleepsOnRoom
  <2>9. NoReaderSleepsOnClosed'
    BY <1>u, <2>3 DEF SleepInv, NoReaderSleepsOnClosed
  <2>10. WithinLimit'
    BY <1>n, <1>u, <2>1, <2>2 DEF SleepInv, WithinLimit, Full
  <2> QED BY <2>7, <2>8, <2>9, <2>10 DEF SleepInv
<1> QED BY <1>1, <1>2 DEF PushBody

\* A Poll leaves nobody asleep: it removes one item and wakes one writer.  A
\* reader that finds the queue empty has nothing to leave behind.
LEMMA SleepInvPoll ==
    ASSUME TypeInv, SleepInv, NEW t \in Threads, NEW m,
           pc[t] \in {"idle", "reader_woken"}, PollBody(t, m)
    PROVE  SleepInv'
<1> DEFINE a == At("reader_wait")
           b == At("reader_woken")
           c == At("writer_wait")
           d == At("writer_woken")
<1>p. pc \in [Threads -> Places]
  BY DEF TypeInv, TypeOK
<1>n. /\ Len(queue) \in Nat
      /\ size_limit \in Nat
      /\ queue # <<>> => Len(queue) > 0 /\ Len(Tail(queue)) = Len(queue) - 1
      /\ queue = <<>> => Len(queue) = 0
  BY QueueLength
<1>f. /\ IsFiniteSet(b) /\ IsFiniteSet(b') /\ IsFiniteSet(d) /\ IsFiniteSet(d')
      /\ Cardinality(b) \in Nat /\ Cardinality(b') \in Nat
      /\ Cardinality(d) \in Nat /\ Cardinality(d') \in Nat
  <2>1. At("reader_woken")' \subseteq Threads /\ At("writer_woken")' \subseteq Threads
    BY DEF At
  <2> QED BY <2>1, AtFinite, ThreadsAssumption, FS_Subset, FS_CardinalityType
<1>u. open' = open /\ size_limit' = size_limit /\ deadlines' = deadlines
  BY DEF PollBody
<1>1. CASE Dequeue(t)
  <2>1. queue' = Tail(queue) /\ queue # <<>>
    BY <1>1 DEF Dequeue
  <2>2. Len(queue') = Len(queue) - 1 /\ Len(queue) > 0
    BY <1>n, <2>1
  <2>3. a' = a /\ b \ {t} \subseteq b' /\ c' \subseteq c
    BY <1>p, <1>1 DEF Dequeue, LeaveAndNotifyOne, Leave, At, Places
  <2>4. size_limit > 0 /\ c # {}
            => \E w \in c : w \notin d /\ d \cup {w} \subseteq d'
    BY <1>p, <1>1 DEF Dequeue, LeaveAndNotifyOne, At, Places
  <2>5. size_limit > 0 /\ c # {} => Cardinality(d) + 1 <= Cardinality(d')
    BY <1>f, <2>4, GainOne
  <2>6. Cardinality(b) <= Cardinality(b') + 1
    BY <1>f, <2>3, LoseOne
  <2>7. NoReaderSleepsOnData'
    BY <1>n, <1>f, <1>u, <2>2, <2>3, <2>6 DEF SleepInv, NoReaderSleepsOnData
  <2>8. NoWriterSleepsOnRoom'
    BY <1>n, <1>f, <1>u, <2>2, <2>3, <2>5 DEF SleepInv, NoWriterSleepsOnRoom
  <2>9. NoReaderSleepsOnClosed'
    BY <1>u, <2>3 DEF SleepInv, NoReaderSleepsOnClosed
  <2>10. WithinLimit'
    BY <1>n, <1>u, <2>2 DEF SleepInv, WithinLimit
  <2> QED BY <2>7, <2>8, <2>9, <2>10 DEF SleepInv
<1>2. CASE PollClosed(t) \/ PollEmpty(t, m)
  <2>1. queue = <<>> /\ queue' = queue
    BY <1>2 DEF PollClosed, PollEmpty
  <2>2. c' = c /\ d' = d
    BY <1>p, <1>2 DEF PollClosed, PollEmpty, Leave, At, Places
  <2>3. NoReaderSleepsOnData'
    BY <1>n, <1>f, <2>1 DEF NoReaderSleepsOnData
  <2>4. NoWriterSleepsOnRoom' /\ WithinLimit'
    BY <1>u, <2>1, <2>2 DEF SleepInv, NoWriterSleepsOnRoom, WithinLimit
  <2>5. NoReaderSleepsOnClosed'
    BY <1>p, <1>u, <1>2
       DEF PollClosed, PollEmpty, Leave, At, Places, SleepInv,
           NoReaderSleepsOnClosed
  <2> QED BY <2>3, <2>4, <2>5 DEF SleepInv
<1> QED BY <1>1, <1>2 DEF PollBody

\* A step on its own wakes threads or changes nothing the counts look at.
LEMMA SleepInvWake ==
    ASSUME TypeInv, SleepInv, NEW t \in Threads, SpuriousWakeup(t)
    PROVE  SleepInv'
<1> DEFINE b == At("reader_woken")
           d == At("writer_woken")
<1>p. pc \in [Threads -> Places]
  BY DEF TypeInv, TypeOK
<1>n. Len(queue) \in Nat /\ size_limit \in Nat
  BY QueueLength
<1>1. /\ At("reader_wait")' \subseteq At("reader_wait") /\ b \subseteq b'
      /\ At("writer_wait")' \subseteq At("writer_wait") /\ d \subseteq d'
  BY <1>p DEF SpuriousWakeup, At, Places
<1>2. b' \subseteq Threads /\ d' \subseteq Threads
  BY DEF At
<1>3. IsFiniteSet(b') /\ IsFiniteSet(d')
  BY <1>2, ThreadsAssumption, FS_Subset
<1>4. Cardinality(b) <= Cardinality(b') /\ Cardinality(d) <= Cardinality(d')
  BY <1>1, <1>3, FS_Subset
<1>5. /\ Cardinality(b) \in Nat /\ Cardinality(b') \in Nat
      /\ Cardinality(d) \in Nat /\ Cardinality(d') \in Nat
  BY <1>3, AtFinite, FS_CardinalityType
<1>6. /\ queue' = queue /\ open' = open /\ size_limit' = size_limit
      /\ deadlines' = deadlines
  BY DEF SpuriousWakeup
<1>7. NoReaderSleepsOnData'
  BY <1>n, <1>1, <1>4, <1>5, <1>6 DEF SleepInv, NoReaderSleepsOnData
<1>8. NoWriterSleepsOnRoom'
  BY <1>n, <1>1, <1>4, <1>5, <1>6 DEF SleepInv, NoWriterSleepsOnRoom
<1>9. NoReaderSleepsOnClosed' /\ WithinLimit'
  BY <1>1, <1>6 DEF SleepInv, NoReaderSleepsOnClosed, WithinLimit
<1> QED BY <1>7, <1>8, <1>9 DEF SleepInv

\* Giving up at a deadline disturbs the count of readers, and it is then that
\* NoReaderSleepsOnData is not claimed.
LEMMA SleepInvExpire ==
    ASSUME TypeInv, SleepInv, NEW t \in Threads, Expire(t)
    PROVE  SleepInv'
<1>p. pc \in [Threads -> Places]
  BY DEF TypeInv, TypeOK
<1>1. /\ At("writer_wait")' = At("writer_wait")
      /\ At("writer_woken")' = At("writer_woken")
      /\ At("reader_wait")' \subseteq At("reader_wait")
  BY <1>p DEF Expire, Leave, At, Places
<1>2. queue' = queue /\ open' = open /\ size_limit' = size_limit
  BY DEF Expire
<1>3. deadlines'
  BY DEF Expire, TypeInv, ArgumentsKept
<1>4. NoReaderSleepsOnData'
  BY <1>3 DEF NoReaderSleepsOnData
<1> QED
  BY <1>1, <1>2, <1>4
     DEF SleepInv, NoWriterSleepsOnRoom, NoReaderSleepsOnClosed, WithinLimit

\* Every step keeps the sleepers accounted for.
LEMMA SleepInvNext == TypeInv /\ SleepInv /\ [Next]_vars => SleepInv'
<1> SUFFICES ASSUME TypeInv, SleepInv, [Next]_vars PROVE SleepInv'
  OBVIOUS
<1>p. pc \in [Threads -> Places]
  BY DEF TypeInv, TypeOK
<1>n. Len(queue) \in Nat /\ size_limit \in Nat
  BY QueueLength
<1>1. ASSUME NEW t \in Threads, Push(t) PROVE SleepInv'
  BY <1>1, SleepInvPush DEF Push
<1>2. ASSUME NEW t \in Threads, RetryPush(t) PROVE SleepInv'
  BY <1>2, SleepInvPush DEF RetryPush, TypeInv, ArgumentsKept
<1>3. ASSUME NEW t \in Threads, Poll(t) PROVE SleepInv'
  BY <1>3, SleepInvPoll DEF Poll
<1>4. ASSUME NEW t \in Threads, RetryPoll(t) PROVE SleepInv'
  BY <1>4, SleepInvPoll DEF RetryPoll
<1>5. CASE Close
  <2>1. At("reader_wait")' = {}
    BY <1>5 DEF Close, At
  <2>2. /\ At("writer_wait")' = At("writer_wait")
        /\ At("writer_woken")' = At("writer_woken")
    BY <1>p, <1>5 DEF Close, At
  <2>3. queue' = queue /\ size_limit' = size_limit
    BY <1>5 DEF Close
  <2> QED
    BY <2>1, <2>2, <2>3
       DEF SleepInv, NoReaderSleepsOnData, NoWriterSleepsOnRoom,
           NoReaderSleepsOnClosed, WithinLimit
<1>6. CASE Reopen \/ SetSizeLimit
  <2>1. pc' = pc /\ Quiescent /\ queue = <<>> /\ queue' = queue
    BY <1>6 DEF Reopen, SetSizeLimit
  <2>2. At("reader_wait")' = {} /\ At("writer_wait")' = {}
    BY <2>1 DEF Quiescent, At
  <2>3. Len(queue') = 0
    BY <2>1
  <2>4. size_limit' \in Nat
    BY <1>6, <1>n, LimitsAssumption DEF Reopen, SetSizeLimit
  <2> QED
    BY <2>2, <2>3, <2>4
       DEF SleepInv, NoReaderSleepsOnData, NoWriterSleepsOnRoom,
           NoReaderSleepsOnClosed, WithinLimit
<1>7. CASE UNCHANGED vars
  BY <1>7
     DEF vars, SleepInv, NoReaderSleepsOnData, NoWriterSleepsOnRoom,
         NoReaderSleepsOnClosed, WithinLimit, At
<1> QED
  BY <1>1, <1>2, <1>3, <1>4, <1>5, <1>6, <1>7, SleepInvExpire, SleepInvWake
     DEF Next

\* Types and sleepers together are inductive.
LEMMA SleepInvariant == SafeSpec => []SleepInv
<1>1. Init => TypeInv /\ SleepInv
  BY TypeInvInit, SleepInvInit
<1>2. TypeInv /\ SleepInv /\ [Next]_vars => (TypeInv /\ SleepInv)'
  BY TypeInvNext, SleepInvNext
<1> QED BY <1>1, <1>2, PTL DEF SafeSpec

\* For any number of threads and any limit: no reader sleeps while there is
\* more data than readers on their way.
THEOREM NoReaderLosesWakeup == SafeSpec => []NoReaderSleepsOnData
<1>1. SleepInv => NoReaderSleepsOnData
  BY DEF SleepInv
<1> QED BY <1>1, SleepInvariant, PTL

\* No writer sleeps while there is more room than writers on their way.
THEOREM NoWriterLosesWakeup == SafeSpec => []NoWriterSleepsOnRoom
<1>1. SleepInv => NoWriterSleepsOnRoom
  BY DEF SleepInv
<1> QED BY <1>1, SleepInvariant, PTL

\* No reader sleeps on a closed queue.
THEOREM CloseReachesAllReaders == SafeSpec => []NoReaderSleepsOnClosed
<1>1. SleepInv => NoReaderSleepsOnClosed
  BY DEF SleepInv
<1> QED BY <1>1, SleepInvariant, PTL

\* The queue stays within its limit.
THEOREM LimitRespected == SafeSpec => []WithinLimit
<1>1. SleepInv => WithinLimit
  BY DEF SleepInv
<1> QED BY <1>1, SleepInvariant, PTL

-----------------------------------------------------------------------------
(* Refinement                                                              *)

\* What the abstract queue sees of a step: the thread that moved may change
\* between not pending and pending, the ones it wakes stay pending.
LEMMA PendingLeaves ==
    ASSUME NEW t \in Threads, NEW waiting, NEW woken,
           pc \in [Threads -> Places],
           \/ waiting = "reader_wait" /\ woken = "reader_woken"
           \/ waiting = "writer_wait" /\ woken = "writer_woken",
           pc[t] # waiting,
           LeaveAndNotifyOne(t, waiting, woken) \/ Leave(t)
    PROVE  Pending' = [Pending EXCEPT ![t] = "none"]
<1>1. CASE pc' = [pc EXCEPT ![t] = "idle"]
  BY <1>1 DEF Pending, Places
<1>2. CASE \E w \in At(waiting) : pc' = [pc EXCEPT ![t] = "idle", ![w] = woken]
  <2>1. PICK w \in At(waiting) : pc' = [pc EXCEPT ![t] = "idle", ![w] = woken]
    BY <1>2
  <2>2. w \in Threads /\ w # t /\ pc[w] = waiting
    BY <2>1 DEF At
  <2>3. ASSUME NEW u \in Threads
        PROVE  Pending'[u] = [Pending EXCEPT ![t] = "none"][u]
    <3>1. CASE u = t
      BY <2>1, <2>2, <3>1 DEF Pending
    <3>2. CASE u = w
      BY <2>1, <2>2, <3>2 DEF Pending
    <3>3. CASE u # t /\ u # w
      BY <2>1, <2>2, <3>3 DEF Pending
    <3> QED BY <3>1, <3>2, <3>3
  <2> QED BY <2>3 DEF Pending
<1> QED BY <1>1, <1>2 DEF LeaveAndNotifyOne, Leave

\* The initial states correspond.
LEMMA RefinesInit == Init => Abstract!Init
BY DEF Init, Abstract!Init, Pending

\* A Push is a Put, the start of a blocked push, or nothing new.
LEMMA RefinesPush ==
    ASSUME TypeInv, NEW t \in Threads, NEW v \in Values,
           pc[t] \in {"idle", "writer_woken"}, PushBody(t, v)
    PROVE  [Abstract!Next]_(Abstract!vars)
<1>p. pc \in [Threads -> Places]
  BY DEF TypeInv, TypeOK
<1>1. Pending[t] \in {"none", "push"}
  BY DEF Pending
<1>2. CASE WaitForRoom(t, v)
  <2>1. pc' = [pc EXCEPT ![t] = "writer_wait"]
    BY <1>2 DEF WaitForRoom
  <2>2. Pending' = [Pending EXCEPT ![t] = "push"]
    BY <1>p, <2>1 DEF Pending, Places
  <2>3. CASE pc[t] = "idle"
    <3>1. Pending[t] = "none"
      BY <2>3 DEF Pending
    <3>2. Abstract!BlockPut(t)
      BY <1>2, <2>2, <3>1 DEF WaitForRoom, PushBody, Abstract!BlockPut,
                              Abstract!Full, Full
    <3> QED BY <3>2 DEF Abstract!Next
  <2>4. CASE pc[t] = "writer_woken"
    <3>1. Pending[t] = "push"
      BY <2>4 DEF Pending
    <3>2. Pending' = Pending
      BY <2>2, <3>1 DEF Pending
    <3> QED BY <1>2, <3>2 DEF WaitForRoom, PushBody, Abstract!vars
  <2> QED BY <2>3, <2>4
<1>3. CASE Enqueue(t, v)
  <2>1. Pending' = [Pending EXCEPT ![t] = "none"]
    BY <1>p, <1>3, PendingLeaves DEF Enqueue
  <2>2. Abstract!Put(t)
    BY <1>1, <1>3, <2>1 DEF Enqueue, PushBody, Return, Full,
       Abstract!Put, Abstract!Full, Abstract!Returned
  <2> QED BY <2>2 DEF Abstract!Next
<1> QED BY <1>2, <1>3 DEF PushBody

\* A Poll is a Take, a Finish, giving up, the start of a blocked poll, or
\* nothing new.
LEMMA RefinesPoll ==
    ASSUME TypeInv, NEW t \in Threads, NEW m,
           pc[t] \in {"idle", "reader_woken"},
           pc[t] = "reader_woken" => m # "now",
           PollBody(t, m)
    PROVE  [Abstract!Next]_(Abstract!vars)
<1>p. pc \in [Threads -> Places]
  BY DEF TypeInv, TypeOK
<1>1. Pending[t] \in {"none", "poll"}
  BY DEF Pending
<1>2. CASE Dequeue(t)
  <2>1. Pending' = [Pending EXCEPT ![t] = "none"]
    BY <1>p, <1>2, PendingLeaves DEF Dequeue
  <2>2. Abstract!Take(t)
    BY <1>1, <1>2, <2>1 DEF Dequeue, PollBody, Return, Abstract!Take,
       Abstract!Returned
  <2> QED BY <2>2 DEF Abstract!Next
<1>3. CASE PollClosed(t)
  <2>1. Pending' = [Pending EXCEPT ![t] = "none"]
    BY <1>p, <1>3, PendingLeaves DEF PollClosed
  <2>2. Abstract!Finish(t)
    BY <1>1, <1>3, <2>1 DEF PollClosed, PollBody, Return, Abstract!Finish,
       Abstract!Returned
  <2> QED BY <2>2 DEF Abstract!Next
<1>4. CASE PollEmpty(t, m) /\ m = "now"
  <2>1. Leave(t) /\ pc[t] = "idle"
    BY <1>4 DEF PollEmpty
  <2>2. Pending' = [Pending EXCEPT ![t] = "none"] /\ Pending[t] = "none"
    BY <1>p, <2>1, PendingLeaves DEF Pending
  <2>3. Abstract!GiveUp(t)
    BY <1>4, <2>2 DEF PollEmpty, PollBody, Return, Abstract!GiveUp,
       Abstract!Returned
  <2> QED BY <2>3 DEF Abstract!Next
<1>5. CASE PollEmpty(t, m) /\ m # "now"
  <2>1. pc' = [pc EXCEPT ![t] = "reader_wait"]
    BY <1>5 DEF PollEmpty
  <2>2. Pending' = [Pending EXCEPT ![t] = "poll"]
    BY <1>p, <2>1 DEF Pending, Places
  <2>3. CASE pc[t] = "idle"
    <3>1. Pending[t] = "none"
      BY <2>3 DEF Pending
    <3>2. Abstract!BlockTake(t)
      BY <1>5, <2>2, <3>1 DEF PollEmpty, PollBody, Abstract!BlockTake
    <3> QED BY <3>2 DEF Abstract!Next
  <2>4. CASE pc[t] = "reader_woken"
    <3>1. Pending[t] = "poll"
      BY <2>4 DEF Pending
    <3>2. Pending' = Pending
      BY <2>2, <3>1 DEF Pending
    <3> QED BY <1>5, <3>2 DEF PollEmpty, PollBody, Abstract!vars
  <2> QED BY <2>3, <2>4
<1> QED BY <1>2, <1>3, <1>4, <1>5 DEF PollBody

\* Every step is a step of the abstract queue or changes nothing it sees.
LEMMA RefinesNext ==
    TypeInv /\ [Next]_vars => [Abstract!Next]_(Abstract!vars)
<1> SUFFICES ASSUME TypeInv, [Next]_vars
             PROVE  [Abstract!Next]_(Abstract!vars)
  OBVIOUS
<1>p. pc \in [Threads -> Places]
  BY DEF TypeInv, TypeOK
<1>1. ASSUME NEW t \in Threads, Push(t) \/ RetryPush(t)
      PROVE  [Abstract!Next]_(Abstract!vars)
  BY <1>1, RefinesPush DEF Push, RetryPush, TypeInv, ArgumentsKept
<1>2. ASSUME NEW t \in Threads, Poll(t) \/ RetryPoll(t)
      PROVE  [Abstract!Next]_(Abstract!vars)
  BY <1>2, RefinesPoll DEF Poll, RetryPoll, TypeInv, ArgumentsKept
<1>3. ASSUME NEW t \in Threads, Expire(t)
      PROVE  [Abstract!Next]_(Abstract!vars)
  <2>1. Pending[t] = "poll"
    BY <1>3 DEF Expire, Pending
  <2>2. Pending' = [Pending EXCEPT ![t] = "none"]
    BY <1>p, <1>3 DEF Expire, Leave, Pending, Places
  <2>3. Abstract!GiveUp(t)
    BY <1>3, <2>1, <2>2 DEF Expire, Return, Abstract!GiveUp, Abstract!Returned
  <2> QED BY <2>3 DEF Abstract!Next
<1>4. ASSUME NEW t \in Threads, SpuriousWakeup(t)
      PROVE  [Abstract!Next]_(Abstract!vars)
  <2>1. Pending' = Pending
    BY <1>p, <1>4 DEF SpuriousWakeup, Pending, Places
  <2> QED BY <1>4, <2>1 DEF SpuriousWakeup, Abstract!vars
<1>5. CASE Close
  <2>1. Pending' = Pending
    BY <1>p, <1>5 DEF Close, Pending, Places
  <2>2. Abstract!Close
    BY <1>5, <2>1 DEF Close, Abstract!Close
  <2> QED BY <2>2 DEF Abstract!Next
<1>6. CASE Reopen \/ SetSizeLimit
  <2>1. Pending' = Pending /\ \A t \in Threads : Pending[t] = "none"
    BY <1>6 DEF Reopen, SetSizeLimit, Quiescent, Pending
  <2>2. Abstract!Reopen \/ Abstract!SetLimit
    BY <1>6, <2>1 DEF Reopen, SetSizeLimit, Abstract!Reopen, Abstract!SetLimit
  <2> QED BY <2>2 DEF Abstract!Next
<1>7. CASE UNCHANGED vars
  <2>1. Pending' = Pending
    BY <1>7 DEF vars, Pending
  <2> QED BY <1>7, <2>1 DEF vars, Abstract!vars
<1> QED BY <1>1, <1>2, <1>3, <1>4, <1>5, <1>6, <1>7 DEF Next

\* The queue of the code is, step by step, the abstract queue: what is pushed
\* is polled once and in order, FINISH means closed and drained.
THEOREM QueueImplemented == SafeSpec => ImplementsQueueSafely
BY TypeInvInit, TypeInvNext, RefinesInit, RefinesNext, PTL
   DEF SafeSpec, ImplementsQueueSafely, Abstract!SafeSpec

=============================================================================
