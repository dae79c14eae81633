------------------------ MODULE ReaderAllocatorProofs ------------------------
(***************************************************************************)
(* ReaderAllocator for every set of threads and every size of the pool:    *)
(* types, mutual exclusion, and one owner for each buffer, whatever the    *)
(* size test that reads the free list without its mutex says.              *)
(***************************************************************************)
EXTENDS ReaderAllocator, FiniteSetTheorems, SequenceTheorems, TLAPS

\* Who holds a mutex is between its lock and its unlock, and the other way
\* round.
LockInv ==
    \A t \in Threads :
        /\ free_list_lock = t <=> pc[t] \in {"have_list", "adding", "freeing"}
        /\ allocation_lock = t <=> pc[t] \in {"check_size", "add", "adding"}

\* A thread that has found the pool low still finds room for a batch when it
\* gets the list: only the holder of allocation_lock carves out buffers.
RoomInv ==
    \A t \in Threads : pc[t] \in {"add", "adding"} => allocated + Batch <= MaxBuffers

\* A thread has a buffer to free exactly when it is in Free.
FreeingInv ==
    \A t \in Threads : freeing[t] # 0 <=> pc[t] \in {"free", "freeing"}

TypeInv == TypeOK /\ LockInv /\ RoomInv /\ FreeingInv

InList(b) == \E i \in 1..Len(free_list) : free_list[i] = b

\* A buffer that is somewhere was carved out.
KnownBuffers ==
    /\ \A i \in 1..Len(free_list) : free_list[i] \in 1..allocated
    /\ \A t \in Threads : held[t] \subseteq 1..allocated /\ freeing[t] \in 0..allocated

\* No buffer is in two places.
ApartInv ==
    /\ \A i, j \in 1..Len(free_list) : free_list[i] = free_list[j] => i = j
    /\ \A t \in Threads : \A b \in held[t] : ~InList(b)
    /\ \A t \in Threads : freeing[t] # 0 => ~InList(freeing[t])
    /\ \A t, u \in Threads : t # u => held[t] \cap held[u] = {}
    /\ \A t, u \in Threads : freeing[t] \notin held[u]
    /\ \A t, u \in Threads : freeing[t] = freeing[u] /\ freeing[t] # 0 => t = u

\* Every buffer is somewhere.
SomewhereInv ==
    \A b \in 1..allocated :
        \/ InList(b)
        \/ \E t \in Threads : b \in held[t]
        \/ \E t \in Threads : freeing[t] = b

OwnerInv == KnownBuffers /\ ApartInv /\ SomewhereInv

-----------------------------------------------------------------------------
(* Types and mutual exclusion                                              *)

\* What the assumption says of the numbers.
LEMMA Sizes ==
    /\ Initial \in Nat \ {0} /\ Batch \in Nat \ {0} /\ MaxBuffers \in Nat \ {0}
    /\ MaxHeld \in Nat /\ Threshold \in Nat /\ Initial <= MaxBuffers
    /\ Nobody \notin Threads
BY PoolAssumption

\* What the types say of the free list and the count of buffers.
LEMMA Typed ==
    ASSUME TypeOK
    PROVE  /\ allocated \in Nat /\ allocated <= MaxBuffers
           /\ free_list \in Seq(1..MaxBuffers) /\ Len(free_list) \in Nat
BY Sizes DEF TypeOK

\* The new buffers of a batch.
LEMMA Batched ==
    ASSUME allocated \in Nat
    PROVE  /\ NewBuffers \in Seq(1..(allocated + Batch))
           /\ Len(NewBuffers) = Batch
           /\ \A i \in 1..Batch : NewBuffers[i] = allocated + i
<1>1. \A i \in 1..Batch : allocated + i \in 1..(allocated + Batch)
  BY Sizes
<1>2. NewBuffers \in [1..Batch -> 1..(allocated + Batch)]
  BY <1>1 DEF NewBuffers
<1>3. NewBuffers \in Seq(1..(allocated + Batch))
  BY <1>2, Sizes, SeqDef
<1>4. Len(NewBuffers) = Batch
  BY Sizes DEF NewBuffers
<1> QED BY <1>3, <1>4 DEF NewBuffers

\* The free list after a batch was added to it.
LEMMA ListWithBatch ==
    ASSUME TypeOK, allocated + Batch <= MaxBuffers,
           free_list' = free_list \o NewBuffers
    PROVE  /\ free_list' \in Seq(1..MaxBuffers)
           /\ Len(free_list') = Len(free_list) + Batch
           /\ \A i \in 1..(Len(free_list) + Batch) :
                free_list'[i] = IF i <= Len(free_list) THEN free_list[i]
                                ELSE allocated + (i - Len(free_list))
<1>1. allocated \in Nat /\ free_list \in Seq(1..MaxBuffers) /\ Len(free_list) \in Nat
  BY Typed
<1>2. 1..(allocated + Batch) \subseteq 1..MaxBuffers
  BY <1>1, Sizes
<1>3. NewBuffers \in Seq(1..MaxBuffers)
  BY <1>1, <1>2, Batched, SeqMonotonic
<1>4. Len(NewBuffers) = Batch /\ Batch \in Nat
  BY <1>1, Sizes, Batched
<1>5. /\ free_list' \in Seq(1..MaxBuffers)
      /\ Len(free_list') = Len(free_list) + Batch
      /\ \A i \in 1..(Len(free_list) + Batch) :
           free_list'[i] = IF i <= Len(free_list) THEN free_list[i]
                           ELSE NewBuffers[i - Len(free_list)]
  BY <1>1, <1>3, <1>4, ConcatProperties
<1>6. \A i \in 1..(Len(free_list) + Batch) :
        i > Len(free_list) => i - Len(free_list) \in 1..Batch
  BY <1>1, <1>4
<1> QED BY <1>1, <1>5, <1>6, Batched

\* What is left of a sequence without its last element.
LEMMA WithoutLast ==
    ASSUME NEW S, NEW s \in Seq(S), NEW n \in Nat, Len(s) = n + 1
    PROVE  /\ SubSeq(s, 1, n) \in Seq(S)
           /\ Len(SubSeq(s, 1, n)) = n
           /\ \A i \in 1..n : SubSeq(s, 1, n)[i] = s[i]
OBVIOUS

\* The free list after its last buffer was taken.
LEMMA ListPopped ==
    ASSUME TypeOK, free_list # <<>>,
           free_list' = SubSeq(free_list, 1, Len(free_list) - 1)
    PROVE  /\ Len(free_list) \in 1..Len(free_list)
           /\ free_list' \in Seq(1..MaxBuffers)
           /\ Len(free_list') = Len(free_list) - 1
           /\ \A i \in 1..(Len(free_list) - 1) : free_list'[i] = free_list[i]
<1>1. free_list \in Seq(1..MaxBuffers) /\ Len(free_list) \in Nat
  BY Typed
<1>2. Len(free_list) # 0
  BY <1>1, EmptySeq
<1>3. PICK n \in Nat : Len(free_list) = n + 1
  BY <1>1, <1>2
<1>4. free_list' = SubSeq(free_list, 1, n)
  BY <1>1, <1>3
<1>5. /\ SubSeq(free_list, 1, n) \in Seq(1..MaxBuffers)
      /\ Len(SubSeq(free_list, 1, n)) = n
      /\ \A i \in 1..n : SubSeq(free_list, 1, n)[i] = free_list[i]
  BY <1>1, <1>3, WithoutLast
<1> QED BY <1>1, <1>3, <1>4, <1>5

\* The free list after a buffer was pushed on it.
LEMMA ListPushed ==
    ASSUME TypeOK, NEW b \in 1..MaxBuffers, free_list' = Append(free_list, b)
    PROVE  /\ free_list' \in Seq(1..MaxBuffers)
           /\ Len(free_list') = Len(free_list) + 1
           /\ \A i \in 1..Len(free_list) : free_list'[i] = free_list[i]
           /\ free_list'[Len(free_list) + 1] = b
BY AppendProperties DEF TypeOK

\* The initial state.
LEMMA TypeInvInit == Init => TypeInv
<1> SUFFICES ASSUME Init PROVE TypeInv
  OBVIOUS
<1>1. free_list \in Seq(1..MaxBuffers)
  <2>1. free_list \in [1..Initial -> 1..MaxBuffers]
    BY Sizes DEF Init
  <2> QED BY <2>1, Sizes, SeqDef
<1>2. TypeOK
  BY <1>1, Sizes DEF Init, TypeOK
<1> QED BY <1>2, Sizes DEF Init, TypeInv, LockInv, RoomInv, FreeingInv

\* Every step keeps the types, the mutexes and the room.
LEMMA TypeInvNext == TypeInv /\ [Next]_vars => TypeInv'
<1> SUFFICES ASSUME TypeInv, [Next]_vars PROVE TypeInv'
  OBVIOUS
<1> USE Sizes DEF TypeInv
<1>1. ASSUME NEW t \in Threads, CallAlloc(t) PROVE TypeInv'
  BY <1>1 DEF CallAlloc, Goto, TypeOK, LockInv, RoomInv, FreeingInv
<1>2. ASSUME NEW t \in Threads, CallFree(t) PROVE TypeInv'
  BY <1>2 DEF CallFree, Goto, TypeOK, LockInv, RoomInv, FreeingInv
<1>3. ASSUME NEW t \in Threads, NEW u \in Threads, HandOver(t, u) PROVE TypeInv'
  <2>1. held' \in [Threads -> SUBSET (1..MaxBuffers)]
    BY <1>3 DEF HandOver, TypeOK
  <2> QED
    BY <1>3, <2>1 DEF HandOver, TypeOK, LockInv, RoomInv, FreeingInv
<1>4. ASSUME NEW t \in Threads,
             \/ LockList(t, "alloc", "have_list")
             \/ LockList(t, "add", "adding")
             \/ LockList(t, "free", "freeing")
      PROVE  TypeInv'
  <2>1. CASE LockList(t, "alloc", "have_list")
    BY <2>1 DEF LockList, Goto, TypeOK, LockInv, RoomInv, FreeingInv
  <2>2. CASE LockList(t, "add", "adding")
    BY <2>2 DEF LockList, Goto, TypeOK, LockInv, RoomInv, FreeingInv
  <2>3. CASE LockList(t, "free", "freeing")
    BY <2>3 DEF LockList, Goto, TypeOK, LockInv, RoomInv, FreeingInv
  <2> QED BY <1>4, <2>1, <2>2, <2>3
<1>5. ASSUME NEW t \in Threads, LockAllocation(t) PROVE TypeInv'
  BY <1>5 DEF LockAllocation, Goto, TypeOK, LockInv, RoomInv, FreeingInv
<1>6. ASSUME NEW t \in Threads, TakeFree(t) PROVE TypeInv'
  <2>1. CASE PopBack(t)
    <3>1. free_list' \in Seq(1..MaxBuffers) /\ free_list[Len(free_list)] \in 1..MaxBuffers
      BY <2>1, ListPopped, ElementOfSeq DEF PopBack, TypeOK
    <3> QED
      BY <1>6, <2>1, <3>1
         DEF TakeFree, PopBack, Goto, TypeOK, LockInv, RoomInv, FreeingInv
  <2>2. CASE free_list = <<>> /\ Goto(t, "grow") /\ UNCHANGED <<held, free_list>>
    BY <1>6, <2>2 DEF TakeFree, Goto, TypeOK, LockInv, RoomInv, FreeingInv
  <2> QED BY <1>6, <2>1, <2>2 DEF TakeFree
<1>7. ASSUME NEW t \in Threads, CheckSize(t) PROVE TypeInv'
  BY <1>7 DEF CheckSize, Goto, TypeOK, LockInv, RoomInv, FreeingInv
<1>8. ASSUME NEW t \in Threads, AddBuffers(t) PROVE TypeInv'
  <2>1. allocated + Batch <= MaxBuffers
    BY <1>8 DEF AddBuffers, RoomInv
  <2>2. free_list' \in Seq(1..MaxBuffers)
    BY <1>8, <2>1, ListWithBatch DEF AddBuffers
  <2>3. allocated' \in 1..MaxBuffers
    BY <1>8, <2>1 DEF AddBuffers, TypeOK
  <2>4. \A u \in Threads : u # t => pc[u] \notin {"add", "adding"}
    BY <1>8 DEF AddBuffers, LockInv
  <2> QED
    BY <1>8, <2>2, <2>3, <2>4
       DEF AddBuffers, Goto, TypeOK, LockInv, RoomInv, FreeingInv
<1>9. ASSUME NEW t \in Threads, PushBack(t) PROVE TypeInv'
  <2>1. freeing[t] \in 1..MaxBuffers
    BY <1>9 DEF PushBack, TypeOK, FreeingInv
  <2>2. free_list' \in Seq(1..MaxBuffers)
    BY <1>9, <2>1, ListPushed DEF PushBack
  <2> QED
    BY <1>9, <2>2 DEF PushBack, Goto, TypeOK, LockInv, RoomInv, FreeingInv
<1>10. CASE UNCHANGED vars
  BY <1>10 DEF vars, TypeOK, LockInv, RoomInv, FreeingInv
<1> QED
  BY <1>1, <1>2, <1>3, <1>4, <1>5, <1>6, <1>7, <1>8, <1>9, <1>10
     DEF Next, Calling, Locking, Working

\* The types hold in every reachable state.
THEOREM TypeCorrect == Spec => []TypeOK
<1>1. TypeInv => TypeOK
  BY DEF TypeInv
<1> QED BY <1>1, TypeInvInit, TypeInvNext, PTL DEF Spec

-----------------------------------------------------------------------------
(* One owner                                                               *)

\* The pool of the initial state is all on the list.
LEMMA OwnerInvInit == Init => OwnerInv
<1> SUFFICES ASSUME Init PROVE OwnerInv
  OBVIOUS
<1>1. Len(free_list) = Initial /\ \A i \in 1..Initial : free_list[i] = i
  BY Sizes DEF Init
<1>2. KnownBuffers
  BY <1>1, Sizes DEF Init, KnownBuffers
<1>3. ApartInv
  BY <1>1, Sizes DEF Init, ApartInv
<1>4. SomewhereInv
  BY <1>1, Sizes DEF Init, SomewhereInv, InList
<1> QED BY <1>2, <1>3, <1>4 DEF OwnerInv

\* Alloc: the last buffer of the list goes to the caller.
LEMMA OwnerInvPop ==
    ASSUME TypeInv, OwnerInv, NEW t \in Threads, TakeFree(t), PopBack(t)
    PROVE  OwnerInv'
<1> DEFINE n == Len(free_list)
           b == free_list[n]
<1> USE DEF TypeInv
<1>1. /\ n \in Nat \ {0} /\ n \in 1..n
      /\ Len(free_list') = n - 1
      /\ \A i \in 1..(n - 1) : free_list'[i] = free_list[i]
  BY ListPopped, Typed DEF PopBack
<1>2. /\ held' = [held EXCEPT ![t] = @ \cup {b}]
      /\ allocated' = allocated /\ freeing' = freeing
  BY DEF TakeFree, PopBack
<1>3. \A c : InList(c)' <=> \E i \in 1..(n - 1) : free_list[i] = c
  BY <1>1 DEF InList
<1>4. /\ \A i \in 1..(n - 1) : free_list[i] # b
      /\ \A c : InList(c) <=> InList(c)' \/ c = b
  <2>1. \A i \in 1..n : i \in 1..(n - 1) \/ i = n
    BY <1>1
  <2>2. \A i \in 1..(n - 1) : i \in 1..n /\ i # n
    BY <1>1
  <2>3. \A i \in 1..(n - 1) : free_list[i] # b
    BY <1>1, <2>2 DEF OwnerInv, ApartInv
  <2>4. \A c : InList(c) <=> \E i \in 1..n : free_list[i] = c
    BY DEF InList
  <2> QED BY <1>1, <1>3, <2>1, <2>2, <2>3, <2>4
<1> HIDE DEF n, b
<1>5. b \in 1..allocated /\ InList(b)
  BY <1>1 DEF b, n, OwnerInv, KnownBuffers, InList
<1>h. held \in [Threads -> SUBSET (1..MaxBuffers)]
  BY DEF TypeOK
<1>6. KnownBuffers'
  BY <1>1, <1>2, <1>5, <1>h DEF n, OwnerInv, KnownBuffers
<1>7. ApartInv'
  <2>1. \A i, j \in 1..Len(free_list') : free_list'[i] = free_list'[j] => i = j
    BY <1>1 DEF n, OwnerInv, ApartInv
  <2>2. \A u \in Threads : \A c \in held'[u] : ~InList(c)'
    <3>1. \A c : c = b => ~InList(c)'
      BY <1>3, <1>4
    <3> QED BY <1>2, <1>4, <1>h, <3>1 DEF OwnerInv, ApartInv
  <2>3. \A u \in Threads : freeing'[u] # 0 => ~InList(freeing[u])'
    BY <1>1, <1>2 DEF n, InList, OwnerInv, ApartInv
  <2>4. \A u, v \in Threads : u # v => held'[u] \cap held'[v] = {}
    BY <1>2, <1>5, <1>h DEF OwnerInv, ApartInv
  <2>5. \A u, v \in Threads : freeing'[u] \notin held'[v]
    BY <1>2, <1>5, <1>h DEF OwnerInv, ApartInv
  <2> QED BY <1>2, <2>1, <2>2, <2>3, <2>4, <2>5 DEF OwnerInv, ApartInv
<1>8. SomewhereInv'
  BY <1>2, <1>4, <1>h DEF OwnerInv, SomewhereInv
<1> QED BY <1>6, <1>7, <1>8 DEF OwnerInv

\* Growth: the new buffers have numbers of their own.
LEMMA OwnerInvAdd ==
    ASSUME TypeInv, OwnerInv, NEW t \in Threads, AddBuffers(t)
    PROVE  OwnerInv'
<1> DEFINE n == Len(free_list)
<1> USE DEF TypeInv
<1>1. /\ n \in Nat /\ allocated \in Nat /\ Batch \in Nat
      /\ Len(free_list') = n + Batch
      /\ \A i \in 1..(n + Batch) :
           free_list'[i] = IF i <= n THEN free_list[i] ELSE allocated + (i - n)
  BY ListWithBatch, Typed, Sizes DEF AddBuffers, RoomInv
<1>2. allocated' = allocated + Batch /\ held' = held /\ freeing' = freeing
  BY DEF AddBuffers
<1> HIDE DEF n
<1>3. \A i \in 1..n : free_list[i] \in 1..allocated
  BY DEF n, OwnerInv, KnownBuffers
<1>4. \A c \in 1..allocated : InList(c)' <=> InList(c)
  <2>1. ASSUME NEW c \in 1..allocated, InList(c)' PROVE InList(c)
    <3>1. PICK i \in 1..(n + Batch) : free_list'[i] = c
      BY <1>1, <2>1 DEF InList
    <3>2. i <= n
      BY <1>1, <3>1
    <3> QED BY <1>1, <3>1, <3>2 DEF n, InList
  <2>2. ASSUME NEW c \in 1..allocated, InList(c) PROVE InList(c)'
    <3>1. PICK i \in 1..n : free_list[i] = c
      BY <2>2 DEF n, InList
    <3>2. i \in 1..(n + Batch) /\ free_list'[i] = c
      BY <1>1, <3>1
    <3> QED BY <1>1, <3>2 DEF InList
  <2> QED BY <2>1, <2>2
<1>5. \A c \in (allocated + 1)..(allocated + Batch) : InList(c)'
  <2> SUFFICES ASSUME NEW c \in (allocated + 1)..(allocated + Batch)
               PROVE  InList(c)'
    OBVIOUS
  <2>1. n + (c - allocated) \in 1..(n + Batch)
    BY <1>1
  <2>2. free_list'[n + (c - allocated)] = c
    BY <1>1, <2>1
  <2> QED BY <1>1, <2>1, <2>2 DEF InList
<1>6. KnownBuffers'
  <2>1. \A i \in 1..Len(free_list') : free_list'[i] \in 1..(allocated + Batch)
    BY <1>1, <1>3
  <2> QED BY <1>1, <1>2, <2>1 DEF OwnerInv, KnownBuffers
<1>7. ApartInv'
  <2>1. \A i, j \in 1..Len(free_list') : free_list'[i] = free_list'[j] => i = j
    <3> SUFFICES ASSUME NEW i \in 1..(n + Batch), NEW j \in 1..(n + Batch),
                        free_list'[i] = free_list'[j]
                 PROVE  i = j
      BY <1>1
    <3>1. CASE i <= n /\ j <= n
      BY <1>1, <3>1 DEF n, OwnerInv, ApartInv
    <3>2. CASE ~(i <= n /\ j <= n)
      BY <1>1, <1>3, <3>2
    <3> QED BY <3>1, <3>2
  <2>2. \A u \in Threads : held[u] \subseteq 1..allocated
                           /\ freeing[u] \in 0..allocated
    BY DEF OwnerInv, KnownBuffers
  <2>3. \A u \in Threads : freeing[u] # 0 => freeing[u] \in 1..allocated
    BY <1>1, <2>2
  <2> QED BY <1>2, <1>4, <2>1, <2>2, <2>3 DEF OwnerInv, ApartInv
<1>8. SomewhereInv'
  <2>1. \A c \in 1..(allocated + Batch) :
          c \in 1..allocated \/ c \in (allocated + 1)..(allocated + Batch)
    BY <1>1
  <2> QED BY <1>2, <1>4, <1>5, <2>1 DEF OwnerInv, SomewhereInv
<1> QED BY <1>6, <1>7, <1>8 DEF OwnerInv

\* Free: the buffer leaves its owner ...
LEMMA OwnerInvFree ==
    ASSUME TypeInv, OwnerInv, NEW t \in Threads, CallFree(t)
    PROVE  OwnerInv'
<1>1. PICK b \in held[t] : /\ held' = [held EXCEPT ![t] = @ \ {b}]
                           /\ freeing' = [freeing EXCEPT ![t] = b]
  BY DEF CallFree
<1>2. free_list' = free_list /\ allocated' = allocated
  BY DEF CallFree
<1>3. freeing[t] = 0
  BY DEF CallFree, TypeInv, FreeingInv
<1>4. held \in [Threads -> SUBSET (1..MaxBuffers)] /\ freeing \in [Threads -> 0..MaxBuffers]
  BY DEF TypeInv, TypeOK
<1>5. \A c : InList(c)' <=> InList(c)
  BY <1>2 DEF InList
<1>6. allocated \in Nat
  BY Typed DEF TypeInv
<1>7. KnownBuffers'
  BY <1>1, <1>2, <1>4, <1>6 DEF OwnerInv, KnownBuffers
<1>8. ApartInv'
  <2>1. \A u \in Threads : \A c \in held'[u] : ~InList(c)'
    BY <1>1, <1>4, <1>5 DEF OwnerInv, ApartInv
  <2>2. \A u \in Threads : freeing'[u] # 0 => ~InList(freeing'[u])
    BY <1>1, <1>4 DEF OwnerInv, ApartInv
  <2>3. \A u, v \in Threads : u # v => held'[u] \cap held'[v] = {}
    BY <1>1, <1>4 DEF OwnerInv, ApartInv
  <2>4. \A u, v \in Threads : freeing'[u] \notin held'[v]
    BY <1>1, <1>4 DEF OwnerInv, ApartInv
  <2>5. \A u, v \in Threads : freeing'[u] = freeing'[v] /\ freeing'[u] # 0 => u = v
    BY <1>1, <1>4 DEF OwnerInv, ApartInv
  <2>6. \A u \in Threads : freeing'[u] # 0 => ~InList(freeing[u])'
    BY <1>2, <2>2 DEF InList
  <2> QED BY <1>2, <2>1, <2>3, <2>4, <2>5, <2>6 DEF OwnerInv, ApartInv
<1>9. SomewhereInv'
  BY <1>1, <1>2, <1>3, <1>4, <1>5, <1>6 DEF OwnerInv, SomewhereInv
<1> QED BY <1>7, <1>8, <1>9 DEF OwnerInv

\* ... and comes to the end of the list.
LEMMA OwnerInvPush ==
    ASSUME TypeInv, OwnerInv, NEW t \in Threads, PushBack(t)
    PROVE  OwnerInv'
<1> DEFINE n == Len(free_list)
           b == freeing[t]
<1>1. /\ freeing' = [freeing EXCEPT ![t] = 0]
      /\ held' = held /\ allocated' = allocated
  BY DEF PushBack
<1>2. freeing \in [Threads -> 0..MaxBuffers] /\ n \in Nat /\ allocated \in Nat
  BY Typed DEF TypeInv, TypeOK
<1>3. b # 0 /\ b \in 1..allocated
  BY <1>2 DEF PushBack, TypeInv, FreeingInv, OwnerInv, KnownBuffers
<1>4. b \in 1..MaxBuffers
  BY <1>2, <1>3, Sizes DEF TypeInv, TypeOK
<1>5. /\ Len(free_list') = n + 1
      /\ \A i \in 1..n : free_list'[i] = free_list[i]
      /\ free_list'[n + 1] = b
  BY <1>4, ListPushed DEF PushBack, TypeInv
<1> HIDE DEF n, b
<1>6. \A c : InList(c)' <=> InList(c) \/ c = b
  <2>1. ASSUME NEW c, InList(c)' PROVE InList(c) \/ c = b
    <3>1. PICK i \in 1..(n + 1) : free_list'[i] = c
      BY <1>5, <2>1 DEF InList
    <3>2. i \in 1..n \/ i = n + 1
      BY <1>2
    <3> QED BY <1>5, <3>1, <3>2 DEF n, InList
  <2>2. ASSUME NEW c, InList(c) PROVE InList(c)'
    <3>1. PICK i \in 1..n : free_list[i] = c
      BY <2>2 DEF n, InList
    <3>2. i \in 1..(n + 1) /\ free_list'[i] = c
      BY <1>2, <1>5, <3>1
    <3> QED BY <1>5, <3>2 DEF InList
  <2>3. n + 1 \in 1..(n + 1)
    BY <1>2
  <2> QED BY <1>5, <2>1, <2>2, <2>3 DEF InList
<1>7. ~InList(b)
  BY <1>3 DEF b, OwnerInv, ApartInv
<1>8. KnownBuffers'
  <2>1. \A i \in 1..Len(free_list') : free_list'[i] \in 1..allocated
    <3> SUFFICES ASSUME NEW i \in 1..(n + 1) PROVE free_list'[i] \in 1..allocated
      BY <1>5
    <3>1. i \in 1..n \/ i = n + 1
      BY <1>2
    <3> QED BY <1>3, <1>5, <3>1 DEF n, OwnerInv, KnownBuffers
  <2> QED BY <1>1, <1>2, <2>1 DEF OwnerInv, KnownBuffers
<1>9. ApartInv'
  <2>1. \A i, j \in 1..Len(free_list') : free_list'[i] = free_list'[j] => i = j
    <3> SUFFICES ASSUME NEW i \in 1..(n + 1), NEW j \in 1..(n + 1),
                        free_list'[i] = free_list'[j]
                 PROVE  i = j
      BY <1>5
    <3>1. (i \in 1..n \/ i = n + 1) /\ (j \in 1..n \/ j = n + 1)
      BY <1>2
    <3>2. \A k \in 1..n : free_list[k] # b
      BY <1>7 DEF n, InList
    <3> QED BY <1>5, <3>1, <3>2 DEF n, OwnerInv, ApartInv
  <2>2. \A u \in Threads : \A c \in held'[u] : ~InList(c)'
    BY <1>1, <1>6 DEF b, OwnerInv, ApartInv
  <2>3. \A u \in Threads : freeing'[u] # 0 => ~InList(freeing'[u]) /\ freeing'[u] # b
    BY <1>1, <1>2, <1>3 DEF b, OwnerInv, ApartInv
  <2>4. \A u \in Threads : freeing'[u] # 0 => ~InList(freeing[u])'
    <3> SUFFICES ASSUME NEW u \in Threads, freeing'[u] # 0
                 PROVE  ~InList(freeing[u])'
      OBVIOUS
    <3>1. ~InList(freeing'[u]) /\ freeing'[u] # b
      BY <2>3
    <3>2. \A i \in 1..(n + 1) : free_list'[i] # freeing'[u]
      <4>1. \A i \in 1..n : free_list'[i] # freeing'[u]
        BY <1>5, <3>1 DEF n, InList
      <4> QED BY <1>2, <1>5, <3>1, <4>1
    <3> QED BY <1>5, <3>2 DEF InList
  <2>5. \A u, v \in Threads : freeing'[u] \notin held'[v]
    <3>1. \A v \in Threads : 0 \notin held[v]
      BY DEF OwnerInv, KnownBuffers
    <3> QED BY <1>1, <1>2, <3>1 DEF OwnerInv, ApartInv
  <2>6. \A u, v \in Threads : freeing'[u] = freeing'[v] /\ freeing'[u] # 0 => u = v
    BY <1>1, <1>2 DEF OwnerInv, ApartInv
  <2> QED BY <1>1, <2>1, <2>2, <2>4, <2>5, <2>6 DEF OwnerInv, ApartInv
<1>10. SomewhereInv'
  BY <1>1, <1>2, <1>6 DEF b, OwnerInv, SomewhereInv
<1> QED BY <1>8, <1>9, <1>10 DEF OwnerInv

\* A reader hands a buffer over to its consumer.
LEMMA OwnerInvHandOver ==
    ASSUME TypeInv, OwnerInv, NEW t \in Threads, NEW u \in Threads, HandOver(t, u)
    PROVE  OwnerInv'
<1>1. PICK b \in held[t] : held' = [held EXCEPT ![t] = @ \ {b}, ![u] = @ \cup {b}]
  BY DEF HandOver
<1>2. /\ free_list' = free_list /\ allocated' = allocated /\ freeing' = freeing
      /\ t # u
  BY DEF HandOver
<1>3. held \in [Threads -> SUBSET (1..MaxBuffers)]
  BY DEF TypeInv, TypeOK
<1>4. \A c : InList(c)' <=> InList(c)
  BY <1>2 DEF InList
<1>5. \A v \in Threads : held'[v] = IF v = t THEN held[t] \ {b}
                                    ELSE IF v = u THEN held[u] \cup {b} ELSE held[v]
  BY <1>1, <1>2, <1>3
<1>6. KnownBuffers'
  BY <1>2, <1>5 DEF OwnerInv, KnownBuffers
<1>7. ApartInv'
  <2>1. \A v \in Threads : \A c \in held'[v] : ~InList(c)'
    BY <1>4, <1>5 DEF OwnerInv, ApartInv
  <2>2. \A v, w \in Threads : v # w => held'[v] \cap held'[w] = {}
    BY <1>2, <1>5 DEF OwnerInv, ApartInv
  <2>3. \A v, w \in Threads : freeing'[v] \notin held'[w]
    BY <1>2, <1>5 DEF OwnerInv, ApartInv
  <2>4. \A v \in Threads : freeing'[v] # 0 => ~InList(freeing[v])'
    BY <1>2 DEF InList, OwnerInv, ApartInv
  <2> QED BY <1>2, <2>1, <2>2, <2>3, <2>4 DEF OwnerInv, ApartInv
<1>8. SomewhereInv'
  BY <1>2, <1>4, <1>5 DEF OwnerInv, SomewhereInv
<1> QED BY <1>6, <1>7, <1>8 DEF OwnerInv

\* Every step leaves every buffer with one owner.
LEMMA OwnerInvNext == TypeInv /\ OwnerInv /\ [Next]_vars => OwnerInv'
<1> SUFFICES ASSUME TypeInv, OwnerInv, [Next]_vars PROVE OwnerInv'
  OBVIOUS
<1>1. ASSUME UNCHANGED <<free_list, allocated, held, freeing>> PROVE OwnerInv'
  BY <1>1 DEF OwnerInv, KnownBuffers, ApartInv, SomewhereInv, InList
<1>2. ASSUME NEW t \in Threads, TakeFree(t) PROVE OwnerInv'
  BY <1>1, <1>2, OwnerInvPop DEF TakeFree
<1>3. ASSUME NEW t \in Threads, Locking(t) \/ CallAlloc(t) \/ CheckSize(t)
      PROVE  OwnerInv'
  BY <1>1, <1>3 DEF Locking, LockList, LockAllocation, CallAlloc, CheckSize
<1>4. CASE UNCHANGED vars
  BY <1>1, <1>4 DEF vars
<1> QED
  BY <1>2, <1>3, <1>4, OwnerInvAdd, OwnerInvFree, OwnerInvPush, OwnerInvHandOver
     DEF Next, Calling, Working

\* The number of owners that OneOwner counts is one.
LEMMA OwnerInvCounts == TypeInv /\ OwnerInv => OneOwner
<1> SUFFICES ASSUME TypeInv, OwnerInv, NEW b \in 1..allocated
             PROVE  Cardinality(
                {<<"list", i>> : i \in {j \in 1..Len(free_list) : free_list[j] = b}}
                \cup {<<"held", t>> : t \in {u \in Threads : b \in held[u]}}
                \cup {<<"freeing", t>> : t \in {u \in Threads : freeing[u] = b}}) = 1
  BY DEF OneOwner
<1> DEFINE L == {<<"list", i>> : i \in {j \in 1..Len(free_list) : free_list[j] = b}}
           H == {<<"held", t>> : t \in {u \in Threads : b \in held[u]}}
           F == {<<"freeing", t>> : t \in {u \in Threads : freeing[u] = b}}
<1>0. b # 0
  BY Typed DEF TypeInv
<1>1. \E x : L \cup H \cup F = {x}
  <2>1. CASE InList(b)
    <3>1. PICK i \in 1..Len(free_list) : free_list[i] = b
      BY <2>1 DEF InList
    <3>2. L = {<<"list", i>>}
      BY <3>1 DEF OwnerInv, ApartInv
    <3>3. H = {} /\ F = {}
      BY <1>0, <2>1 DEF OwnerInv, ApartInv
    <3> QED BY <3>2, <3>3
  <2>2. CASE ~InList(b) /\ \E t \in Threads : b \in held[t]
    <3>1. PICK t \in Threads : b \in held[t]
      BY <2>2
    <3>2. H = {<<"held", t>>}
      BY <3>1 DEF OwnerInv, ApartInv
    <3>3. L = {} /\ F = {}
      BY <2>2, <3>1 DEF InList, OwnerInv, ApartInv
    <3> QED BY <3>2, <3>3
  <2>3. CASE ~InList(b) /\ \E t \in Threads : freeing[t] = b
    <3>1. PICK t \in Threads : freeing[t] = b
      BY <2>3
    <3>2. F = {<<"freeing", t>>}
      BY <1>0, <3>1 DEF OwnerInv, ApartInv
    <3>3. L = {} /\ H = {}
      BY <2>3, <3>1 DEF InList, OwnerInv, ApartInv
    <3> QED BY <3>2, <3>3
  <2> QED BY <2>1, <2>2, <2>3 DEF OwnerInv, SomewhereInv
<1> QED BY <1>1, FS_Singleton

\* Every buffer ever carved out is on the free list once, with one thread, or on
\* its way back, for any number of threads and whatever the racy size test says.
THEOREM BufferHasOneOwner == Spec => []OneOwner
<1>1. Init => TypeInv /\ OwnerInv
  BY TypeInvInit, OwnerInvInit
<1>2. TypeInv /\ OwnerInv /\ [Next]_vars => (TypeInv /\ OwnerInv)'
  BY TypeInvNext, OwnerInvNext
<1> QED BY <1>1, <1>2, OwnerInvCounts, PTL DEF Spec

=============================================================================
