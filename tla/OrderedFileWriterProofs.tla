----------------------- MODULE OrderedFileWriterProofs -----------------------
(***************************************************************************)
(* OrderedFileWriter for any number of buckets, writers, I/O threads and   *)
(* requests: a request is in one place at a time, its vector holds all     *)
(* that is added to it, a ring what its counter says, and in the end the   *)
(* file of a bucket is complete: no hole, no overlap, each buffer once and *)
(* the sizes as reported.  Sums of sizes are sums over finite sets; what   *)
(* they are is proved by induction on the subsets, with the library's fact *)
(* that some subset is smallest.                                           *)
(***************************************************************************)
EXTENDS OrderedFileWriter, FiniteSetTheorems, TLAPS

\* Who else may have a request, next to the pool and the queue.
Filling(r) == {b \in Buckets \ cleaned : current[b] = r}
Submitting(r) == {w \in Writers : writer[w].request = r}
Ringing(r) == {t \in IOThreads : r \in InRing(t)}

-----------------------------------------------------------------------------
(* What is known of a reachable state                                      *)

\* What the vectors of a request hold does not matter.
ReqType ==
    \E O, V, Z : req \in [Pool -> [bucket : Buckets, offset : O, vectors : Seq(V), size : Z]]

\* The types of the variables on which the rest depends.
TypeInv ==
    /\ owner \in {"writing", "cleaning", "done"}
    /\ current \in [Buckets -> Pool]
    /\ cleaned \subseteq Buckets
    /\ writer \in [Writers -> [pc : {"idle", "needs_request", "submits"},
                               bucket : Buckets, request : Pool \cup {Nobody}]]
    /\ ReqType
    /\ free_requests \in Seq(Pool)
    /\ pending \in Seq(Pool)
    /\ in_ring \in [IOThreads -> Nat]
    /\ held \in [IOThreads -> SUBSET Pool]
    /\ in_flight \in [IOThreads -> SUBSET Pool]
    /\ reapable \in [IOThreads -> SUBSET Pool]

\* A writer has a request only to submit it; in CleanUp nobody writes.
WriterInv ==
    /\ \A w \in Writers : writer[w].pc = "submits" <=> writer[w].request \in Pool
    /\ owner = "writing" => cleaned = {}
    /\ owner # "writing" => \A w \in Writers : writer[w].pc = "idle"

\* Only finitely many have a request, in fact one.
HolderInv ==
    /\ \A r \in Pool : IsFiniteSet(Submitting(r)) /\ IsFiniteSet(Ringing(r))
    /\ OneHolder

\* What is in a ring, and how much.
RingInv ==
    \A t \in IOThreads :
        /\ held[t] \cap in_flight[t] = {}
        /\ held[t] \cap reapable[t] = {}
        /\ in_flight[t] \cap reapable[t] = {}
        /\ IsFiniteSet(InRing(t))
        /\ in_ring[t] = Cardinality(InRing(t))
        /\ in_ring[t] <= RingDepth

\* A free request is empty, and a bucket that nobody has locked has room for
\* one more buffer.
VectorInv ==
    /\ \A i \in DOMAIN free_requests : req[free_requests[i]].vectors = <<>>
    /\ \A b \in Buckets \ cleaned : LockFree(b) => Len(req[current[b]].vectors) < VectorSize
    /\ \A r \in Pool : Len(req[r].vectors) <= VectorSize

\* How the end comes about: the queue is closed after the last bucket, a thread
\* has no more once the queue is empty then, and leaves with an empty ring.
EndInv ==
    /\ pc \in [IOThreads -> {"loop", "reap", "fill", "exited"}]
    /\ has_more \in [IOThreads -> BOOLEAN]
    /\ ~pending_open => cleaned = Buckets /\ owner # "writing"
    /\ \A t \in IOThreads :
         /\ ~has_more[t] => ~pending_open /\ pending = <<>>
         /\ pc[t] = "exited" => ~has_more[t] /\ in_ring[t] = 0
    /\ owner = "done" => \A t \in IOThreads : pc[t] = "exited"

\* What is written, and what is on its way: a piece of a file, and where.
Block == [id : Nat, size : Nat \ {0}]
Vector == [blocks : Seq(Block), size : Nat \ {0}]
Request == [bucket : Buckets, offset : Nat, vectors : Seq(Vector), size : Nat]
Piece == [bucket : Buckets, at : Nat, size : Nat \ {0}, blocks : Seq(Block)]

LayoutTypes ==
    /\ req \in [Pool -> Request]
    /\ written \in [Buckets -> SUBSET Block]
    /\ misaligned \in [Buckets -> Seq(Block)]
    /\ file_size \in [Buckets -> Nat]
    /\ result \in [Buckets -> [file : Nat, true : Nat]]
    /\ disk \subseteq Piece

\* Sums over the elements of a set and over the first elements of a sequence.
SumOf(f, S) == MapThenSumSet(LAMBDA x : f[x], S)
Size(S) == SumOf([x \in S |-> x.size], S)
Count(S) == SumOf([x \in S |-> Len(x.blocks)], S)
FirstSizes(q, n) == SumOf([i \in 1..n |-> q[i].size], 1..n)

\* A request is as long as its vectors, and a vector as its blocks at least; a
\* request that is seen to be written is in its file.
RequestInv ==
    /\ \A r \in Pool :
         /\ req[r].size = FirstSizes(req[r].vectors, Len(req[r].vectors))
         /\ \A i \in DOMAIN req[r].vectors :
              BlockSizes(req[r].vectors[i].blocks) <= req[r].vectors[i].size
    /\ \A t \in IOThreads : \A r \in reapable[t] : Pieces(req[r]) \subseteq disk

\* Blocks are numbered in the order of Write.
AllWritten == UNION {written[b] : b \in Buckets}
NumberInv ==
    /\ IsFiniteSet(AllWritten)
    /\ \A x \in AllWritten : x.id <= Cardinality(AllWritten)

\* The pieces of the file of a bucket, those in memory included, and its end;
\* file_size is where the current request begins until it is found full.
AllPieces == disk \cup UNION {Pieces(req[r]) : r \in Pool}
Laid(b) == {d \in AllPieces : d.bucket = b}
End(b) == IF b \in cleaned THEN file_size[b] ELSE req[current[b]].offset + req[current[b]].size
Kept(b) == IF b \in cleaned THEN <<>> ELSE misaligned[b]

CursorInv ==
    \A b \in Buckets \ cleaned :
        /\ req[current[b]].bucket = b
        /\ file_size[b] = IF LockFree(b) THEN req[current[b]].offset ELSE End(b)

Multiple(n) == \E k \in 0..n : n = k * Page

\* The pieces are whole pages and lie one behind the other without a hole.
TilesUpTo(L, end) ==
    /\ IsFiniteSet(L) /\ L \subseteq Piece
    /\ \A d \in L : d.at + d.size <= end /\ Bytes(d) <= d.size
    /\ \A d, e \in L : d # e => d.at + d.size <= e.at \/ e.at + e.size <= d.at
    /\ Size(L) = end
    /\ Multiple(end)

\* Each block is in one piece or kept aside.
HoldsAll(L, kept, blocks) ==
    /\ IsFiniteSet(blocks)
    /\ \A x : x \in blocks <=> (\E d \in L : x \in ToSet(d.blocks)) \/ x \in ToSet(kept)
    /\ Count(L) + Len(kept) = Cardinality(blocks)

\* What CleanUp reports, and before, what it will have to report.
SizesInv(b) ==
    IF b \in cleaned
    THEN /\ Size(written[b]) = result[b].true
         /\ result[b].file = End(b) /\ result[b].true + Metadata <= End(b)
         /\ \A d \in Laid(b) : d.at + Bytes(d) <= result[b].true
    ELSE Size(written[b]) = End(b) + BlockSizes(misaligned[b])

FileInv(b) ==
    /\ TilesUpTo(Laid(b), End(b))
    /\ HoldsAll(Laid(b), Kept(b), written[b])
    /\ SizesInv(b)

FilesInv == \A b \in Buckets : FileInv(b)

LayoutInv == LayoutTypes /\ RequestInv /\ NumberInv /\ CursorInv /\ FilesInv

WriterRunInv ==
    TypeInv /\ WriterInv /\ HolderInv /\ RingInv /\ VectorInv /\ EndInv /\ LayoutInv

-----------------------------------------------------------------------------
(* Sequences                                                               *)

\* How often something is in a sequence that grows at its end.
LEMMA TimesAppend ==
    ASSUME NEW S, NEW s \in Seq(S), NEW x \in S, NEW r
    PROVE  /\ TimesIn(r, s) \in Nat
           /\ TimesIn(r, Append(s, x)) = TimesIn(r, s) + (IF x = r THEN 1 ELSE 0)
<1> DEFINE n == Len(s)
           at == {i \in 1..n : s[i] = r}
           q == Append(s, x)
<1>1. n \in Nat /\ DOMAIN s = 1..n
  OBVIOUS
<1>2. IsFiniteSet(1..n)
  BY <1>1, FS_Interval
<1>3. IsFiniteSet(at) /\ Cardinality(at) \in Nat
  BY <1>2, FS_Subset, FS_CardinalityType
<1>4. /\ DOMAIN q = 1..(n + 1) /\ q[n + 1] = x
      /\ \A i \in 1..n : q[i] = s[i]
  OBVIOUS
<1>5. TimesIn(r, s) = Cardinality(at)
  BY <1>1 DEF TimesIn
<1>6. TimesIn(r, q) = Cardinality({i \in 1..(n + 1) : q[i] = r})
  BY <1>4 DEF TimesIn
<1> HIDE DEF n, q
<1>7. CASE x = r
  <2>1. {i \in 1..(n + 1) : q[i] = r} = at \cup {n + 1} /\ n + 1 \notin at
    BY <1>1, <1>4, <1>7
  <2> QED BY <1>3, <1>5, <1>6, <1>7, <2>1, FS_AddElement DEF q
<1>8. CASE x # r
  <2>1. {i \in 1..(n + 1) : q[i] = r} = at
    BY <1>1, <1>4, <1>8
  <2>2. TimesIn(r, q) = TimesIn(r, s)
    BY <1>5, <1>6, <2>1
  <2> QED BY <1>3, <1>5, <1>8, <2>2 DEF q
<1> QED BY <1>7, <1>8

\* How often something is in a sequence that loses its head.
LEMMA TimesTail ==
    ASSUME NEW S, NEW s \in Seq(S), s # <<>>, NEW r
    PROVE  /\ Head(s) \in S /\ Tail(s) \in Seq(S) /\ TimesIn(r, Tail(s)) \in Nat
           /\ TimesIn(r, s) = TimesIn(r, Tail(s)) + (IF Head(s) = r THEN 1 ELSE 0)
           /\ \A i \in DOMAIN Tail(s) : \E j \in DOMAIN s : Tail(s)[i] = s[j]
<1> DEFINE n == Len(s) - 1
           q == Tail(s)
           new == {i \in 1..n : q[i] = r}
           moved == {i \in 2..(n + 1) : s[i] = r}
<1>1. n \in Nat /\ DOMAIN s = 1..(n + 1) /\ Head(s) = s[1] /\ q \in Seq(S) /\ Head(s) \in S
  OBVIOUS
<1>2. DOMAIN q = 1..n /\ \A i \in 1..n : q[i] = s[i + 1]
  OBVIOUS
<1>3. TimesIn(r, s) = Cardinality({i \in 1..(n + 1) : s[i] = r})
  BY <1>1 DEF TimesIn
<1>4. TimesIn(r, q) = Cardinality(new)
  BY <1>2 DEF TimesIn
<1> HIDE DEF n, q
<1>5. IsFiniteSet(new) /\ Cardinality(new) \in Nat
  <2>1. IsFiniteSet(1..n)
    BY <1>1, FS_Interval
  <2>2. IsFiniteSet(new)
    BY <2>1, FS_Subset
  <2> QED BY <2>2, FS_CardinalityType
<1>6. IsFiniteSet(moved) /\ Cardinality(moved) = Cardinality(new)
  <2> DEFINE f == [i \in new |-> i + 1]
  <2>1. f \in [new -> moved]
    BY <1>1, <1>2
  <2>2. \A i, j \in new : f[i] = f[j] => i = j
    BY <1>1
  <2>3. \A j \in moved : \E i \in new : f[i] = j
    <3> SUFFICES ASSUME NEW j \in moved PROVE \E i \in new : f[i] = j
      OBVIOUS
    <3>1. j - 1 \in new /\ (j - 1) + 1 = j
      BY <1>1, <1>2
    <3>2. f[j - 1] = j
      BY <3>1
    <3> QED BY <3>1, <3>2
  <2> HIDE DEF f, new, moved
  <2>4. f \in Bijection(new, moved)
    BY <2>1, <2>2, <2>3 DEF Bijection, Injection, IsInjective, Surjection
  <2> QED BY <1>5, <2>4, FS_Bijection DEF ExistsBijection
<1>7. \A i \in DOMAIN q : \E j \in DOMAIN s : q[i] = s[j]
  <2>1. ASSUME NEW i \in 1..n PROVE i + 1 \in 1..(n + 1)
    BY <1>1
  <2> QED BY <1>1, <1>2, <2>1
<1>8. TimesIn(r, q) \in Nat
  BY <1>4, <1>5
<1>9. CASE Head(s) = r
  <2>1. {i \in 1..(n + 1) : s[i] = r} = moved \cup {1} /\ 1 \notin moved
    BY <1>1, <1>9
  <2> HIDE DEF new, moved
  <2>2. Cardinality(moved \cup {1}) = Cardinality(moved) + 1
    BY <1>6, <2>1, FS_AddElement
  <2>3. TimesIn(r, s) = TimesIn(r, q) + 1
    BY <1>3, <1>4, <1>6, <2>1, <2>2
  <2> QED BY <1>1, <1>7, <1>8, <1>9, <2>3 DEF q
<1>10. CASE Head(s) # r
  <2>1. {i \in 1..(n + 1) : s[i] = r} = moved
    BY <1>1, <1>10
  <2>2. TimesIn(r, s) = TimesIn(r, q)
    BY <1>3, <1>4, <1>6, <2>1
  <2> QED BY <1>1, <1>7, <1>8, <1>10, <2>2 DEF q
<1> QED BY <1>9, <1>10

\* Something is in a sequence if it is there at least once.
LEMMA TimesType ==
    ASSUME NEW S, NEW s \in Seq(S), NEW r
    PROVE  /\ TimesIn(r, s) \in Nat
           /\ \A i \in DOMAIN s : s[i] = r => TimesIn(r, s) # 0
<1> DEFINE at == {j \in DOMAIN s : s[j] = r}
<1>1. IsFiniteSet(DOMAIN s)
  <2>1. DOMAIN s = 1..Len(s) /\ Len(s) \in Nat
    OBVIOUS
  <2> QED BY <2>1, FS_Interval
<1>2. IsFiniteSet(at)
  BY <1>1, FS_Subset
<1> QED BY <1>2, FS_EmptySet, FS_CardinalityType DEF TimesIn

-----------------------------------------------------------------------------
(* Types                                                                   *)

\* What the assumption says of the numbers.
LEMMA Sizes ==
    /\ NumBuckets \in Nat \ {0} /\ PoolPerBucket \in Nat /\ VectorSize \in Nat \ {0}
    /\ RingDepth \in Nat \ {0}
    /\ Buckets \subseteq Pool /\ Buckets # {} /\ Nobody \notin Pool
    /\ IsFiniteSet(Buckets)
<1>1. /\ NumBuckets \in Nat \ {0} /\ PoolPerBucket \in Nat /\ VectorSize \in Nat \ {0}
      /\ RingDepth \in Nat \ {0} /\ PoolPerBucket >= 2
  BY SizesAssumption
<1>2. PoolPerBucket * NumBuckets = NumBuckets + (PoolPerBucket - 1) * NumBuckets
      /\ (PoolPerBucket - 1) * NumBuckets \in Nat
  BY <1>1
<1>3. NumBuckets <= PoolPerBucket * NumBuckets /\ PoolPerBucket * NumBuckets \in Nat
  BY <1>1, <1>2
<1>4. Buckets \subseteq Pool /\ Buckets # {} /\ Nobody \notin Pool
  BY <1>1, <1>3 DEF Buckets, Pool, Nobody
<1>5. IsFiniteSet(Buckets)
  BY <1>1, FS_Interval DEF Buckets
<1> QED BY <1>1, <1>4, <1>5

\* A request to which something is added.
LEMMA AddPointerStep ==
    ASSUME TypeInv, NEW r \in Pool, NEW blocks, NEW size,
           req' = [req EXCEPT ![r] = AddPointer(req[r], blocks, size)]
    PROVE  /\ ReqType'
           /\ \A x \in Pool : x # r => req'[x] = req[x]
           /\ Len(req[r].vectors) \in Nat
           /\ req'[r] = AddPointer(req[r], blocks, size)
           /\ Len(req'[r].vectors) = Len(req[r].vectors) + 1
<1>1. PICK O, V, Z : req \in [Pool -> [bucket : Buckets, offset : O, vectors : Seq(V), size : Z]]
  BY DEF TypeInv, ReqType
<1> DEFINE e == [blocks |-> blocks, size |-> size]
           V2 == V \cup {e}
           Z2 == Z \cup {req[r].size + size}
           R2 == [bucket : Buckets, offset : O, vectors : Seq(V2), size : Z2]
<1>2. \A x \in Pool : req[x] \in R2
  <2>1. \A x \in Pool : /\ req[x].vectors \in Seq(V)
                        /\ req[x] \in [bucket : Buckets, offset : O, vectors : Seq(V), size : Z]
    BY <1>1
  <2> HIDE DEF e
  <2>2. Seq(V) \subseteq Seq(V2)
    OBVIOUS
  <2> HIDE DEF V2, Z2
  <2>3. Z \subseteq Z2
    BY DEF Z2
  <2> QED BY <2>1, <2>2, <2>3
<1>3. AddPointer(req[r], blocks, size)
        = [req[r] EXCEPT !.vectors = Append(req[r].vectors, e), !.size = req[r].size + size]
  BY DEF AddPointer
<1>4. req[r].vectors \in Seq(V2) /\ e \in V2 /\ req[r].size + size \in Z2
  BY <1>2
<1> HIDE DEF e, V2, Z2
<1>5. /\ Append(req[r].vectors, e) \in Seq(V2)
      /\ Len(Append(req[r].vectors, e)) = Len(req[r].vectors) + 1
      /\ Len(req[r].vectors) \in Nat
  BY <1>4
<1> DEFINE q == Append(req[r].vectors, e)
           z == req[r].size + size
<1>6. q \in Seq(V2) /\ z \in Z2 /\ Len(q) = Len(req[r].vectors) + 1
  BY <1>4, <1>5
<1>7. req' = [req EXCEPT ![r] = [req[r] EXCEPT !.vectors = q, !.size = z]]
  BY <1>3
<1> HIDE DEF q, z
<1>8. /\ [req[r] EXCEPT !.vectors = q, !.size = z] \in R2
      /\ [req[r] EXCEPT !.vectors = q, !.size = z].vectors = q
  BY <1>2, <1>6
<1>9. req'[r] = [req[r] EXCEPT !.vectors = q, !.size = z]
      /\ \A x \in Pool : x # r => req'[x] = req[x]
  BY <1>1, <1>7
<1>10. req' \in [Pool -> R2]
  BY <1>1, <1>2, <1>7, <1>8
<1>11. ReqType'
  BY <1>10 DEF ReqType
<1>12. req'[r] = AddPointer(req[r], blocks, size)
  BY <1>3, <1>9 DEF q, z
<1>13. Len(req'[r].vectors) = Len(req[r].vectors) + 1
  BY <1>6, <1>8, <1>9
<1> QED BY <1>5, <1>9, <1>11, <1>12, <1>13

\* A request that is taken from the pool, or emptied.
LEMMA RequestStep ==
    ASSUME TypeInv, NEW r \in Pool, NEW b \in Buckets, NEW offset,
           \/ req' = [req EXCEPT ![r].bucket = b, ![r].offset = offset]
           \/ req' = [req EXCEPT ![r].vectors = <<>>, ![r].size = 0]
    PROVE  /\ ReqType'
           /\ \A x \in Pool : x # r => req'[x] = req[x]
           /\ req'[r].vectors \in {req[r].vectors, <<>>}
           /\ req' = [req EXCEPT ![r].vectors = <<>>, ![r].size = 0]
                => req'[r].vectors = <<>>
<1>1. PICK O, V, Z : req \in [Pool -> [bucket : Buckets, offset : O, vectors : Seq(V), size : Z]]
  BY DEF TypeInv, ReqType
<1>2. CASE req' = [req EXCEPT ![r].bucket = b, ![r].offset = offset]
  <2> DEFINE O2 == O \cup {offset}
             R2 == [bucket : Buckets, offset : O2, vectors : Seq(V), size : Z]
             n == [req[r] EXCEPT !.bucket = b, !.offset = offset]
  <2>1. req' = [req EXCEPT ![r] = n]
    BY <1>1, <1>2
  <2>2. n \in R2 /\ n.vectors = req[r].vectors
    <3>1. req[r] \in [bucket : Buckets, offset : O, vectors : Seq(V), size : Z]
      BY <1>1
    <3>2. offset \in O2 /\ O \subseteq O2
      OBVIOUS
    <3> HIDE DEF O2
    <3> QED BY <3>1, <3>2
  <2> HIDE DEF n
  <2>3. req' \in [Pool -> R2] /\ req'[r] = n /\ \A x \in Pool : x # r => req'[x] = req[x]
    BY <1>1, <2>1, <2>2
  <2>4. ReqType'
    BY <2>3 DEF ReqType
  <2>5. req' = [req EXCEPT ![r].vectors = <<>>, ![r].size = 0] => req'[r].vectors = <<>>
    BY <1>1
  <2> QED BY <2>2, <2>3, <2>4, <2>5
<1>3. CASE req' = [req EXCEPT ![r].vectors = <<>>, ![r].size = 0]
  <2> DEFINE Z2 == Z \cup {0}
             R2 == [bucket : Buckets, offset : O, vectors : Seq(V), size : Z2]
             n == [req[r] EXCEPT !.vectors = <<>>, !.size = 0]
  <2>1. req' = [req EXCEPT ![r] = n]
    BY <1>1, <1>3
  <2>2. n \in R2 /\ n.vectors = <<>>
    <3>1. <<>> \in Seq(V) /\ 0 \in Z2
      OBVIOUS
    <3> HIDE DEF Z2
    <3>2. Z \subseteq Z2
      BY DEF Z2
    <3> QED BY <1>1, <3>1, <3>2
  <2> HIDE DEF n
  <2>3. req' \in [Pool -> R2] /\ req'[r] = n /\ \A x \in Pool : x # r => req'[x] = req[x]
    BY <1>1, <2>1, <2>2
  <2>4. ReqType'
    BY <2>3 DEF ReqType
  <2> QED BY <2>2, <2>3, <2>4
<1> QED BY <1>2, <1>3

\* The initial state.
LEMMA TypeInvInit == Init => TypeInv
<1> SUFFICES ASSUME Init PROVE TypeInv
  OBVIOUS
<1>1. current \in [Buckets -> Pool]
  BY Sizes DEF Init
<1>2. \A r \in Pool : (IF r \in Buckets THEN r ELSE 1) \in Buckets
  BY Sizes DEF Buckets
<1>3. req \in [Pool -> [bucket : Buckets, offset : {0}, vectors : Seq({}), size : {0}]]
  BY <1>2 DEF Init, Fresh
<1>4. free_requests \in Seq(Pool) /\ pending \in Seq(Pool)
  <2> DEFINE n == (PoolPerBucket - 1) * NumBuckets
  <2>1. n \in Nat /\ n + NumBuckets = PoolPerBucket * NumBuckets /\ NumBuckets \in Nat
    <3>1. PoolPerBucket \in Nat /\ PoolPerBucket >= 2 /\ NumBuckets \in Nat
      BY SizesAssumption
    <3> QED BY <3>1
  <2>2. free_requests = [i \in 1..n |-> NumBuckets + i] /\ pending = <<>>
    BY DEF Init
  <2> HIDE DEF n
  <2>3. \A i \in 1..n : NumBuckets + i \in Pool
    BY <2>1 DEF Pool
  <2> QED BY <2>1, <2>2, <2>3
<1>5. Idle \in [pc : {"idle", "needs_request", "submits"},
                bucket : Buckets, request : Pool \cup {Nobody}]
  BY Sizes DEF Idle, Buckets
<1> HIDE DEF Idle
<1>6. ReqType
  BY <1>3 DEF ReqType
<1> QED BY <1>1, <1>4, <1>5, <1>6 DEF Init, TypeInv

\* Every step keeps the types.
LEMMA TypeInvNext == TypeInv /\ WriterInv /\ [Next]_vars => TypeInv'
<1> SUFFICES ASSUME TypeInv, WriterInv, [Next]_vars PROVE TypeInv'
  OBVIOUS
<1> DEFINE WriterState == [pc : {"idle", "needs_request", "submits"},
                           bucket : Buckets, request : Pool \cup {Nobody}]
<1> ReqType /\ (UNCHANGED req => ReqType')
  <2>1. ReqType
    BY DEF TypeInv
  <2>2. ASSUME req' = req PROVE ReqType'
    <3>1. PICK O, V, Z : req \in [Pool -> [bucket : Buckets, offset : O,
                                           vectors : Seq(V), size : Z]]
      BY <2>1 DEF ReqType
    <3>2. req' \in [Pool -> [bucket : Buckets, offset : O, vectors : Seq(V), size : Z]]
      BY <2>2, <3>1
    <3> HIDE <2>2
    <3> QED BY <3>2 DEF ReqType
  <2> QED BY <2>1, <2>2
<1>1. ASSUME NEW w \in Writers, Write(w) PROVE TypeInv'
  <2>1. PICK b \in Buckets : WriteOdd(w, b) \/ WritePage(w, b)
    BY <1>1 DEF Write
  <2>2. UNCHANGED <<closing, free_requests, pending, io, current>>
    BY <1>1, <2>1 DEF Write, WriteOdd, WritePage
  <2>3. ReqType'
    <3>1. CASE WriteOdd(w, b)
      BY <3>1 DEF WriteOdd, TypeInv
    <3>2. CASE WritePage(w, b)
      <4>1. current[b] \in Pool
        BY DEF TypeInv
      <4> QED BY <3>2, <4>1, AddPointerStep DEF WritePage
    <3> QED BY <2>1, <3>1, <3>2
  <2>4. writer' \in [Writers -> WriterState]
    <3>1. UNCHANGED writer
          \/ writer' = [writer EXCEPT ![w].pc = "needs_request", ![w].bucket = b]
      BY <2>1 DEF WriteOdd, WritePage
    <3>2. [writer[w] EXCEPT !.pc = "needs_request", !.bucket = b] \in WriterState
      BY DEF TypeInv
    <3>3. UNCHANGED writer
          \/ writer' = [writer EXCEPT ![w] = [writer[w] EXCEPT !.pc = "needs_request",
                                                              !.bucket = b]]
      BY <3>1 DEF TypeInv
    <3> QED BY <3>2, <3>3 DEF TypeInv
  <2> QED BY <2>2, <2>3, <2>4 DEF TypeInv, closing, io
<1>2. ASSUME NEW w \in Writers, NewRequest(w) PROVE TypeInv'
  <2> DEFINE b == writer[w].bucket
             r == Head(free_requests)
  <2>1. b \in Buckets /\ r \in Pool /\ Tail(free_requests) \in Seq(Pool)
    <3>1. free_requests \in Seq(Pool) /\ free_requests # <<>>
      BY <1>2 DEF NewRequest, TypeInv
    <3>2. b \in Buckets
      BY DEF TypeInv
    <3> QED BY <3>1, <3>2
  <2>2. /\ free_requests' = Tail(free_requests) /\ current' = [current EXCEPT ![b] = r]
        /\ req' = [req EXCEPT ![r].bucket = b, ![r].offset = file_size[b]]
        /\ writer' = [writer EXCEPT ![w].pc = "submits", ![w].request = current[b]]
        /\ UNCHANGED <<closing, pending, io>>
    BY <1>2 DEF NewRequest
  <2> HIDE DEF b, r
  <2>3. ReqType'
    BY <2>1, <2>2, RequestStep
  <2>4. current' \in [Buckets -> Pool] /\ current[b] \in Pool
    BY <2>1, <2>2 DEF TypeInv
  <2>5. writer' \in [Writers -> WriterState]
    <3>1. [writer[w] EXCEPT !.pc = "submits", !.request = current[b]] \in WriterState
      BY <2>4 DEF TypeInv
    <3>2. writer' = [writer EXCEPT ![w] = [writer[w] EXCEPT !.pc = "submits",
                                                            !.request = current[b]]]
      BY <2>2 DEF TypeInv
    <3> QED BY <3>1, <3>2 DEF TypeInv
  <2> QED BY <2>1, <2>2, <2>3, <2>4, <2>5 DEF TypeInv, closing, io
<1>3. ASSUME NEW w \in Writers, SubmitRequest(w) PROVE TypeInv'
  <2>1. writer[w].request \in Pool
    BY <1>3 DEF SubmitRequest, WriterInv
  <2>2. pending' \in Seq(Pool)
    BY <1>3, <2>1 DEF SubmitRequest, TypeInv
  <2>3. Idle \in WriterState
    BY Sizes DEF Idle, Buckets
  <2> HIDE DEF Idle
  <2>4. writer' \in [Writers -> WriterState]
    BY <1>3, <2>3 DEF SubmitRequest, TypeInv
  <2> QED BY <1>3, <2>2, <2>4 DEF SubmitRequest, TypeInv, buckets, closing, io
<1>4. ASSUME NEW b \in Buckets, CleanUpBucket(b) PROVE TypeInv'
  <2>1. current[b] \in Pool
    BY DEF TypeInv
  <2>2. pending' \in Seq(Pool)
    BY <1>4, <2>1 DEF CleanUpBucket, TypeInv
  <2>3. ReqType'
    BY <1>4, <2>1, AddPointerStep DEF CleanUpBucket
  <2>4. cleaned' \subseteq Buckets
    BY <1>4 DEF CleanUpBucket, TypeInv
  <2> QED BY <1>4, <2>2, <2>3, <2>4 DEF CleanUpBucket, TypeInv, io
<1>5. CASE CallCleanUp \/ ClosePending \/ Join
  BY <1>5 DEF CallCleanUp, ClosePending, Join, TypeInv, buckets, io
<1>6. ASSUME NEW t \in IOThreads, Loop(t) \/ NothingToReap(t) PROVE TypeInv'
  BY <1>6 DEF Loop, NothingToReap, TypeInv, buckets, closing
<1>7. ASSUME NEW t \in IOThreads, Reap(t) PROVE TypeInv'
  <2>1. PICK r \in reapable[t] :
          /\ Seen(t, r) /\ GiveBack(r)
          /\ req' = [req EXCEPT ![r].vectors = <<>>, ![r].size = 0]
    BY <1>7 DEF Reap
  <2>2. r \in Pool
    BY DEF TypeInv
  <2>3. PICK b : b \in Buckets
    BY Sizes
  <2>4. ReqType'
    BY <2>1, <2>2, <2>3, RequestStep
  <2>5. free_requests' \in Seq(Pool)
    BY <2>1, <2>2 DEF GiveBack, TypeInv
  <2>6. in_ring' \in [IOThreads -> Nat]
    BY <1>7 DEF Reap, TypeInv
  <2>7. reapable' \in [IOThreads -> SUBSET Pool]
    BY <2>1 DEF Seen, TypeInv
  <2> QED BY <1>7, <2>4, <2>5, <2>6, <2>7 DEF Reap, TypeInv, buckets, closing
<1>8. ASSUME NEW t \in IOThreads, Prepare(t) PROVE TypeInv'
  <2>1. Head(pending) \in Pool /\ Tail(pending) \in Seq(Pool)
    <3>1. pending \in Seq(Pool) /\ pending # <<>>
      BY <1>8 DEF Prepare, TypeInv
    <3> QED BY <3>1
  <2>2. held' \in [IOThreads -> SUBSET Pool] /\ in_ring' \in [IOThreads -> Nat]
    BY <1>8, <2>1 DEF Prepare, TypeInv
  <2> QED BY <1>8, <2>1, <2>2 DEF Prepare, TypeInv, buckets, closing
<1>9. ASSUME NEW t \in IOThreads, Submit(t) PROVE TypeInv'
  <2>1. held' \in [IOThreads -> SUBSET Pool] /\ in_flight' \in [IOThreads -> SUBSET Pool]
    BY <1>9 DEF Submit, TypeInv
  <2> QED BY <1>9, <2>1 DEF Submit, TypeInv, buckets, closing
<1>10. ASSUME NEW t \in IOThreads, Complete(t) PROVE TypeInv'
  <2>1. /\ in_flight' \in [IOThreads -> SUBSET Pool]
        /\ reapable' \in [IOThreads -> SUBSET Pool]
    BY <1>10 DEF Complete, TypeInv
  <2> QED BY <1>10, <2>1 DEF Complete, TypeInv, buckets, closing
<1>11. CASE UNCHANGED vars
  BY <1>11 DEF vars, buckets, closing, io, TypeInv
<1> QED
  BY <1>1, <1>2, <1>3, <1>4, <1>5, <1>6, <1>7, <1>8, <1>9, <1>10, <1>11
     DEF Next, Writer, Owner, IOThread

-----------------------------------------------------------------------------
(* Writers                                                                 *)

\* Every step keeps what is known of the writers.
LEMMA WriterInvNext == TypeInv /\ WriterInv /\ [Next]_vars => WriterInv'
<1> SUFFICES ASSUME TypeInv, WriterInv, [Next]_vars PROVE WriterInv'
  OBVIOUS
<1>1. ASSUME NEW w \in Writers, Write(w) PROVE WriterInv'
  <2>1. UNCHANGED <<owner, cleaned>> /\ owner = "writing" /\ writer[w].pc = "idle"
        /\ \/ UNCHANGED writer
           \/ \E b : writer' = [writer EXCEPT ![w].pc = "needs_request", ![w].bucket = b]
    BY <1>1 DEF Write, WriteOdd, WritePage, closing
  <2>2. /\ writer'[w].pc # "submits" /\ writer'[w].request = writer[w].request
        /\ \A v \in Writers : v # w => writer'[v] = writer[v]
    BY <2>1 DEF TypeInv
  <2>3. \A v \in Writers : writer'[v].pc = "submits" <=> writer'[v].request \in Pool
    BY <2>1, <2>2 DEF WriterInv
  <2> QED BY <2>1, <2>3 DEF WriterInv
<1>2. ASSUME NEW w \in Writers, NewRequest(w) PROVE WriterInv'
  <2>1. UNCHANGED <<owner, cleaned>> /\ owner = "writing"
    BY <1>2 DEF NewRequest, closing, WriterInv
  <2>2. current[writer[w].bucket] \in Pool
    BY DEF TypeInv
  <2>3. /\ writer'[w].pc = "submits" /\ writer'[w].request \in Pool
        /\ \A v \in Writers : v # w => writer'[v] = writer[v]
    BY <1>2, <2>2 DEF NewRequest, TypeInv
  <2> QED BY <2>1, <2>3 DEF WriterInv
<1>3. ASSUME NEW w \in Writers, SubmitRequest(w) PROVE WriterInv'
  <2>1. UNCHANGED <<owner, cleaned>>
    BY <1>3 DEF SubmitRequest, closing
  <2>2. Idle.pc = "idle" /\ Idle.request \notin Pool
    BY Sizes DEF Idle
  <2>3. writer'[w] = Idle /\ \A v \in Writers : v # w => writer'[v] = writer[v]
    BY <1>3 DEF SubmitRequest, TypeInv
  <2> QED BY <2>1, <2>2, <2>3 DEF WriterInv
<1>4. ASSUME NEW b \in Buckets, CleanUpBucket(b) PROVE WriterInv'
  BY <1>4 DEF CleanUpBucket, WriterInv
<1>5. CASE CallCleanUp \/ ClosePending \/ Join
  BY <1>5 DEF CallCleanUp, ClosePending, Join, WriterInv
<1>6. ASSUME NEW t \in IOThreads, IOThread(t) \/ Complete(t) PROVE WriterInv'
  <2>1. UNCHANGED <<owner, cleaned, writer>>
    BY <1>6 DEF IOThread, Loop, Reap, NothingToReap, Prepare, Submit, Complete, closing
  <2> QED BY <2>1 DEF WriterInv
<1>7. CASE UNCHANGED vars
  BY <1>7 DEF vars, closing, WriterInv
<1> QED BY <1>1, <1>2, <1>3, <1>4, <1>5, <1>6, <1>7 DEF Next, Writer, Owner

-----------------------------------------------------------------------------
(* Requests                                                                *)

\* How many places hold a request.
Holders(r) ==
    TimesIn(r, free_requests) + TimesIn(r, pending) + Cardinality(Filling(r))
    + Cardinality(Submitting(r)) + Cardinality(Ringing(r))

\* One more if two requests are the same.
One(r, x) == IF r = x THEN 1 ELSE 0

\* The numbers of holders are numbers.
LEMMA Counts ==
    ASSUME TypeInv, HolderInv, NEW r \in Pool
    PROVE  /\ TimesIn(r, free_requests) \in Nat /\ TimesIn(r, pending) \in Nat
           /\ IsFiniteSet(Filling(r)) /\ Cardinality(Filling(r)) \in Nat
           /\ IsFiniteSet(Submitting(r)) /\ Cardinality(Submitting(r)) \in Nat
           /\ IsFiniteSet(Ringing(r)) /\ Cardinality(Ringing(r)) \in Nat
           /\ Holders(r) = 1
<1>1. TimesIn(r, free_requests) \in Nat /\ TimesIn(r, pending) \in Nat
  BY TimesType DEF TypeInv
<1>2. IsFiniteSet(Filling(r))
  <2>1. Filling(r) \in SUBSET Buckets
    BY DEF Filling
  <2> QED BY <2>1, Sizes, FS_Subset
<1>3. IsFiniteSet(Submitting(r)) /\ IsFiniteSet(Ringing(r))
  BY DEF HolderInv
<1>4. Holders(r) = 1
  BY DEF HolderInv, OneHolder, Holders, Filling, Submitting, Ringing
<1> QED BY <1>1, <1>2, <1>3, <1>4, FS_CardinalityType

\* A set that gets one more, or one less.
LEMMA SetSteps ==
    ASSUME NEW S, IsFiniteSet(S), NEW x
    PROVE  /\ IsFiniteSet(S \cup {x}) /\ IsFiniteSet(S \ {x})
           /\ x \notin S => Cardinality(S \cup {x}) = Cardinality(S) + 1
           /\ x \in S => Cardinality(S \ {x}) = Cardinality(S) - 1
BY FS_AddElement, FS_RemoveElement

\* Where a thread has its requests.
LEMMA RingSteps ==
    ASSUME TypeInv, RingInv, NEW t \in IOThreads
    PROVE  /\ Reap(t) =>
                \E r \in reapable[t] :
                  /\ r \in Pool /\ r \in InRing(t)
                  /\ \A u \in IOThreads :
                       InRing(u)' = IF u = t THEN InRing(t) \ {r} ELSE InRing(u)
                  /\ free_requests' = Append(free_requests, r)
                  /\ req' = [req EXCEPT ![r].vectors = <<>>, ![r].size = 0]
           /\ Prepare(t) =>
                \A u \in IOThreads :
                  InRing(u)' = IF u = t THEN InRing(t) \cup {Head(pending)} ELSE InRing(u)
           /\ Loop(t) \/ NothingToReap(t) \/ Submit(t) \/ Complete(t) =>
                \A u \in IOThreads : InRing(u)' = InRing(u)
<1>1. ASSUME Reap(t)
      PROVE  \E r \in reapable[t] :
               /\ r \in Pool /\ r \in InRing(t)
               /\ \A u \in IOThreads :
                    InRing(u)' = IF u = t THEN InRing(t) \ {r} ELSE InRing(u)
               /\ free_requests' = Append(free_requests, r)
               /\ req' = [req EXCEPT ![r].vectors = <<>>, ![r].size = 0]
  <2>1. PICK r \in reapable[t] :
          /\ Seen(t, r) /\ free_requests' = Append(free_requests, r)
          /\ req' = [req EXCEPT ![r].vectors = <<>>, ![r].size = 0]
    BY <1>1 DEF Reap, GiveBack
  <2>2. UNCHANGED <<held, in_flight>>
    BY <1>1 DEF Reap
  <2>3. r \in Pool /\ r \in InRing(t)
    BY DEF TypeInv, InRing
  <2>4. \A u \in IOThreads : InRing(u)' = IF u = t THEN InRing(t) \ {r} ELSE InRing(u)
    BY <2>1, <2>2 DEF Seen, InRing, RingInv, TypeInv
  <2> QED BY <2>1, <2>3, <2>4
<1>2. ASSUME Prepare(t)
      PROVE  \A u \in IOThreads :
               InRing(u)' = IF u = t THEN InRing(t) \cup {Head(pending)} ELSE InRing(u)
  BY <1>2 DEF Prepare, InRing, TypeInv
<1>3. ASSUME Loop(t) \/ NothingToReap(t) \/ Submit(t) \/ Complete(t)
      PROVE  \A u \in IOThreads : InRing(u)' = InRing(u)
  <2>1. CASE Loop(t) \/ NothingToReap(t)
    BY <2>1 DEF Loop, NothingToReap, InRing
  <2>2. CASE Submit(t)
    BY <2>2 DEF Submit, InRing, TypeInv
  <2>3. CASE Complete(t)
    BY <2>3 DEF Complete, InRing, TypeInv
  <2> QED BY <1>3, <2>1, <2>2, <2>3
<1> QED BY <1>1, <1>2, <1>3

\* The initial state.
LEMMA HolderInvInit == Init => HolderInv /\ RingInv
<1> SUFFICES ASSUME Init PROVE HolderInv /\ RingInv
  OBVIOUS
<1>1. \A t \in IOThreads : InRing(t) = {}
  BY DEF Init, InRing
<1>2. \A r \in Pool : Submitting(r) = {} /\ Ringing(r) = {}
  <2>1. \A w \in Writers : writer[w].request = Nobody
    BY DEF Init, Idle
  <2> QED BY <1>1, <2>1, Sizes DEF Submitting, Ringing
<1>3. ASSUME NEW r \in Pool PROVE Holders(r) = 1
  <2> DEFINE n == (PoolPerBucket - 1) * NumBuckets
  <2>1. n \in Nat /\ n + NumBuckets = PoolPerBucket * NumBuckets /\ NumBuckets \in Nat
    <3>1. PoolPerBucket \in Nat /\ PoolPerBucket >= 2 /\ NumBuckets \in Nat
      BY SizesAssumption
    <3> QED BY <3>1
  <2>2. free_requests = [i \in 1..n |-> NumBuckets + i] /\ pending = <<>>
    BY DEF Init
  <2> HIDE DEF n
  <2>3. r \in 1..(n + NumBuckets)
    BY <2>1 DEF Pool
  <2>4. TimesIn(r, pending) = 0
    <3>1. {i \in DOMAIN pending : pending[i] = r} = {}
      BY <2>2
    <3> QED BY <3>1, FS_EmptySet DEF TimesIn
  <2>5. \A b \in Buckets : current[b] = b /\ cleaned = {}
    BY DEF Init
  <2>6. Cardinality(Submitting(r)) = 0 /\ Cardinality(Ringing(r)) = 0
    BY <1>2, FS_EmptySet
  <2>7. CASE r \in Buckets
    <3>1. Filling(r) = {r}
      BY <2>5, <2>7 DEF Filling
    <3>2. {i \in DOMAIN free_requests : free_requests[i] = r} = {}
      BY <2>1, <2>2, <2>7 DEF Buckets
    <3>3. TimesIn(r, free_requests) = 0
      BY <3>2, FS_EmptySet DEF TimesIn
    <3>4. Cardinality(Filling(r)) = 1
      BY <3>1, FS_Singleton
    <3> QED BY <2>4, <2>6, <3>3, <3>4 DEF Holders
  <2>8. CASE r \notin Buckets
    <3>1. Filling(r) = {}
      BY <2>5, <2>8 DEF Filling
    <3>2. {i \in DOMAIN free_requests : free_requests[i] = r} = {r - NumBuckets}
      BY <2>1, <2>2, <2>3, <2>8 DEF Buckets
    <3>3. TimesIn(r, free_requests) = 1
      BY <3>2, FS_Singleton DEF TimesIn
    <3>4. Cardinality(Filling(r)) = 0
      BY <3>1, FS_EmptySet
    <3> QED BY <2>4, <2>6, <3>3, <3>4 DEF Holders
  <2> QED BY <2>7, <2>8
<1>4. HolderInv
  BY <1>2, <1>3, FS_EmptySet
     DEF HolderInv, OneHolder, Holders, Filling, Submitting, Ringing
<1>5. RingInv
  <2>1. /\ \A t \in IOThreads : /\ held[t] = {} /\ in_flight[t] = {} /\ reapable[t] = {}
                                /\ in_ring[t] = 0
        /\ 0 <= RingDepth
    BY Sizes DEF Init
  <2> QED BY <1>1, <2>1, FS_EmptySet DEF RingInv
<1> QED BY <1>4, <1>5

\* Every step keeps a request in one place.
LEMMA HolderInvNext ==
    TypeInv /\ WriterInv /\ HolderInv /\ RingInv /\ [Next]_vars => HolderInv'
<1> SUFFICES ASSUME TypeInv, WriterInv, HolderInv, RingInv, [Next]_vars PROVE HolderInv'
  OBVIOUS
<1>1. ASSUME \A x \in Pool : /\ IsFiniteSet(Submitting(x)') /\ IsFiniteSet(Ringing(x)')
                             /\ Holders(x)' = 1
      PROVE  HolderInv'
  BY <1>1 DEF HolderInv, OneHolder, Holders, Filling, Submitting, Ringing
<1>2. ASSUME UNCHANGED <<free_requests, pending, cleaned, current>>,
             \A w \in Writers : writer'[w].request = writer[w].request,
             \A t \in IOThreads : InRing(t)' = InRing(t)
      PROVE  HolderInv'
  <2>1. \A x \in Pool : /\ Filling(x)' = Filling(x) /\ Submitting(x)' = Submitting(x)
                        /\ Ringing(x)' = Ringing(x)
    BY <1>2 DEF Filling, Submitting, Ringing
  <2>2. \A x \in Pool : Holders(x)' = Holders(x)
    BY <1>2, <2>1 DEF Holders
  <2> QED BY <1>1, <2>1, <2>2, Counts
<1>3. ASSUME UNCHANGED io PROVE \A x : Ringing(x)' = Ringing(x)
  BY <1>3 DEF io, Ringing, InRing
<1>4. ASSUME NEW w \in Writers, Write(w) PROVE HolderInv'
  <2>1. /\ UNCHANGED <<closing, free_requests, pending, io, current>>
        /\ \/ UNCHANGED writer
           \/ \E b : writer' = [writer EXCEPT ![w].pc = "needs_request", ![w].bucket = b]
    BY <1>4 DEF Write, WriteOdd, WritePage
  <2>2. \A v \in Writers : writer'[v].request = writer[v].request
    <3>1. ASSUME NEW b, writer' = [writer EXCEPT ![w].pc = "needs_request", ![w].bucket = b]
          PROVE  \A v \in Writers : writer'[v].request = writer[v].request
      BY <3>1 DEF TypeInv
    <3> QED BY <2>1, <3>1
  <2>3. \A t \in IOThreads : InRing(t)' = InRing(t)
    BY <2>1 DEF io, InRing
  <2> QED BY <1>2, <2>1, <2>2, <2>3 DEF closing
<1>5. ASSUME NEW w \in Writers, NewRequest(w) PROVE HolderInv'
  <2> DEFINE b == writer[w].bucket
             c == current[b]
             r == Head(free_requests)
  <2>1. /\ free_requests # <<>> /\ free_requests' = Tail(free_requests)
        /\ current' = [current EXCEPT ![b] = r]
        /\ writer' = [writer EXCEPT ![w].pc = "submits", ![w].request = c]
        /\ UNCHANGED <<pending, io, cleaned>> /\ writer[w].pc = "needs_request"
    BY <1>5 DEF NewRequest, closing
  <2>2. b \in Buckets \ cleaned
    BY <2>1 DEF TypeInv, WriterInv
  <2>3. writer[w].request \notin Pool
    BY <2>1 DEF WriterInv
  <2>4. /\ current'[b] = r /\ \A d \in Buckets : d # b => current'[d] = current[d]
        /\ writer'[w].request = c
        /\ \A v \in Writers : v # w => writer'[v] = writer[v]
    BY <2>1, <2>2 DEF TypeInv
  <2> HIDE DEF b, c, r
  <2>5. ASSUME NEW x \in Pool
        PROVE  IsFiniteSet(Submitting(x)') /\ IsFiniteSet(Ringing(x)') /\ Holders(x)' = 1
    <3>1. TimesIn(x, free_requests) = TimesIn(x, free_requests)' + One(r, x)
          /\ TimesIn(x, free_requests)' \in Nat
      BY <2>1, TimesTail DEF TypeInv, One, r
    <3>2. /\ IsFiniteSet(Submitting(x)')
          /\ Cardinality(Submitting(x)') = Cardinality(Submitting(x)) + One(c, x)
      <4>1. w \notin Submitting(x)
        BY <2>3 DEF Submitting
      <4>2. Submitting(x)' = IF c = x THEN Submitting(x) \cup {w} ELSE Submitting(x)
        BY <2>3, <2>4 DEF Submitting
      <4> QED BY <4>1, <4>2, Counts, SetSteps DEF One
    <3>3. Cardinality(Filling(x)') = Cardinality(Filling(x)) + One(r, x) - One(c, x)
      <4>1. b \in Filling(x) <=> c = x
        BY <2>2 DEF Filling, c
      <4>2. Filling(x)' = IF r = x THEN Filling(x) \cup {b} ELSE Filling(x) \ {b}
        BY <2>1, <2>2, <2>4 DEF Filling
      <4>3. b \in Filling(x) => Filling(x) \cup {b} = Filling(x)
        OBVIOUS
      <4>4. b \notin Filling(x) => Filling(x) \ {b} = Filling(x)
        OBVIOUS
      <4>5. /\ b \notin Filling(x) => Cardinality(Filling(x) \cup {b}) = Cardinality(Filling(x)) + 1
            /\ b \in Filling(x) => Cardinality(Filling(x) \ {b}) = Cardinality(Filling(x)) - 1
            /\ Cardinality(Filling(x)) \in Nat
        BY Counts, SetSteps
      <4>6. CASE r = x
        <5>1. /\ Cardinality(Filling(x)') = Cardinality(Filling(x) \cup {b})
              /\ b \in Filling(x) => Cardinality(Filling(x)') = Cardinality(Filling(x))
          BY <4>2, <4>3, <4>6, Zenon
        <5> QED BY <4>1, <4>5, <4>6, <5>1 DEF One
      <4>7. CASE r # x
        <5>1. /\ Cardinality(Filling(x)') = Cardinality(Filling(x) \ {b})
              /\ b \notin Filling(x) => Cardinality(Filling(x)') = Cardinality(Filling(x))
          BY <4>2, <4>4, <4>7, Zenon
        <5> QED BY <4>1, <4>5, <4>7, <5>1 DEF One
      <4> QED BY <4>6, <4>7
    <3>4. Ringing(x)' = Ringing(x)
      BY <1>3, <2>1
    <3>5. One(r, x) \in Int /\ One(c, x) \in Int
      BY DEF One
    <3>6. /\ IsFiniteSet(Ringing(x)')
          /\ Holders(x)' = TimesIn(x, free_requests)' + TimesIn(x, pending)
                           + Cardinality(Filling(x)') + Cardinality(Submitting(x)')
                           + Cardinality(Ringing(x))
      BY <2>1, <3>4, Counts DEF Holders
    <3>7. Holders(x)' = Holders(x)
      BY <3>1, <3>2, <3>3, <3>5, <3>6, Counts DEF Holders
    <3> QED BY <3>2, <3>6, <3>7, Counts
  <2> QED BY <1>1, <2>5
<1>6. ASSUME NEW w \in Writers, SubmitRequest(w) PROVE HolderInv'
  <2> DEFINE q == writer[w].request
  <2>1. /\ pending' = Append(pending, q) /\ writer' = [writer EXCEPT ![w] = Idle]
        /\ UNCHANGED <<free_requests, current, cleaned, io>> /\ q \in Pool
    BY <1>6 DEF SubmitRequest, buckets, closing, WriterInv
  <2>2. writer'[w].request \notin Pool /\ \A v \in Writers : v # w => writer'[v] = writer[v]
    BY <2>1, Sizes DEF Idle, TypeInv
  <2>3. ASSUME NEW x \in Pool
        PROVE  IsFiniteSet(Submitting(x)') /\ IsFiniteSet(Ringing(x)') /\ Holders(x)' = 1
    <3>1. TimesIn(x, pending)' = TimesIn(x, pending) + One(q, x)
      BY <2>1, TimesAppend DEF TypeInv, One
    <3>2. /\ IsFiniteSet(Submitting(x)')
          /\ Cardinality(Submitting(x)') = Cardinality(Submitting(x)) - One(q, x)
      <4>1. w \in Submitting(x) <=> q = x
        BY DEF Submitting
      <4>2. Submitting(x)' = IF q = x THEN Submitting(x) \ {w} ELSE Submitting(x)
        BY <2>2 DEF Submitting
      <4> QED BY <4>1, <4>2, Counts, SetSteps DEF One
    <3>3. Filling(x)' = Filling(x) /\ Ringing(x)' = Ringing(x)
      BY <1>3, <2>1 DEF Filling
    <3> QED BY <2>1, <3>1, <3>2, <3>3, Counts DEF Holders, One
  <2> QED BY <1>1, <2>3
<1>7. ASSUME NEW b \in Buckets, CleanUpBucket(b) PROVE HolderInv'
  <2> DEFINE c == current[b]
  <2>1. /\ pending' = Append(pending, c) /\ cleaned' = cleaned \cup {b} /\ b \notin cleaned
        /\ UNCHANGED <<free_requests, current, writer, io>>
    BY <1>7 DEF CleanUpBucket
  <2>2. c \in Pool
    BY DEF TypeInv
  <2>3. ASSUME NEW x \in Pool
        PROVE  IsFiniteSet(Submitting(x)') /\ IsFiniteSet(Ringing(x)') /\ Holders(x)' = 1
    <3>1. TimesIn(x, pending)' = TimesIn(x, pending) + One(c, x)
      BY <2>1, <2>2, TimesAppend DEF TypeInv, One
    <3>2. Cardinality(Filling(x)') = Cardinality(Filling(x)) - One(c, x)
      <4>1. b \in Filling(x) <=> c = x
        BY <2>1 DEF Filling
      <4>2. Filling(x)' = Filling(x) \ {b}
        BY <2>1 DEF Filling
      <4>3. b \notin Filling(x) => Filling(x) \ {b} = Filling(x)
        OBVIOUS
      <4>4. /\ b \in Filling(x) => Cardinality(Filling(x) \ {b}) = Cardinality(Filling(x)) - 1
            /\ Cardinality(Filling(x)) \in Nat
        BY Counts, SetSteps
      <4> QED BY <4>1, <4>2, <4>3, <4>4 DEF One
    <3>3. Submitting(x)' = Submitting(x) /\ Ringing(x)' = Ringing(x)
      BY <1>3, <2>1 DEF Submitting
    <3> QED BY <2>1, <3>1, <3>2, <3>3, Counts DEF Holders, One
  <2> QED BY <1>1, <2>3
<1>8. CASE CallCleanUp \/ ClosePending \/ Join \/ UNCHANGED vars
  <2>1. UNCHANGED <<free_requests, pending, cleaned, current, writer, io>>
    BY <1>8 DEF CallCleanUp, ClosePending, Join, vars, buckets, closing
  <2>2. \A t \in IOThreads : InRing(t)' = InRing(t)
    BY <2>1 DEF io, InRing
  <2> QED BY <1>2, <2>1, <2>2
<1>9. ASSUME NEW t \in IOThreads, Reap(t) PROVE HolderInv'
  <2>1. PICK r \in reapable[t] :
          /\ r \in Pool /\ r \in InRing(t)
          /\ \A u \in IOThreads : InRing(u)' = IF u = t THEN InRing(t) \ {r} ELSE InRing(u)
          /\ free_requests' = Append(free_requests, r)
    BY <1>9, RingSteps
  <2>2. UNCHANGED <<pending, current, cleaned, writer>>
    BY <1>9 DEF Reap, buckets, closing
  <2>3. ASSUME NEW x \in Pool
        PROVE  IsFiniteSet(Submitting(x)') /\ IsFiniteSet(Ringing(x)') /\ Holders(x)' = 1
    <3>1. TimesIn(x, free_requests)' = TimesIn(x, free_requests) + One(r, x)
      BY <2>1, TimesAppend DEF TypeInv, One
    <3>2. /\ IsFiniteSet(Ringing(x)')
          /\ Cardinality(Ringing(x)') = Cardinality(Ringing(x)) - One(r, x)
      <4>1. r = x => t \in Ringing(x)
        BY <2>1 DEF Ringing
      <4>2. Ringing(x)' = IF r = x THEN Ringing(x) \ {t} ELSE Ringing(x)
        BY <2>1 DEF Ringing
      <4> QED BY <4>1, <4>2, Counts, SetSteps DEF One
    <3>3. Filling(x)' = Filling(x) /\ Submitting(x)' = Submitting(x)
      BY <2>2 DEF Filling, Submitting
    <3> QED BY <2>2, <3>1, <3>2, <3>3, Counts DEF Holders, One
  <2> QED BY <1>1, <2>3
<1>10. ASSUME NEW t \in IOThreads, Prepare(t) PROVE HolderInv'
  <2> DEFINE r == Head(pending)
  <2>1. \A u \in IOThreads : InRing(u)' = IF u = t THEN InRing(t) \cup {r} ELSE InRing(u)
    BY <1>10, RingSteps
  <2>2. /\ pending # <<>> /\ pending' = Tail(pending)
        /\ UNCHANGED <<free_requests, current, cleaned, writer>>
    BY <1>10 DEF Prepare, buckets, closing
  <2> HIDE DEF r
  <2>3. ASSUME NEW x \in Pool
        PROVE  IsFiniteSet(Submitting(x)') /\ IsFiniteSet(Ringing(x)') /\ Holders(x)' = 1
    <3>1. TimesIn(x, pending) = TimesIn(x, pending)' + One(r, x) /\ TimesIn(x, pending)' \in Nat
      BY <2>2, TimesTail DEF TypeInv, One, r
    <3>2. /\ IsFiniteSet(Ringing(x)')
          /\ Cardinality(Ringing(x)') = Cardinality(Ringing(x)) + One(r, x)
      <4>1. r = x => t \notin Ringing(x)
        <5>1. r = x => Cardinality(Ringing(x)) = 0
          BY <3>1, Counts DEF Holders, One
        <5> QED BY <5>1, Counts, FS_EmptySet
      <4>2. Ringing(x)' = IF r = x THEN Ringing(x) \cup {t} ELSE Ringing(x)
        BY <2>1 DEF Ringing
      <4> QED BY <4>1, <4>2, Counts, SetSteps DEF One
    <3>3. Filling(x)' = Filling(x) /\ Submitting(x)' = Submitting(x)
      BY <2>2 DEF Filling, Submitting
    <3> QED BY <2>2, <3>1, <3>2, <3>3, Counts, SMTT(30) DEF Holders, One
  <2> QED BY <1>1, <2>3
<1>11. ASSUME NEW t \in IOThreads, Loop(t) \/ NothingToReap(t) \/ Submit(t) \/ Complete(t)
       PROVE  HolderInv'
  <2>1. UNCHANGED <<free_requests, pending, current, cleaned, writer>>
    BY <1>11 DEF Loop, NothingToReap, Submit, Complete, buckets, closing
  <2>2. \A u \in IOThreads : InRing(u)' = InRing(u)
    BY <1>11, RingSteps
  <2> QED BY <1>2, <2>1, <2>2
<1> QED
  BY <1>4, <1>5, <1>6, <1>7, <1>8, <1>9, <1>10, <1>11 DEF Next, Writer, Owner, IOThread

\* What has a request in one place has none of it in another.
LEMMA Elsewhere ==
    ASSUME TypeInv, HolderInv, NEW r \in Pool
    PROVE  /\ TimesIn(r, pending) # 0 => Ringing(r) = {}
           /\ TimesIn(r, free_requests) # 0 => Filling(r) = {}
           /\ Ringing(r) # {} => Filling(r) = {}
           /\ \A b, d \in Filling(r) : b = d
<1> DEFINE c == Cardinality(Filling(r))
           n == Cardinality(Ringing(r))
<1>1. /\ TimesIn(r, pending) # 0 => n = 0
      /\ TimesIn(r, free_requests) # 0 => c = 0
      /\ n # 0 => c = 0
      /\ c = 0 \/ c = 1
  BY Counts DEF Holders
<1>2. /\ n = 0 <=> Ringing(r) = {}
      /\ c = 0 <=> Filling(r) = {}
      /\ c = 1 <=> \E x : Filling(r) = {x}
  BY Counts, FS_EmptySet, FS_Singleton
<1> HIDE DEF c, n
<1> QED BY <1>1, <1>2

\* Every step keeps the rings.
LEMMA RingInvNext == TypeInv /\ HolderInv /\ RingInv /\ [Next]_vars => RingInv'
<1> SUFFICES ASSUME TypeInv, HolderInv, RingInv, [Next]_vars PROVE RingInv'
  OBVIOUS
<1> DEFINE Good(u) ==
      /\ held[u] \cap in_flight[u] = {}
      /\ held[u] \cap reapable[u] = {}
      /\ in_flight[u] \cap reapable[u] = {}
      /\ IsFiniteSet(InRing(u))
      /\ in_ring[u] = Cardinality(InRing(u))
      /\ in_ring[u] <= RingDepth
<1>1. \A u \in IOThreads : Good(u)
  BY DEF RingInv
<1>2. ASSUME \A u \in IOThreads : Good(u)' PROVE RingInv'
  BY <1>2 DEF RingInv
<1>3. ASSUME UNCHANGED <<held, in_flight, reapable, in_ring>> PROVE RingInv'
  BY <1>3 DEF RingInv, InRing
<1>4. ASSUME NEW t \in IOThreads, Reap(t) PROVE RingInv'
  <2>1. PICK r \in reapable[t] :
          /\ r \in InRing(t)
          /\ \A u \in IOThreads : InRing(u)' = IF u = t THEN InRing(t) \ {r} ELSE InRing(u)
    BY <1>4, RingSteps
  <2>2. /\ UNCHANGED <<held, in_flight>> /\ in_ring' = [in_ring EXCEPT ![t] = @ - 1]
        /\ \E x \in reapable[t] : reapable' = [reapable EXCEPT ![t] = @ \ {x}]
    BY <1>4 DEF Reap, Seen
  <2>3. /\ \A u \in IOThreads : /\ held'[u] = held[u] /\ in_flight'[u] = in_flight[u]
                                /\ reapable'[u] \subseteq reapable[u]
        /\ in_ring'[t] = in_ring[t] - 1
        /\ \A u \in IOThreads : u # t => in_ring'[u] = in_ring[u]
    BY <2>2 DEF TypeInv
  <2>4. Good(t)'
    <3>1. /\ IsFiniteSet(InRing(t)')
          /\ Cardinality(InRing(t)') = Cardinality(InRing(t)) - 1
      BY <1>1, <2>1, SetSteps
    <3>2. in_ring[t] \in Nat /\ RingDepth \in Nat
      BY Sizes DEF TypeInv
    <3> QED BY <1>1, <2>3, <3>1, <3>2
  <2>5. ASSUME NEW u \in IOThreads, u # t PROVE Good(u)'
    BY <1>1, <2>1, <2>3, <2>5
  <2> QED BY <1>2, <2>4, <2>5
<1>5. ASSUME NEW t \in IOThreads, Prepare(t) PROVE RingInv'
  <2> DEFINE r == Head(pending)
  <2>1. \A u \in IOThreads : InRing(u)' = IF u = t THEN InRing(t) \cup {r} ELSE InRing(u)
    BY <1>5, RingSteps
  <2>2. /\ UNCHANGED <<in_flight, reapable>> /\ in_ring' = [in_ring EXCEPT ![t] = @ + 1]
        /\ held' = [held EXCEPT ![t] = @ \cup {r}]
        /\ in_ring[t] < RingDepth /\ pending # <<>>
    BY <1>5 DEF Prepare
  <2>3. r \notin InRing(t)
    <3>1. r \in Pool /\ TimesIn(r, pending) # 0
      BY <2>2, TimesTail DEF TypeInv
    <3> QED BY <3>1, Elsewhere DEF Ringing
  <2> HIDE DEF r
  <2>4. /\ held'[t] = held[t] \cup {r} /\ in_ring'[t] = in_ring[t] + 1
        /\ \A u \in IOThreads : u # t => held'[u] = held[u] /\ in_ring'[u] = in_ring[u]
    BY <2>2 DEF TypeInv
  <2>5. Good(t)'
    <3>1. /\ IsFiniteSet(InRing(t)')
          /\ Cardinality(InRing(t)') = Cardinality(InRing(t)) + 1
      BY <1>1, <2>1, <2>3, SetSteps
    <3>2. in_ring[t] \in Nat /\ RingDepth \in Nat
      BY Sizes DEF TypeInv
    <3>3. r \notin in_flight[t] /\ r \notin reapable[t]
      BY <2>3 DEF InRing
    <3> QED BY <1>1, <2>2, <2>4, <3>1, <3>2, <3>3
  <2>6. ASSUME NEW u \in IOThreads, u # t PROVE Good(u)'
    BY <1>1, <2>1, <2>2, <2>4, <2>6
  <2> QED BY <1>2, <2>5, <2>6
<1>6. ASSUME NEW t \in IOThreads, Submit(t) \/ Complete(t) PROVE RingInv'
  <2>1. UNCHANGED in_ring /\ \A u \in IOThreads : InRing(u)' = InRing(u)
    BY <1>6, RingSteps DEF Submit, Complete
  <2>2. \A u \in IOThreads : /\ held'[u] \cap in_flight'[u] = {}
                             /\ held'[u] \cap reapable'[u] = {}
                             /\ in_flight'[u] \cap reapable'[u] = {}
    <3>1. CASE Submit(t)
      BY <1>1, <3>1 DEF Submit, TypeInv
    <3>2. CASE Complete(t)
      BY <1>1, <3>2 DEF Complete, TypeInv
    <3> QED BY <1>6, <3>1, <3>2
  <2> QED BY <1>1, <1>2, <2>1, <2>2
<1>7. ASSUME NEW t \in IOThreads, Loop(t) \/ NothingToReap(t) PROVE RingInv'
  BY <1>3, <1>7 DEF Loop, NothingToReap
<1>8. CASE \/ \E w \in Writers : Write(w) \/ Writer(w)
           \/ CallCleanUp \/ Owner \/ UNCHANGED vars
  <2>1. UNCHANGED io
    BY <1>8 DEF Write, Writer, NewRequest, SubmitRequest, CallCleanUp, Owner,
                CleanUpBucket, ClosePending, Join, vars
  <2> QED BY <1>3, <2>1 DEF io
<1> QED BY <1>4, <1>5, <1>6, <1>7, <1>8 DEF Next, IOThread

-----------------------------------------------------------------------------
(* Vectors                                                                 *)

\* The initial state.
LEMMA VectorInvInit == Init => WriterInv /\ VectorInv
<1> SUFFICES ASSUME Init PROVE WriterInv /\ VectorInv
  OBVIOUS
<1>1. \A r \in Pool : req[r].vectors = <<>> /\ Len(req[r].vectors) = 0
  BY DEF Init, Fresh
<1>2. \A i \in DOMAIN free_requests : free_requests[i] \in Pool
  BY TypeInvInit DEF TypeInv
<1>3. \A b \in Buckets : current[b] \in Pool
  BY TypeInvInit DEF TypeInv
<1>4. VectorSize > 0
  BY Sizes
<1>5. VectorInv
  <2>1. \A i \in DOMAIN free_requests : req[free_requests[i]].vectors = <<>>
    BY <1>1, <1>2
  <2>2. \A r \in Pool : Len(req[r].vectors) < VectorSize /\ Len(req[r].vectors) <= VectorSize
    BY <1>1, <1>4, Sizes
  <2> QED BY <1>3, <2>1, <2>2 DEF VectorInv
<1>6. WriterInv
  BY Sizes DEF Init, Idle, WriterInv
<1> QED BY <1>5, <1>6

\* Something is added to the request of a bucket that nobody has locked.
LEMMA AddStep ==
    ASSUME TypeInv, HolderInv, VectorInv, NEW b \in Buckets \ cleaned, LockFree(b),
           NEW blocks, NEW size,
           req' = [req EXCEPT ![current[b]] = AddPointer(req[current[b]], blocks, size)]
    PROVE  /\ \A i \in DOMAIN free_requests : req'[free_requests[i]].vectors = <<>>
           /\ \A d \in Buckets \ cleaned : d # b => req'[current[d]] = req[current[d]]
           /\ \A r \in Pool : Len(req'[r].vectors) <= VectorSize
           /\ Len(req'[current[b]].vectors) \in Nat
<1> DEFINE c == current[b]
<1>1. c \in Pool /\ b \in Filling(c)
  BY DEF TypeInv, Filling
<1>2. /\ \A x \in Pool : x # c => req'[x] = req[x]
      /\ Len(req[c].vectors) \in Nat /\ Len(req'[c].vectors) = Len(req[c].vectors) + 1
  BY <1>1, AddPointerStep
<1>3. \A i \in DOMAIN free_requests : free_requests[i] \in Pool /\ free_requests[i] # c
  BY <1>1, Elsewhere, TimesType DEF TypeInv
<1>4. \A d \in Buckets \ cleaned : d # b => current[d] \in Pool /\ current[d] # c
  BY <1>1, Elsewhere DEF Filling, TypeInv
<1>5. Len(req[c].vectors) < VectorSize /\ VectorSize \in Nat
  BY Sizes DEF VectorInv
<1> HIDE DEF c
<1>6. \A i \in DOMAIN free_requests : req'[free_requests[i]].vectors = <<>>
  BY <1>2, <1>3 DEF VectorInv
<1>7. \A d \in Buckets \ cleaned : d # b => req'[current[d]] = req[current[d]]
  BY <1>2, <1>4
<1>8. Len(req'[c].vectors) <= VectorSize /\ Len(req'[c].vectors) \in Nat
  BY <1>2, <1>5
<1>9. \A r \in Pool : Len(req'[r].vectors) <= VectorSize
  BY <1>2, <1>8 DEF VectorInv
<1> QED BY <1>6, <1>7, <1>8, <1>9 DEF c

\* Every step leaves room in the request of a bucket.
LEMMA VectorInvNext ==
    TypeInv /\ WriterInv /\ HolderInv /\ RingInv /\ VectorInv /\ [Next]_vars => VectorInv'
<1> SUFFICES ASSUME TypeInv, WriterInv, HolderInv, RingInv, VectorInv, [Next]_vars
             PROVE  VectorInv'
  OBVIOUS
<1>1. ASSUME UNCHANGED <<req, free_requests, current, writer>>, cleaned \subseteq cleaned'
      PROVE  VectorInv'
  BY <1>1 DEF VectorInv, LockFree
<1>2. ASSUME NEW w \in Writers, Write(w) PROVE VectorInv'
  <2>1. PICK b \in Buckets : LockFree(b) /\ (WriteOdd(w, b) \/ WritePage(w, b))
    BY <1>2 DEF Write
  <2>2. UNCHANGED <<cleaned, free_requests, current>> /\ cleaned = {} /\ writer[w].pc = "idle"
    BY <1>2, <2>1 DEF Write, WriteOdd, WritePage, closing, WriterInv
  <2>3. CASE WriteOdd(w, b)
    BY <1>1, <2>2, <2>3 DEF WriteOdd
  <2>4. CASE WritePage(w, b)
    <3> DEFINE block == [id |-> NextId, size |-> Page]
               rq == AddPointer(req[current[b]], <<block>>, Page)
    <3>1. /\ req' = [req EXCEPT ![current[b]] = rq]
          /\ \/ writer' = [writer EXCEPT ![w].pc = "needs_request", ![w].bucket = b]
             \/ ~GrownEnough(rq) /\ writer' = writer
      BY <2>4 DEF WritePage
    <3>2. /\ \A i \in DOMAIN free_requests : req'[free_requests[i]].vectors = <<>>
          /\ \A d \in Buckets \ cleaned : d # b => req'[current[d]] = req[current[d]]
          /\ \A r \in Pool : Len(req'[r].vectors) <= VectorSize
          /\ Len(req'[current[b]].vectors) \in Nat
      BY <2>1, <2>2, <3>1, AddStep
    <3> HIDE DEF rq, block
    <3>3. req'[current[b]] = rq
      <4>1. current[b] \in DOMAIN req
        BY DEF TypeInv, ReqType
      <4>2. req' = [req EXCEPT ![current[b]] = rq]
        BY <3>1
      <4> QED BY <4>1, <4>2
    <3>4. ASSUME NEW d \in Buckets, LockFree(d)'
          PROVE  Len(req'[current[d]].vectors) < VectorSize
      <4>1. CASE writer' = writer /\ ~GrownEnough(rq)
        <5>1. LockFree(d)
          BY <3>4, <4>1 DEF LockFree
        <5>2. CASE d = b
          BY <3>2, <3>3, <4>1, <5>2, Sizes DEF GrownEnough
        <5>3. CASE d # b
          BY <2>2, <3>2, <5>1, <5>3 DEF VectorInv
        <5> QED BY <5>2, <5>3
      <4>2. CASE writer' = [writer EXCEPT ![w].pc = "needs_request", ![w].bucket = b]
        <5>1. /\ writer'[w].pc = "needs_request" /\ writer'[w].bucket = b
              /\ \A v \in Writers : v # w => writer'[v] = writer[v]
          BY <4>2 DEF TypeInv
        <5>2. d # b
          BY <3>4, <5>1 DEF LockFree
        <5>3. LockFree(d)
          BY <2>2, <3>4, <5>1 DEF LockFree
        <5> QED BY <2>2, <3>2, <5>2, <5>3 DEF VectorInv
      <4> QED BY <3>1, <4>1, <4>2
    <3> QED BY <2>2, <3>2, <3>4 DEF VectorInv
  <2> QED BY <2>1, <2>3, <2>4
<1>3. ASSUME NEW w \in Writers, NewRequest(w) PROVE VectorInv'
  <2> DEFINE b == writer[w].bucket
             r == Head(free_requests)
  <2>1. /\ free_requests # <<>> /\ free_requests' = Tail(free_requests)
        /\ current' = [current EXCEPT ![b] = r]
        /\ req' = [req EXCEPT ![r].bucket = b, ![r].offset = file_size[b]]
        /\ writer' = [writer EXCEPT ![w].pc = "submits", ![w].request = current[b]]
        /\ UNCHANGED cleaned
    BY <1>3 DEF NewRequest, closing
  <2>2. b \in Buckets /\ r \in Pool
    BY <2>1, TimesTail DEF TypeInv
  <2>3. \A i \in DOMAIN free_requests' : \E j \in DOMAIN free_requests :
          free_requests'[i] = free_requests[j]
    BY <2>1, TimesTail DEF TypeInv
  <2>4. req[r].vectors = <<>>
    <3>1. 1 \in DOMAIN free_requests /\ r = free_requests[1]
      <4>1. free_requests \in Seq(Pool) /\ free_requests # <<>>
        BY <2>1 DEF TypeInv
      <4> QED BY <4>1
    <3> QED BY <3>1 DEF VectorInv
  <2>5. /\ current'[b] = r /\ \A d \in Buckets : d # b => current'[d] = current[d]
        /\ \A v \in Writers : v # w => writer'[v] = writer[v]
    BY <2>1, <2>2 DEF TypeInv
  <2>6. b = writer[w].bucket
    OBVIOUS
  <2> HIDE DEF b, r
  <2>7. \A x \in Pool : req'[x].vectors = req[x].vectors
    <3>1. req'[r].vectors \in {req[r].vectors, <<>>} /\ \A x \in Pool : x # r => req'[x] = req[x]
      BY <2>1, <2>2, RequestStep
    <3> QED BY <2>4, <3>1
  <2>8. \A i \in DOMAIN free_requests' : req'[free_requests'[i]].vectors = <<>>
    BY <2>3, <2>7 DEF VectorInv, TypeInv
  <2>9. ASSUME NEW d \in Buckets \ cleaned, LockFree(d)'
        PROVE  Len(req'[current'[d]].vectors) < VectorSize
    <3>1. CASE d = b
      <4>1. req'[current'[d]].vectors = <<>> /\ VectorSize > 0
        BY <2>2, <2>4, <2>5, <2>7, <3>1, Sizes
      <4>2. Len(<<>>) = 0
        OBVIOUS
      <4> QED BY <4>1, <4>2
    <3>2. CASE d # b
      <4>1. LockFree(d)
        BY <2>5, <2>6, <2>9, <3>2 DEF LockFree
      <4>2. current[d] \in Pool
        BY DEF TypeInv
      <4> QED BY <2>5, <2>7, <3>2, <4>1, <4>2 DEF VectorInv
    <3> QED BY <3>1, <3>2
  <2> QED BY <2>1, <2>7, <2>8, <2>9 DEF VectorInv
<1>4. ASSUME NEW w \in Writers, SubmitRequest(w) PROVE VectorInv'
  <2>1. UNCHANGED <<req, free_requests, current, cleaned>> /\ writer[w].pc = "submits"
        /\ writer' = [writer EXCEPT ![w] = Idle]
    BY <1>4 DEF SubmitRequest, buckets, closing
  <2>2. \A v \in Writers : v # w => writer'[v] = writer[v]
    BY <2>1 DEF TypeInv
  <2>3. \A d : LockFree(d)' => LockFree(d)
    BY <2>1, <2>2 DEF LockFree
  <2> QED BY <2>1, <2>3 DEF VectorInv
<1>5. ASSUME NEW b \in Buckets, CleanUpBucket(b) PROVE VectorInv'
  <2>1. /\ b \notin cleaned /\ cleaned' = cleaned \cup {b}
        /\ UNCHANGED <<free_requests, current, writer>> /\ owner = "cleaning"
    BY <1>5 DEF CleanUpBucket
  <2>2. \A d : LockFree(d)
    BY <2>1 DEF LockFree, WriterInv
  <2>3. /\ \A i \in DOMAIN free_requests : req'[free_requests[i]].vectors = <<>>
        /\ \A d \in Buckets \ cleaned : d # b => req'[current[d]] = req[current[d]]
        /\ \A r \in Pool : Len(req'[r].vectors) <= VectorSize
    <3>1. PICK blocks, size :
            req' = [req EXCEPT ![current[b]] = AddPointer(req[current[b]], blocks, size)]
      BY <1>5 DEF CleanUpBucket
    <3> QED BY <2>1, <2>2, <3>1, AddStep
  <2> QED BY <2>1, <2>2, <2>3 DEF VectorInv
<1>6. CASE CallCleanUp \/ ClosePending \/ Join \/ UNCHANGED vars
  BY <1>1, <1>6 DEF CallCleanUp, ClosePending, Join, vars, buckets, closing
<1>7. ASSUME NEW t \in IOThreads, Reap(t) PROVE VectorInv'
  <2>1. PICK r \in reapable[t] :
          /\ r \in Pool /\ r \in InRing(t)
          /\ free_requests' = Append(free_requests, r)
          /\ req' = [req EXCEPT ![r].vectors = <<>>, ![r].size = 0]
    BY <1>7, RingSteps
  <2>2. UNCHANGED <<current, cleaned, writer>>
    BY <1>7 DEF Reap, buckets, closing
  <2>3. req'[r].vectors = <<>> /\ \A x \in Pool : x # r => req'[x] = req[x]
    <3>1. PICK b : b \in Buckets
      BY Sizes
    <3> QED BY <2>1, <3>1, RequestStep
  <2>4. \A i \in DOMAIN free_requests' :
          free_requests'[i] = r \/ \E j \in DOMAIN free_requests :
                                     free_requests'[i] = free_requests[j]
    <3>1. free_requests \in Seq(Pool)
      BY DEF TypeInv
    <3> QED BY <2>1, <3>1
  <2>5. \A i \in DOMAIN free_requests' : req'[free_requests'[i]].vectors = <<>>
    <3>1. \A j \in DOMAIN free_requests :
            free_requests[j] \in Pool /\ req[free_requests[j]].vectors = <<>>
      BY DEF VectorInv, TypeInv
    <3>2. \A j \in DOMAIN free_requests : req'[free_requests[j]].vectors = <<>>
      BY <2>3, <3>1
    <3> QED BY <2>3, <2>4, <3>2
  <2>6. \A d \in Buckets \ cleaned : current[d] # r /\ current[d] \in Pool
    <3>1. Filling(r) = {}
      BY <2>1, Elsewhere DEF Ringing
    <3> QED BY <3>1 DEF Filling, TypeInv
  <2>7. \A d \in Buckets \ cleaned : LockFree(d)' => Len(req'[current'[d]].vectors) < VectorSize
    BY <2>2, <2>3, <2>6 DEF VectorInv, LockFree
  <2>8. \A x \in Pool : Len(req'[x].vectors) <= VectorSize
    <3>1. Len(<<>>) = 0 /\ 0 <= VectorSize
      BY Sizes
    <3> QED BY <2>3, <3>1 DEF VectorInv
  <2> QED BY <2>2, <2>5, <2>7, <2>8 DEF VectorInv
<1>8. ASSUME NEW t \in IOThreads,
             Loop(t) \/ NothingToReap(t) \/ Prepare(t) \/ Submit(t) \/ Complete(t)
      PROVE  VectorInv'
  BY <1>1, <1>8 DEF Loop, NothingToReap, Prepare, Submit, Complete, buckets, closing
<1> QED
  BY <1>2, <1>3, <1>4, <1>5, <1>6, <1>7, <1>8 DEF Next, Writer, Owner, IOThread

-----------------------------------------------------------------------------
(* The end                                                                 *)

\* The initial state.
LEMMA EndInvInit == Init => EndInv
BY Sizes DEF Init, EndInv

\* Every step of a thread of the ring is allowed by how the end comes about.
LEMMA EndInvIO ==
    ASSUME TypeInv, EndInv, NEW t \in IOThreads, IOThread(t) \/ Complete(t)
    PROVE  EndInv'
<1>1. UNCHANGED <<owner, cleaned, pending_open>>
  BY DEF IOThread, Loop, Reap, NothingToReap, Prepare, Submit, Complete, closing
<1>2. \A u \in IOThreads : u # t =>
        pc'[u] = pc[u] /\ has_more'[u] = has_more[u] /\ in_ring'[u] = in_ring[u]
  BY DEF IOThread, Loop, Reap, NothingToReap, Prepare, Submit, Complete, Goto, HasMore,
         TypeInv, EndInv
<1>3. pending = <<>> => pending' = <<>>
  BY DEF IOThread, Loop, Reap, NothingToReap, Prepare, Submit, Complete
<1>4. /\ pc' \in [IOThreads -> {"loop", "reap", "fill", "exited"}]
      /\ has_more' \in [IOThreads -> BOOLEAN]
  <2>1. CASE Loop(t) \/ NothingToReap(t)
    BY <2>1 DEF Loop, NothingToReap, Goto, EndInv
  <2>2. CASE Reap(t) \/ Prepare(t) \/ Complete(t)
    BY <2>2 DEF Reap, Prepare, Complete, EndInv
  <2>3. CASE Submit(t)
    <3>1. (IF in_ring[t] < RingDepth /\ ~pending_open THEN FALSE ELSE has_more[t]) \in BOOLEAN
      BY DEF EndInv
    <3> QED BY <2>3, <3>1 DEF Submit, HasMore, Goto, EndInv
  <2> QED BY <2>1, <2>2, <2>3 DEF IOThread
<1>5. ~has_more'[t] => ~pending_open /\ pending' = <<>>
  <2>1. CASE Submit(t)
    <3>1. has_more'[t] = (IF in_ring[t] < RingDepth /\ ~pending_open THEN FALSE ELSE has_more[t])
      BY <2>1 DEF Submit, HasMore, EndInv
    <3>2. in_ring[t] < RingDepth => pending = <<>>
      BY <2>1, Sizes DEF Submit, TypeInv
    <3> QED BY <1>3, <3>1, <3>2 DEF EndInv
  <2>2. CASE has_more' = has_more
    BY <1>3, <2>2 DEF EndInv
  <2> QED BY <2>1, <2>2 DEF IOThread, Loop, Reap, NothingToReap, Prepare, Complete
<1>6. pc'[t] = "exited" => ~has_more'[t] /\ in_ring'[t] = 0
  <2>1. CASE Loop(t)
    BY <2>1, Sizes DEF Loop, GoesOn, Goto, EndInv, TypeInv
  <2>2. CASE Reap(t) \/ NothingToReap(t) \/ Prepare(t) \/ Submit(t)
    BY <2>2 DEF Reap, NothingToReap, Prepare, Submit, Goto, EndInv
  <2>3. CASE Complete(t)
    BY <2>3 DEF Complete, EndInv
  <2> QED BY <2>1, <2>2, <2>3 DEF IOThread
<1>7. pc[t] = "exited" => pc'[t] = "exited"
  BY DEF IOThread, Loop, Reap, NothingToReap, Prepare, Submit, Complete
<1> QED BY <1>1, <1>2, <1>3, <1>4, <1>5, <1>6, <1>7 DEF EndInv

\* Every step keeps to it.
LEMMA EndInvNext == TypeInv /\ WriterInv /\ EndInv /\ [Next]_vars => EndInv'
<1> SUFFICES ASSUME TypeInv, WriterInv, EndInv, [Next]_vars PROVE EndInv'
  OBVIOUS
<1>1. CASE \E w \in Writers : Write(w) \/ Writer(w)
  <2>1. UNCHANGED <<owner, cleaned, pending_open, pc, has_more, in_ring>>
    BY <1>1 DEF Write, Writer, NewRequest, SubmitRequest, closing, io
  <2>2. ~pending_open => pending' = pending
    <3>1. owner # "writing" => \A w \in Writers : writer[w].pc = "idle"
      BY DEF WriterInv
    <3> QED BY <1>1, <3>1 DEF Write, Writer, NewRequest, SubmitRequest, EndInv
  <2> QED BY <2>1, <2>2 DEF EndInv
<1>2. CASE CallCleanUp
  BY <1>2 DEF CallCleanUp, io, EndInv
<1>3. ASSUME NEW b \in Buckets, CleanUpBucket(b) PROVE EndInv'
  <2>1. pending_open
    BY <1>3 DEF CleanUpBucket, EndInv
  <2> QED BY <1>3, <2>1 DEF CleanUpBucket, io, EndInv
<1>4. CASE ClosePending
  BY <1>4 DEF ClosePending, io, EndInv
<1>5. CASE Join
  BY <1>5 DEF Join, io, EndInv
<1>6. ASSUME NEW t \in IOThreads, IOThread(t) \/ Complete(t) PROVE EndInv'
  BY <1>6, EndInvIO
<1>7. CASE UNCHANGED vars
  BY <1>7 DEF vars, closing, io, EndInv
<1> QED BY <1>1, <1>2, <1>3, <1>4, <1>5, <1>6, <1>7 DEF Next, Owner

-----------------------------------------------------------------------------
(* Sums over finite sets, by induction on the subsets                      *)

\* Of some finite sets one is smallest.
LEMMA SmallestSet ==
    ASSUME NEW S, IsFiniteSet(S), NEW T, T \subseteq SUBSET S, T # {}
    PROVE  \E s \in T : \A u \in SUBSET s : u # s => u \notin T
<1>1. FiniteSubsetsOf(S) = SUBSET S
  BY FS_FiniteSubsetsOfFinite
<1>2. IsWellFoundedOn(StrictSubsetOrdering(S), FiniteSubsetsOf(S))
  BY FS_StrictSubsetOrderingWellFounded
<1>3. PICK s \in T : \A u \in T : ~ (<<u, s>> \in StrictSubsetOrdering(S))
  BY <1>1, <1>2, WFMin
<1> QED BY <1>3 DEF StrictSubsetOrdering

\* The element that a fold over a set takes first.
AnyOf(s) == CHOOSE x \in s : TRUE

\* g gives the sums of f over the subsets of S.
SumsUp(g, f, S) ==
    g = [s \in SUBSET S |-> IF s = {} THEN 0 ELSE f[AnyOf(s)] + g[s \ {AnyOf(s)}]]

\* The sum over a set is that over the rest, and one element.
LEMMA SumsUpValue ==
    ASSUME NEW g, NEW f, NEW S, SumsUp(g, f, S), NEW s \in SUBSET S
    PROVE  /\ s = {} => g[s] = 0
           /\ s # {} => /\ AnyOf(s) \in s
                        /\ g[s] = f[AnyOf(s)] + g[s \ {AnyOf(s)}]
<1>1. g[s] = IF s = {} THEN 0 ELSE f[AnyOf(s)] + g[s \ {AnyOf(s)}]
  BY DEF SumsUp
<1>2. s # {} => AnyOf(s) \in s
  BY DEF AnyOf
<1> QED BY <1>1, <1>2

\* There is one such function.
LEMMA SumsUpUnique ==
    ASSUME NEW S, IsFiniteSet(S), NEW f, NEW g, NEW h, SumsUp(g, f, S), SumsUp(h, f, S)
    PROVE  g = h
<1> DEFINE T == {s \in SUBSET S : g[s] # h[s]}
<1>1. CASE T # {}
  <2>1. PICK s \in T : \A u \in SUBSET s : u # s => u \notin T
    <3>1. T \subseteq SUBSET S
      OBVIOUS
    <3> HIDE DEF T
    <3> QED BY <1>1, <3>1, SmallestSet
  <2>2. s # {} /\ AnyOf(s) \in s
    BY <2>1, SumsUpValue
  <2>3. g[s \ {AnyOf(s)}] = h[s \ {AnyOf(s)}]
    BY <2>1, <2>2
  <2>4. g[s] = h[s]
    BY <2>2, <2>3, SumsUpValue
  <2> QED BY <2>4
<1>2. CASE T = {}
  <2>1. \A s \in SUBSET S : g[s] = h[s]
    BY <1>2
  <2>2. \E G : g = [s \in SUBSET S |-> G[s]]
    BY DEF SumsUp
  <2> QED BY <2>1 DEF SumsUp
<1> QED BY <1>1, <1>2

\* It gives the sums over the subsets of a part too.
LEMMA SumsUpPart ==
    ASSUME NEW g, NEW f, NEW S, SumsUp(g, f, S), NEW U \in SUBSET S
    PROVE  SumsUp([s \in SUBSET U |-> g[s]], f, U)
<1> DEFINE h == [s \in SUBSET U |-> g[s]]
<1>1. ASSUME NEW s \in SUBSET U
      PROVE  h[s] = IF s = {} THEN 0 ELSE f[AnyOf(s)] + h[s \ {AnyOf(s)}]
  BY SumsUpValue
<1>2. h = [s \in SUBSET U |-> h[s]]
  OBVIOUS
<1> HIDE DEF h
<1>3. h = [s \in SUBSET U |-> IF s = {} THEN 0 ELSE f[AnyOf(s)] + h[s \ {AnyOf(s)}]]
  BY <1>1, <1>2
<1> QED BY <1>3 DEF SumsUp, h

\* There is such a function for every finite set.
LEMMA SumsUpExists ==
    ASSUME NEW S, IsFiniteSet(S), NEW f
    PROVE  \E g : SumsUp(g, f, S)
<1> DEFINE T == {s \in SUBSET S : ~ \E g : SumsUp(g, f, s)}
<1>1. SUFFICES ASSUME T # {} PROVE FALSE
  OBVIOUS
<1>2. PICK s \in T : \A u \in SUBSET s : u # s => u \notin T
  <2>1. T \subseteq SUBSET S
    OBVIOUS
  <2> HIDE DEF T
  <2> QED BY <1>1, <2>1, SmallestSet
<1> DEFINE G(u) == CHOOSE g : SumsUp(g, f, u)
           v(u) == IF u = {} THEN 0 ELSE f[AnyOf(u)] + G(u \ {AnyOf(u)})[u \ {AnyOf(u)}]
           h == [u \in SUBSET s |-> v(u)]
<1>3. ASSUME NEW u \in SUBSET s, u # s PROVE SumsUp(G(u), f, u)
  BY <1>2, <1>3
<1>4. ASSUME NEW u \in SUBSET s, u # s PROVE G(u)[u] = v(u)
  <2>1. PICK g : g = G(u) /\ SumsUp(g, f, u)
    BY <1>3, <1>4
  <2>2. CASE u = {}
    BY <2>1, <2>2, SumsUpValue
  <2>3. CASE u # {}
    <3> DEFINE x == AnyOf(u)
               w == u \ {x}
    <3>1. x \in u /\ g[u] = f[x] + g[w]
      BY <2>1, <2>3, SumsUpValue
    <3>2. w \in SUBSET s /\ w # s /\ w \in SUBSET u /\ IsFiniteSet(w)
      BY <3>1, FS_Subset
    <3>3. SumsUp([t \in SUBSET w |-> g[t]], f, w)
      <4>1. SumsUp(g, f, u) /\ w \in SUBSET u
        BY <2>1, <3>2
      <4> HIDE DEF w
      <4> QED BY <4>1, SumsUpPart
    <3>4. SumsUp(G(w), f, w)
      BY <1>3, <3>2
    <3>5. G(w) = [t \in SUBSET w |-> g[t]]
      BY <3>2, <3>3, <3>4, SumsUpUnique
    <3>6. G(w)[w] = g[w]
      BY <3>5
    <3> QED BY <2>1, <2>3, <3>1, <3>6
  <2> QED BY <2>2, <2>3
<1>5. ASSUME NEW u \in SUBSET s
      PROVE  h[u] = IF u = {} THEN 0 ELSE f[AnyOf(u)] + h[u \ {AnyOf(u)}]
  <2>1. CASE u = {}
    BY <2>1
  <2>2. CASE u # {}
    <3>1. AnyOf(u) \in u
      BY <2>2 DEF AnyOf
    <3>2. u \ {AnyOf(u)} \in SUBSET s /\ u \ {AnyOf(u)} # s
      BY <3>1
    <3>3. h[u \ {AnyOf(u)}] = v(u \ {AnyOf(u)})
      BY <3>2
    <3>4. G(u \ {AnyOf(u)})[u \ {AnyOf(u)}] = v(u \ {AnyOf(u)})
      BY <1>4, <3>2
    <3>5. h[u] = v(u)
      OBVIOUS
    <3> HIDE DEF h, G
    <3> QED BY <2>2, <3>3, <3>4, <3>5
  <2> QED BY <2>1, <2>2
<1>6. h = [u \in SUBSET s |-> h[u]]
  OBVIOUS
<1> HIDE DEF h
<1>7. h = [u \in SUBSET s |-> IF u = {} THEN 0 ELSE f[AnyOf(u)] + h[u \ {AnyOf(u)}]]
  BY <1>5, <1>6
<1>8. SumsUp(h, f, s)
  BY <1>7 DEF SumsUp
<1> QED BY <1>8

\* MapThenSumSet computes what the function gives.
LEMMA SumIs ==
    ASSUME NEW S, IsFiniteSet(S), NEW f, NEW g, SumsUp(g, f, S)
    PROVE  SumOf(f, S) = g[S]
<1>1. \E k : SumsUp(k, f, S) /\ SumOf(f, S) = k[S]
  BY DEF SumOf, MapThenSumSet, MapThenFoldSet, SumsUp, AnyOf
<1> QED BY <1>1, SumsUpUnique

\* So a sum is that over the rest, and one element.
LEMMA SumUnfolds ==
    ASSUME NEW S, IsFiniteSet(S), NEW f
    PROVE  /\ S = {} => SumOf(f, S) = 0
           /\ S # {} => /\ AnyOf(S) \in S
                        /\ SumOf(f, S) = f[AnyOf(S)] + SumOf(f, S \ {AnyOf(S)})
<1>1. PICK g : SumsUp(g, f, S)
  BY SumsUpExists
<1>2. SumOf(f, S) = g[S]
  BY <1>1, SumIs
<1>3. CASE S # {}
  <2> DEFINE U == S \ {AnyOf(S)}
  <2>1. U \in SUBSET S /\ IsFiniteSet(U)
    BY FS_Subset
  <2>2. SumsUp([s \in SUBSET U |-> g[s]], f, U)
    BY <1>1, <2>1, SumsUpPart
  <2>3. SumOf(f, U) = [s \in SUBSET U |-> g[s]][U]
    BY <2>1, <2>2, SumIs
  <2>4. SumOf(f, U) = g[U]
    BY <2>3
  <2> QED BY <1>1, <1>2, <1>3, <2>4, SumsUpValue
<1> QED BY <1>1, <1>2, <1>3, SumsUpValue

\* The sum of numbers is a number.
LEMMA SumType ==
    ASSUME NEW S, IsFiniteSet(S), NEW f, \A x \in S : f[x] \in Nat
    PROVE  SumOf(f, S) \in Nat
<1> DEFINE T == {s \in SUBSET S : SumOf(f, s) \notin Nat}
<1>1. SUFFICES ASSUME T # {} PROVE FALSE
  OBVIOUS
<1>2. PICK s \in T : \A u \in SUBSET s : u # s => u \notin T
  <2>1. T \subseteq SUBSET S
    OBVIOUS
  <2> HIDE DEF T
  <2> QED BY <1>1, <2>1, SmallestSet
<1>3. IsFiniteSet(s)
  BY FS_Subset
<1>4. s # {} /\ AnyOf(s) \in s /\ SumOf(f, s) = f[AnyOf(s)] + SumOf(f, s \ {AnyOf(s)})
  <2>1. SumOf(f, s) \notin Nat
    OBVIOUS
  <2>2. /\ s = {} => SumOf(f, s) = 0
        /\ s # {} => AnyOf(s) \in s /\ SumOf(f, s) = f[AnyOf(s)] + SumOf(f, s \ {AnyOf(s)})
    BY <1>3, SumUnfolds
  <2> QED BY <2>1, <2>2
<1>5. SumOf(f, s \ {AnyOf(s)}) \in Nat
  BY <1>2, <1>4
<1> QED BY <1>2, <1>4, <1>5

\* Whichever element is taken first.
LEMMA SumTakes ==
    ASSUME NEW S, IsFiniteSet(S), NEW f, \A x \in S : f[x] \in Nat, NEW e \in S
    PROVE  SumOf(f, S) = f[e] + SumOf(f, S \ {e})
<1> DEFINE Wrong(s, y) == y \in s /\ SumOf(f, s) # f[y] + SumOf(f, s \ {y})
           T == {s \in SUBSET S : \E y : Wrong(s, y)}
<1>1. SUFFICES ASSUME T # {} PROVE FALSE
  OBVIOUS
<1>2. PICK s \in T : \A u \in SUBSET s : u # s => u \notin T
  <2>1. T \subseteq SUBSET S
    OBVIOUS
  <2> HIDE DEF T
  <2> QED BY <1>1, <2>1, SmallestSet
<1>3. PICK y : Wrong(s, y)
  BY <1>2
<1> DEFINE x == AnyOf(s)
           w == (s \ {x}) \ {y}
<1>4. s \in SUBSET S /\ IsFiniteSet(s) /\ IsFiniteSet(s \ {x}) /\ IsFiniteSet(s \ {y})
  BY FS_Subset
<1>5. x \in s /\ SumOf(f, s) = f[x] + SumOf(f, s \ {x})
  BY <1>3, <1>4, SumUnfolds
<1>6. x # y /\ w = (s \ {y}) \ {x} /\ IsFiniteSet(w) /\ w \in SUBSET S
  BY <1>3, <1>4, <1>5, FS_Subset
<1>7. ASSUME NEW u \in SUBSET s, u # s, NEW z \in u
      PROVE  SumOf(f, u) = f[z] + SumOf(f, u \ {z})
  BY <1>2, <1>7
<1>8. /\ SumOf(f, s \ {x}) = f[y] + SumOf(f, w)
      /\ SumOf(f, s \ {y}) = f[x] + SumOf(f, w)
  <2> HIDE DEF x, T
  <2> QED BY <1>3, <1>5, <1>6, <1>7
<1>9. f[x] \in Nat /\ f[y] \in Nat /\ SumOf(f, w) \in Nat
  BY <1>3, <1>4, <1>5, <1>6, SumType
<1> QED BY <1>3, <1>5, <1>8, <1>9

\* An element that is added.
LEMMA SumAdds ==
    ASSUME NEW S, IsFiniteSet(S), NEW e, e \notin S,
           NEW f, \A x \in S \cup {e} : f[x] \in Nat
    PROVE  SumOf(f, S \cup {e}) = SumOf(f, S) + f[e]
<1>1. IsFiniteSet(S \cup {e}) /\ (S \cup {e}) \ {e} = S
  BY FS_AddElement
<1>2. SumOf(f, S \cup {e}) = f[e] + SumOf(f, S)
  BY <1>1, SumTakes
<1> QED BY <1>2, SumType

\* Only the values at the elements count.
LEMMA SumSame ==
    ASSUME NEW S, IsFiniteSet(S), NEW f, NEW g, \A x \in S : f[x] = g[x]
    PROVE  SumOf(f, S) = SumOf(g, S)
<1> DEFINE T == {s \in SUBSET S : SumOf(f, s) # SumOf(g, s)}
<1>1. SUFFICES ASSUME T # {} PROVE FALSE
  OBVIOUS
<1>2. PICK s \in T : \A u \in SUBSET s : u # s => u \notin T
  <2>1. T \subseteq SUBSET S
    OBVIOUS
  <2> HIDE DEF T
  <2> QED BY <1>1, <2>1, SmallestSet
<1>3. IsFiniteSet(s)
  BY FS_Subset
<1>4. s # {} /\ AnyOf(s) \in s
  BY <1>2, <1>3, SumUnfolds
<1>5. SumOf(f, s \ {AnyOf(s)}) = SumOf(g, s \ {AnyOf(s)}) /\ f[AnyOf(s)] = g[AnyOf(s)]
  BY <1>2, <1>4
<1>6. /\ SumOf(f, s) = f[AnyOf(s)] + SumOf(f, s \ {AnyOf(s)})
      /\ SumOf(g, s) = g[AnyOf(s)] + SumOf(g, s \ {AnyOf(s)})
  BY <1>3, <1>4, SumUnfolds
<1> QED BY <1>2, <1>5, <1>6

\* The three sums of the module are such sums.
LEMMA SumIsSize ==
    ASSUME NEW S, IsFiniteSet(S)
    PROVE  MapThenSumSet(LAMBDA d : d.size, S) = Size(S)
<1> DEFINE f == [x \in S |-> x.size]
<1>1. PICK g : SumsUp(g, f, S)
  BY SumsUpExists
<1>2. g = [s \in SUBSET S |-> IF s = {} THEN 0
          ELSE (CHOOSE x \in s : TRUE).size + g[s \ {CHOOSE x \in s : TRUE}]]
  BY <1>1 DEF SumsUp, AnyOf
<1>3. PICK h :
        /\ h = [s \in SUBSET S |-> IF s = {} THEN 0
          ELSE (CHOOSE x \in s : TRUE).size + h[s \ {CHOOSE x \in s : TRUE}]]
        /\ MapThenSumSet(LAMBDA d : d.size, S) = h[S]
  BY <1>2 DEF MapThenSumSet, MapThenFoldSet
<1>4. SumsUp(h, f, S)
  BY <1>3 DEF SumsUp, AnyOf
<1>5. SumOf(f, S) = h[S]
  BY <1>4, SumIs
<1> QED BY <1>3, <1>5 DEF Size

\* The number of blocks.
LEMMA SumIsCount ==
    ASSUME NEW S, IsFiniteSet(S)
    PROVE  MapThenSumSet(LAMBDA d : Len(d.blocks), S) = Count(S)
<1> DEFINE f == [x \in S |-> Len(x.blocks)]
<1>1. PICK g : SumsUp(g, f, S)
  BY SumsUpExists
<1>2. g = [s \in SUBSET S |-> IF s = {} THEN 0
          ELSE Len((CHOOSE x \in s : TRUE).blocks) + g[s \ {CHOOSE x \in s : TRUE}]]
  BY <1>1 DEF SumsUp, AnyOf
<1>3. PICK h :
        /\ h = [s \in SUBSET S |-> IF s = {} THEN 0
          ELSE Len((CHOOSE x \in s : TRUE).blocks) + h[s \ {CHOOSE x \in s : TRUE}]]
        /\ MapThenSumSet(LAMBDA d : Len(d.blocks), S) = h[S]
  BY <1>2 DEF MapThenSumSet, MapThenFoldSet
<1>4. SumsUp(h, f, S)
  BY <1>3 DEF SumsUp, AnyOf
<1>5. SumOf(f, S) = h[S]
  BY <1>4, SumIs
<1> QED BY <1>3, <1>5 DEF Count

\* The bytes of the first entries of a sequence.
LEMMA SumIsFirstSizes ==
    ASSUME NEW q, NEW n, IsFiniteSet(1..n)
    PROVE  MapThenSumSet(LAMBDA i : q[i].size, 1..n) = FirstSizes(q, n)
<1> DEFINE f == [i \in 1..n |-> q[i].size]
<1>1. PICK g : SumsUp(g, f, (1..n))
  BY SumsUpExists
<1>2. g = [s \in SUBSET (1..n) |-> IF s = {} THEN 0
          ELSE q[(CHOOSE x \in s : TRUE)].size + g[s \ {CHOOSE x \in s : TRUE}]]
  BY <1>1 DEF SumsUp, AnyOf
<1>3. PICK h :
        /\ h = [s \in SUBSET (1..n) |-> IF s = {} THEN 0
          ELSE q[(CHOOSE x \in s : TRUE)].size + h[s \ {CHOOSE x \in s : TRUE}]]
        /\ MapThenSumSet(LAMBDA i : q[i].size, 1..n) = h[(1..n)]
  BY <1>2 DEF MapThenSumSet, MapThenFoldSet
<1>4. SumsUp(h, f, (1..n))
  BY <1>3 DEF SumsUp, AnyOf
<1>5. SumOf(f, (1..n)) = h[(1..n)]
  BY <1>4, SumIs
<1> QED BY <1>3, <1>5 DEF FirstSizes

\* The bytes of a set of sized things, pieces or blocks, with one more.
LEMMA SizeAdds ==
    ASSUME NEW S, IsFiniteSet(S), NEW e, \A x \in S \cup {e} : x.size \in Nat
    PROVE  /\ Size(S) \in Nat
           /\ e \notin S => Size(S \cup {e}) = Size(S) + e.size
<1> DEFINE f == [x \in S |-> x.size]
           g == [x \in S \cup {e} |-> x.size]
<1>1. Size(S) = SumOf(f, S) /\ Size(S \cup {e}) = SumOf(g, S \cup {e})
  BY DEF Size
<1>2. /\ \A x \in S : f[x] = g[x] /\ f[x] \in Nat
      /\ \A x \in S \cup {e} : g[x] \in Nat
      /\ g[e] = e.size
  OBVIOUS
<1> HIDE DEF f, g
<1>3. SumOf(f, S) = SumOf(g, S) /\ SumOf(f, S) \in Nat
  BY <1>2, SumSame, SumType
<1>4. e \notin S => SumOf(g, S \cup {e}) = SumOf(g, S) + g[e]
  BY <1>2, SumAdds
<1> QED BY <1>1, <1>2, <1>3, <1>4

\* The same for the numbers of blocks.
LEMMA CountAdds ==
    ASSUME NEW S, IsFiniteSet(S), NEW e, \A x \in S \cup {e} : Len(x.blocks) \in Nat
    PROVE  /\ Count(S) \in Nat
           /\ e \notin S => Count(S \cup {e}) = Count(S) + Len(e.blocks)
<1> DEFINE f == [x \in S |-> Len(x.blocks)]
           g == [x \in S \cup {e} |-> Len(x.blocks)]
<1>1. Count(S) = SumOf(f, S) /\ Count(S \cup {e}) = SumOf(g, S \cup {e})
  BY DEF Count
<1>2. /\ \A x \in S : f[x] = g[x] /\ f[x] \in Nat
      /\ \A x \in S \cup {e} : g[x] \in Nat
      /\ g[e] = Len(e.blocks)
  OBVIOUS
<1> HIDE DEF f, g
<1>3. SumOf(f, S) = SumOf(g, S) /\ SumOf(f, S) \in Nat
  BY <1>2, SumSame, SumType
<1>4. e \notin S => SumOf(g, S \cup {e}) = SumOf(g, S) + g[e]
  BY <1>2, SumAdds
<1> QED BY <1>1, <1>2, <1>3, <1>4

\* The first entries of two sequences that agree on these.
LEMMA FirstSizesSame ==
    ASSUME NEW p, NEW q, NEW n \in Nat, \A i \in 1..n : p[i] = q[i]
    PROVE  FirstSizes(p, n) = FirstSizes(q, n)
<1> DEFINE f == [i \in 1..n |-> p[i].size]
           g == [i \in 1..n |-> q[i].size]
<1>1. FirstSizes(p, n) = SumOf(f, 1..n) /\ FirstSizes(q, n) = SumOf(g, 1..n)
  BY DEF FirstSizes
<1>2. \A i \in 1..n : f[i] = g[i]
  OBVIOUS
<1> HIDE DEF f, g
<1>3. IsFiniteSet(1..n)
  BY FS_Interval
<1> QED BY <1>1, <1>2, <1>3, SumSame

\* One entry more.
LEMMA FirstSizesAdds ==
    ASSUME NEW q, NEW n \in Nat, \A i \in 1..(n + 1) : q[i].size \in Nat
    PROVE  /\ FirstSizes(q, 0) = 0
           /\ FirstSizes(q, n) \in Nat
           /\ FirstSizes(q, n + 1) = FirstSizes(q, n) + q[n + 1].size
<1> DEFINE f == [i \in 1..n |-> q[i].size]
           g == [i \in 1..(n + 1) |-> q[i].size]
           z == [i \in 1..0 |-> q[i].size]
<1>1. /\ FirstSizes(q, n) = SumOf(f, 1..n) /\ FirstSizes(q, n + 1) = SumOf(g, 1..(n + 1))
      /\ FirstSizes(q, 0) = SumOf(z, 1..0)
  BY DEF FirstSizes
<1>2. /\ \A i \in 1..n : f[i] = g[i] /\ f[i] \in Nat
      /\ \A i \in 1..(n + 1) : g[i] \in Nat
      /\ g[n + 1] = q[n + 1].size
  OBVIOUS
<1>3. /\ IsFiniteSet(1..n) /\ 1..(n + 1) = (1..n) \cup {n + 1} /\ n + 1 \notin 1..n
      /\ IsFiniteSet(1..0) /\ 1..0 = {}
  <2>1. 1..(n + 1) = (1..n) \cup {n + 1} /\ n + 1 \notin 1..n /\ 1..0 = {}
    OBVIOUS
  <2> QED BY <2>1, FS_Interval, FS_EmptySet
<1> HIDE DEF f, g, z
<1>4. SumOf(f, 1..n) = SumOf(g, 1..n) /\ SumOf(f, 1..n) \in Nat
  <2> DEFINE S == 1..n
  <2>1. IsFiniteSet(S) /\ (\A x \in S : f[x] = g[x]) /\ \A x \in S : f[x] \in Nat
    BY <1>2, <1>3
  <2> HIDE DEF S
  <2>2. SumOf(f, S) = SumOf(g, S) /\ SumOf(f, S) \in Nat
    BY <2>1, SumSame, SumType
  <2> QED BY <2>2 DEF S
<1>5. SumOf(g, (1..n) \cup {n + 1}) = SumOf(g, 1..n) + g[n + 1]
  <2> DEFINE S == 1..n
  <2>1. IsFiniteSet(S) /\ n + 1 \notin S /\ (\A x \in S \cup {n + 1} : g[x] \in Nat)
    BY <1>2, <1>3
  <2> HIDE DEF S
  <2>2. SumOf(g, S \cup {n + 1}) = SumOf(g, S) + g[n + 1]
    BY <2>1, SumAdds
  <2> QED BY <2>2 DEF S
<1>6. SumOf(z, 1..0) = 0
  BY <1>3, SumUnfolds
<1> QED BY <1>1, <1>2, <1>3, <1>4, <1>5, <1>6

\* The length of a sequence of sized things that grows.
LEMMA FirstSizesAppend ==
    ASSUME NEW V, \A v \in V : v.size \in Nat, NEW q \in Seq(V), NEW e \in V
    PROVE  /\ \A m \in 0..Len(q) : /\ FirstSizes(q, m) \in Nat
                                   /\ FirstSizes(Append(q, e), m) = FirstSizes(q, m)
           /\ FirstSizes(Append(q, e), Len(q) + 1) = FirstSizes(q, Len(q)) + e.size
<1> DEFINE a == Append(q, e)
           n == Len(q)
<1>1. /\ n \in Nat /\ \A i \in 1..n : a[i] = q[i] /\ q[i] \in V
      /\ a[n + 1] = e
  OBVIOUS
<1> HIDE DEF a, n
<1>2. \A i \in 1..(n + 1) : a[i].size \in Nat
  <2>1. \A i \in 1..(n + 1) : i \in 1..n \/ i = n + 1
    BY <1>1
  <2> QED BY <1>1, <2>1
<1>3. ASSUME NEW m \in 0..n
      PROVE  FirstSizes(q, m) \in Nat /\ FirstSizes(a, m) = FirstSizes(q, m)
  <2>1. m \in Nat /\ \A i \in 1..m : a[i] = q[i]
    BY <1>1
  <2>2. \A i \in 1..(m + 1) : a[i].size \in Nat
    BY <1>1, <1>2
  <2>3. FirstSizes(a, m) \in Nat
    BY <2>1, <2>2, FirstSizesAdds
  <2> QED BY <2>1, <2>3, FirstSizesSame
<1>4. FirstSizes(a, n + 1) = FirstSizes(a, n) + a[n + 1].size
  BY <1>1, <1>2, FirstSizesAdds
<1>5. FirstSizes(a, n) = FirstSizes(q, n)
  BY <1>1, <1>3
<1> QED BY <1>1, <1>3, <1>4, <1>5 DEF a, n

\* The bytes of a sequence of blocks, none, one, or one more.
LEMMA BlockSizesAppend ==
    ASSUME NEW q \in Seq(Block), NEW e \in Block
    PROVE  /\ BlockSizes(<<>>) = 0
           /\ BlockSizes(<<e>>) = e.size
           /\ BlockSizes(q) \in Nat
           /\ BlockSizes(Append(q, e)) = BlockSizes(q) + e.size
<1>1. ASSUME NEW s \in Seq(Block) PROVE BlockSizes(s) = FirstSizes(s, Len(s))
  <2>1. DOMAIN s = 1..Len(s) /\ IsFiniteSet(1..Len(s))
    BY FS_Interval
  <2> QED BY <2>1, SumIsFirstSizes DEF BlockSizes
<1>2. \A v \in Block : v.size \in Nat
  BY DEF Block
<1>3. ASSUME NEW s \in Seq(Block)
      PROVE  BlockSizes(s) \in Nat /\ BlockSizes(Append(s, e)) = BlockSizes(s) + e.size
  <2>1. Append(s, e) \in Seq(Block) /\ Len(Append(s, e)) = Len(s) + 1 /\ Len(s) \in 0..Len(s)
    OBVIOUS
  <2>2. BlockSizes(s) = FirstSizes(s, Len(s)) /\ BlockSizes(Append(s, e)) = FirstSizes(Append(s, e), Len(s) + 1)
    BY <1>1, <2>1
  <2>3. FirstSizes(s, Len(s)) \in Nat /\ FirstSizes(Append(s, e), Len(s) + 1) = FirstSizes(s, Len(s)) + e.size
    BY <1>2, <2>1, FirstSizesAppend
  <2> QED BY <2>2, <2>3
<1>4. BlockSizes(<<>>) = 0
  <2>1. <<>> \in Seq(Block) /\ Len(<<>>) = 0 /\ \A i \in 1..0 : FALSE
    OBVIOUS
  <2>2. FirstSizes(<<>>, 0) = SumOf([i \in 1..0 |-> <<>>[i].size], 1..0)
    BY DEF FirstSizes
  <2>3. IsFiniteSet(1..0) /\ 1..0 = {}
    BY FS_Interval
  <2>4. FirstSizes(<<>>, 0) = 0
    BY <2>2, <2>3, SumUnfolds
  <2> QED BY <1>1, <2>1, <2>4
<1>5. BlockSizes(<<e>>) = e.size
  <2>1. <<>> \in Seq(Block) /\ <<e>> = Append(<<>>, e) /\ e.size \in Nat
    BY <1>2
  <2>2. PICK none : none = <<>>
    OBVIOUS
  <2>3. BlockSizes(Append(none, e)) = BlockSizes(none) + e.size
    BY <1>3, <2>1, <2>2
  <2>4. Append(none, e) = <<e>>
    BY <2>1, <2>2
  <2>5. BlockSizes(none) = 0
    BY <1>4, <2>2
  <2> QED BY <2>1, <2>3, <2>4, <2>5
<1> QED BY <1>3, <1>4, <1>5

-----------------------------------------------------------------------------
(* The pieces of a file                                                    *)

\* What is in a sequence that grows at its end.
LEMMA InAppend ==
    ASSUME NEW S, NEW s \in Seq(S), NEW x
    PROVE  ToSet(Append(s, x)) = ToSet(s) \cup {x}
<1>1. /\ DOMAIN Append(s, x) = 1..(Len(s) + 1) /\ DOMAIN s = 1..Len(s) /\ Len(s) \in Nat
      /\ Append(s, x)[Len(s) + 1] = x
      /\ \A i \in 1..Len(s) : Append(s, x)[i] = s[i]
  OBVIOUS
<1> DEFINE n == Len(s)
           q == Append(s, x)
<1> HIDE DEF n, q
<1>2. DOMAIN q = 1..(n + 1) /\ DOMAIN s = 1..n /\ n \in Nat /\ q[n + 1] = x
      /\ \A i \in 1..n : q[i] = s[i]
  BY <1>1 DEF n, q
<1>3. \A y : (\E i \in 1..(n + 1) : q[i] = y) <=> y = x \/ \E i \in 1..n : s[i] = y
  <2>1. n + 1 \in 1..(n + 1) /\ 1..n \subseteq 1..(n + 1)
        /\ \A i \in 1..(n + 1) : i \in 1..n \/ i = n + 1
    BY <1>2
  <2> QED BY <1>2, <2>1
<1>4. ToSet(q) = ToSet(s) \cup {x}
  BY <1>2, <1>3 DEF ToSet
<1> QED BY <1>4 DEF q

\* What AddPointer makes of a request, and the piece it adds to its file.
LEMMA PointerAdded ==
    ASSUME NEW rq \in Request, NEW blocks \in Seq(Block), NEW size \in Nat \ {0},
           rq.size = FirstSizes(rq.vectors, Len(rq.vectors))
    PROVE  LET to == AddPointer(rq, blocks, size)
           IN  /\ to \in Request /\ to.bucket = rq.bucket /\ to.offset = rq.offset
               /\ to.size = rq.size + size
               /\ to.vectors = Append(rq.vectors, [blocks |-> blocks, size |-> size])
               /\ to.size = FirstSizes(to.vectors, Len(to.vectors))
<1> DEFINE to == AddPointer(rq, blocks, size)
           e == [blocks |-> blocks, size |-> size]
           q == rq.vectors
           z == rq.size + size
<1>1. q \in Seq(Vector) /\ rq.size \in Nat
  BY DEF Request
<1>2. e \in Vector /\ e.size = size
  BY DEF Vector
<1>3. to = [rq EXCEPT !.vectors = Append(q, e), !.size = z]
  BY DEF AddPointer
<1>4. z \in Nat
  BY <1>1
<1> HIDE DEF e, to, z
<1>5. Append(q, e) \in Seq(Vector) /\ Len(Append(q, e)) = Len(q) + 1
  BY <1>1, <1>2
<1> DEFINE a == Append(q, e)
<1>6. a \in Seq(Vector) /\ to = [rq EXCEPT !.vectors = a, !.size = z]
  BY <1>3, <1>5
<1> HIDE DEF a
<1>7. /\ to \in Request /\ to.bucket = rq.bucket /\ to.offset = rq.offset
      /\ to.size = z /\ to.vectors = a
  BY <1>4, <1>6 DEF Request
<1>8. \A v \in Vector : v.size \in Nat
  BY DEF Vector
<1>9. FirstSizes(Append(q, e), Len(q) + 1) = FirstSizes(q, Len(q)) + e.size
  BY <1>1, <1>2, <1>8, FirstSizesAppend
<1>10. to.size = FirstSizes(to.vectors, Len(to.vectors))
  BY <1>2, <1>5, <1>7, <1>9 DEF a, z
<1> QED BY <1>7, <1>10 DEF to, a, e, z

\* The pieces of a request.
LEMMA PiecesOf ==
    ASSUME NEW rq \in Request
    PROVE  Pieces(rq) = {[bucket |-> rq.bucket, at |-> rq.offset + FirstSizes(rq.vectors, i - 1),
                          size |-> rq.vectors[i].size, blocks |-> rq.vectors[i].blocks]
                         : i \in 1..Len(rq.vectors)}
<1>1. DOMAIN rq.vectors = 1..Len(rq.vectors)
  BY DEF Request
<1>2. ASSUME NEW i \in 1..Len(rq.vectors)
      PROVE  MapThenSumSet(LAMBDA j : rq.vectors[j].size, 1..(i - 1))
               = FirstSizes(rq.vectors, i - 1)
  <2>1. IsFiniteSet(1..(i - 1))
    BY FS_Interval
  <2> QED BY <2>1, SumIsFirstSizes
<1> QED BY <1>1, <1>2 DEF Pieces

\* AddPointer puts one piece behind the others.
LEMMA PiecesAdded ==
    ASSUME NEW rq \in Request, NEW blocks \in Seq(Block), NEW size \in Nat \ {0},
           rq.size = FirstSizes(rq.vectors, Len(rq.vectors))
    PROVE  Pieces(AddPointer(rq, blocks, size))
             = Pieces(rq) \cup {[bucket |-> rq.bucket, at |-> rq.offset + rq.size,
                                 size |-> size, blocks |-> blocks]}
<1> DEFINE to == AddPointer(rq, blocks, size)
           e == [blocks |-> blocks, size |-> size]
           q == rq.vectors
           P(s, i) == [bucket |-> rq.bucket, at |-> rq.offset + FirstSizes(s, i - 1),
                       size |-> s[i].size, blocks |-> s[i].blocks]
           n == Len(q)
<1>1. to \in Request /\ to.vectors = Append(q, e) /\ to.bucket = rq.bucket /\ to.offset = rq.offset
  BY PointerAdded
<1>2. /\ q \in Seq(Vector) /\ n \in Nat /\ e.size = size /\ e.blocks = blocks
      /\ Len(Append(q, e)) = n + 1 /\ Append(q, e)[n + 1] = e
      /\ \A i \in 1..n : Append(q, e)[i] = q[i]
  BY DEF Request
<1>3. /\ Pieces(rq) = {P(q, i) : i \in 1..n}
      /\ Pieces(to) = {P(Append(q, e), i) : i \in 1..(n + 1)}
  <2>1. Pieces(rq) = {P(q, i) : i \in 1..n}
    BY PiecesOf
  <2>2. Pieces(to) = {[bucket |-> to.bucket, at |-> to.offset + FirstSizes(to.vectors, i - 1),
                       size |-> to.vectors[i].size, blocks |-> to.vectors[i].blocks]
                      : i \in 1..Len(to.vectors)}
    BY <1>1, PiecesOf
  <2> QED BY <1>1, <1>2, <2>1, <2>2
<1> DEFINE a == Append(q, e)
<1>4. ASSUME NEW i \in 1..(n + 1) PROVE FirstSizes(a, i - 1) = FirstSizes(q, i - 1)
  <2>1. i - 1 \in Nat /\ \A j \in 1..(i - 1) : a[j] = q[j]
    BY <1>2
  <2> QED BY <2>1, FirstSizesSame
<1>5. \A i \in 1..n : P(a, i) = P(q, i)
  BY <1>2, <1>4
<1>6. P(a, n + 1) = [bucket |-> rq.bucket, at |-> rq.offset + rq.size,
                     size |-> size, blocks |-> blocks]
  BY <1>2, <1>4
<1>7. 1..(n + 1) = (1..n) \cup {n + 1}
  BY <1>2
<1> HIDE DEF P, a, to, n, q
<1>8. Pieces(to) = {P(a, i) : i \in (1..n) \cup {n + 1}}
  BY <1>3, <1>7 DEF a
<1>9. Pieces(to) = {P(a, i) : i \in 1..n} \cup {P(a, n + 1)}
  BY <1>8
<1>10. Pieces(to) = {P(q, i) : i \in 1..n} \cup {P(a, n + 1)}
  BY <1>5, <1>9
<1> QED BY <1>3, <1>6, <1>10 DEF to

\* Pages.
LEMMA Multiples ==
    /\ Page \in Nat \ {0} /\ Metadata \in Nat /\ Multiple(0) /\ Multiple(Page)
    /\ \A m, n \in Nat : Multiple(m) /\ Multiple(n) => Multiple(m + n)
    /\ \A n \in Nat : Multiple(n) => n % Page = 0
<1>1. Page \in Nat \ {0} /\ Metadata \in Nat
  BY SizesAssumption
<1>2. Multiple(0) /\ Multiple(Page)
  <2>1. 0 \in 0..0 /\ 0 = 0 * Page /\ 1 \in 0..Page /\ Page = 1 * Page
    BY <1>1
  <2> QED BY <2>1 DEF Multiple
<1>3. ASSUME NEW k \in Nat PROVE Multiple(k * Page) /\ (k * Page) % Page = 0
  <2>1. k \in 0..(k * Page)
    BY <1>1
  <2> QED BY <1>1, <2>1 DEF Multiple
<1>4. ASSUME NEW n \in Nat, Multiple(n) PROVE \E k \in Nat : n = k * Page
  BY <1>4 DEF Multiple
<1>5. ASSUME NEW m \in Nat, NEW n \in Nat, Multiple(m), Multiple(n) PROVE Multiple(m + n)
  <2>1. PICK k \in Nat : m = k * Page
    BY <1>4, <1>5
  <2>2. PICK l \in Nat : n = l * Page
    BY <1>4, <1>5
  <2>3. m + n = (k + l) * Page /\ k + l \in Nat
    BY <1>1, <2>1, <2>2
  <2> QED BY <1>3, <2>3
<1> QED BY <1>1, <1>2, <1>3, <1>4, <1>5

\* The tail has room for the odd blocks and the marker.
LEMMA TailFits ==
    ASSUME NEW odd \in Nat
    PROVE  /\ TailSize(odd) \in Nat \ {0} /\ odd + Metadata <= TailSize(odd)
           /\ Multiple(TailSize(odd))
<1> DEFINE target == (odd \div Page + 1) * Page
<1>1. Page \in Nat \ {0} /\ Metadata \in 0..Page /\ odd \div Page \in Nat
  BY SizesAssumption
<1>2. target \in Nat /\ odd < target
  <2>1. odd < (odd \div Page) * Page + Page
    BY <1>1
  <2>2. (odd \div Page) * Page + Page = target /\ (odd \div Page) * Page \in Nat
    BY <1>1
  <2> QED BY <1>1, <2>1, <2>2
<1>3. Multiple(target)
  <2>1. odd \div Page + 1 \in 0..target
    BY <1>1
  <2> QED BY <2>1 DEF Multiple
<1>4. Multiple(target + Page)
  BY <1>1, <1>2, <1>3, Multiples
<1>5. TailSize(odd) = IF target - odd < Metadata THEN target + Page ELSE target
  BY DEF TailSize
<1> HIDE DEF target
<1> QED BY <1>1, <1>2, <1>3, <1>4, <1>5

\* A piece that is laid at the end.
LEMMA TilesGrow ==
    ASSUME NEW L, NEW end \in Nat, TilesUpTo(L, end),
           NEW p \in Piece, p.at = end, Bytes(p) <= p.size, Multiple(p.size)
    PROVE  /\ TilesUpTo(L \cup {p}, end + p.size)
           /\ Count(L \cup {p}) = Count(L) + Len(p.blocks)
           /\ Count(L) \in Nat
<1>1. \A d \in Piece : /\ d.size \in Nat \ {0} /\ d.at \in Nat /\ d.blocks \in Seq(Block)
                       /\ Len(d.blocks) \in Nat
  BY DEF Piece
<1>2. IsFiniteSet(L) /\ L \subseteq Piece /\ IsFiniteSet(L \cup {p})
  BY FS_AddElement DEF TilesUpTo
<1>3. p \notin L
  BY <1>1, <1>2 DEF TilesUpTo
<1>4. Size(L \cup {p}) = end + p.size
  BY <1>1, <1>2, <1>3, SizeAdds DEF TilesUpTo
<1>5. Count(L \cup {p}) = Count(L) + Len(p.blocks) /\ Count(L) \in Nat
  BY <1>1, <1>2, <1>3, CountAdds
<1>6. Multiple(end + p.size)
  BY <1>1, Multiples DEF TilesUpTo
<1>7. ASSUME NEW d \in L \cup {p}
      PROVE  d.at + d.size <= end + p.size /\ Bytes(d) <= d.size
  BY <1>1, <1>2, <1>7 DEF TilesUpTo
<1>8. ASSUME NEW d \in L \cup {p}, NEW e \in L \cup {p}, d # e
      PROVE  d.at + d.size <= e.at \/ e.at + e.size <= d.at
  BY <1>1, <1>2, <1>8 DEF TilesUpTo
<1> QED BY <1>2, <1>4, <1>5, <1>6, <1>7, <1>8 DEF TilesUpTo

\* A block that is laid in a piece of its own.
LEMMA HoldsPage ==
    ASSUME NEW L, NEW kept, NEW blocks, HoldsAll(L, kept, blocks),
           NEW p, NEW x, p.blocks = <<x>>, x \notin blocks, Len(kept) \in Nat, Count(L) \in Nat,
           Count(L \cup {p}) = Count(L) + Len(p.blocks)
    PROVE  HoldsAll(L \cup {p}, kept, blocks \cup {x})
<1>1. ToSet(p.blocks) = {x} /\ Len(p.blocks) = 1
  BY DEF ToSet
<1>2. IsFiniteSet(blocks \cup {x}) /\ Cardinality(blocks \cup {x}) = Cardinality(blocks) + 1
      /\ Cardinality(blocks) \in Nat
  BY FS_AddElement, FS_CardinalityType DEF HoldsAll
<1>3. ASSUME NEW y
      PROVE  y \in blocks \cup {x} <=>
                 (\E d \in L \cup {p} : y \in ToSet(d.blocks)) \/ y \in ToSet(kept)
  BY <1>1 DEF HoldsAll
<1>4. Count(L \cup {p}) + Len(kept) = Cardinality(blocks \cup {x})
  BY <1>1, <1>2 DEF HoldsAll
<1> QED BY <1>2, <1>3, <1>4 DEF HoldsAll

\* What was kept aside is laid.
LEMMA HoldsTail ==
    ASSUME NEW L, NEW kept, NEW blocks, HoldsAll(L, kept, blocks),
           NEW p, p.blocks = kept, Len(kept) \in Nat, Count(L) \in Nat,
           Count(L \cup {p}) = Count(L) + Len(p.blocks)
    PROVE  HoldsAll(L \cup {p}, <<>>, blocks)
<1>1. ToSet(<<>>) = {} /\ Len(<<>>) = 0
  BY DEF ToSet
<1>2. ASSUME NEW y
      PROVE  y \in blocks <=>
                 (\E d \in L \cup {p} : y \in ToSet(d.blocks)) \/ y \in ToSet(<<>>)
  BY <1>1 DEF HoldsAll
<1>3. Count(L \cup {p}) + Len(<<>>) = Cardinality(blocks)
  BY <1>1 DEF HoldsAll
<1> QED BY <1>2, <1>3 DEF HoldsAll

\* A block is kept aside.
LEMMA HoldsKept ==
    ASSUME NEW L, NEW kept \in Seq(Block), NEW blocks, HoldsAll(L, kept, blocks),
           NEW x \in Block, x \notin blocks, Count(L) \in Nat
    PROVE  HoldsAll(L, Append(kept, x), blocks \cup {x})
<1>1. /\ ToSet(Append(kept, x)) = ToSet(kept) \cup {x}
      /\ Len(Append(kept, x)) = Len(kept) + 1 /\ Len(kept) \in Nat
  BY InAppend
<1>2. IsFiniteSet(blocks \cup {x}) /\ Cardinality(blocks \cup {x}) = Cardinality(blocks) + 1
      /\ Cardinality(blocks) \in Nat
  BY FS_AddElement, FS_CardinalityType DEF HoldsAll
<1> DEFINE k == Append(kept, x)
<1> HIDE DEF k
<1>3. ASSUME NEW y
      PROVE  y \in blocks \cup {x} <=> (\E d \in L : y \in ToSet(d.blocks)) \/ y \in ToSet(k)
  BY <1>1 DEF HoldsAll, k
<1>4. Count(L) + Len(k) = Cardinality(blocks \cup {x})
  BY <1>1, <1>2 DEF HoldsAll, k
<1>5. HoldsAll(L, k, blocks \cup {x})
  BY <1>2, <1>3, <1>4 DEF HoldsAll
<1> QED BY <1>5 DEF k

-----------------------------------------------------------------------------
(* The layout of the files                                                 *)

\* An empty request.
LEMMA NoPieces ==
    ASSUME NEW rq, rq.vectors = <<>>
    PROVE  /\ Pieces(rq) = {} /\ FirstSizes(rq.vectors, Len(rq.vectors)) = 0
           /\ DOMAIN rq.vectors = {}
<1>1. DOMAIN rq.vectors = {} /\ Len(rq.vectors) = 0
  OBVIOUS
<1>2. FirstSizes(rq.vectors, 0) = SumOf([i \in 1..0 |-> rq.vectors[i].size], 1..0)
  BY DEF FirstSizes
<1>3. IsFiniteSet(1..0) /\ 1..0 = {}
  BY FS_Interval
<1>4. FirstSizes(rq.vectors, 0) = 0
  BY <1>2, <1>3, SumUnfolds
<1> QED BY <1>1, <1>4 DEF Pieces

\* The initial state.
LEMMA LayoutInvInit == Init => LayoutInv
<1> SUFFICES ASSUME Init PROVE LayoutInv
  OBVIOUS
<1>1. LayoutTypes
  <2>1. \A r \in Pool : Fresh(IF r \in Buckets THEN r ELSE 1, 0) \in Request
    <3>1. \A r \in Pool : (IF r \in Buckets THEN r ELSE 1) \in Buckets
      BY Sizes DEF Buckets
    <3>2. <<>> \in Seq(Vector)
      OBVIOUS
    <3> QED BY <3>1, <3>2 DEF Fresh, Request
  <2>2. req \in [Pool -> Request]
    BY <2>1 DEF Init
  <2>3. /\ written \in [Buckets -> SUBSET Block] /\ misaligned \in [Buckets -> Seq(Block)]
        /\ file_size \in [Buckets -> Nat] /\ disk \subseteq Piece
        /\ result \in [Buckets -> [file : Nat, true : Nat]]
    BY DEF Init
  <2> QED BY <2>2, <2>3 DEF LayoutTypes
<1>2. \A r \in Pool : /\ req[r].vectors = <<>> /\ req[r].size = 0 /\ req[r].offset = 0
                      /\ r \in Buckets => req[r].bucket = r
  BY DEF Init, Fresh
<1>3. FirstSizes(<<>>, 0) = 0 /\ DOMAIN <<>> = {} /\ Len(<<>>) = 0
  <2>1. \A i \in 1..0 : FALSE
    OBVIOUS
  <2>2. FirstSizes(<<>>, 0) = SumOf([i \in 1..0 |-> <<>>[i].size], 1..0)
    BY DEF FirstSizes
  <2>3. IsFiniteSet(1..0) /\ 1..0 = {}
    BY FS_Interval
  <2>4. FirstSizes(<<>>, 0) = 0
    BY <2>2, <2>3, SumUnfolds
  <2> QED BY <2>4
<1>4. RequestInv
  <2>1. ASSUME NEW r \in Pool
        PROVE  /\ req[r].size = FirstSizes(req[r].vectors, Len(req[r].vectors))
               /\ \A i \in DOMAIN req[r].vectors :
                    BlockSizes(req[r].vectors[i].blocks) <= req[r].vectors[i].size
    BY <1>2, <1>3
  <2>2. \A t \in IOThreads : reapable[t] = {}
    BY DEF Init
  <2> QED BY <2>1, <2>2 DEF RequestInv
<1>5. NumberInv
  <2>1. AllWritten = {}
    BY DEF Init, AllWritten
  <2> QED BY <2>1, FS_EmptySet DEF NumberInv
<1>6. \A b \in Buckets : current[b] = b /\ b \in Pool /\ file_size[b] = 0 /\ cleaned = {}
  BY Sizes DEF Init
<1>7. CursorInv
  BY <1>2, <1>6 DEF CursorInv, End
<1>8. FilesInv
  <2> SUFFICES ASSUME NEW b \in Buckets
               PROVE  FileInv(b)
    BY DEF FilesInv
  <2>1. End(b) = 0 /\ b \notin cleaned /\ misaligned[b] = <<>> /\ written[b] = {}
    BY <1>2, <1>6 DEF End, Init
  <2>2. Laid(b) = {}
    <3>1. \A r \in Pool : Pieces(req[r]) = {}
      BY <1>2, NoPieces
    <3>2. disk = {}
      BY DEF Init
    <3>3. AllPieces = {}
      BY <3>1, <3>2 DEF AllPieces
    <3> QED BY <3>3 DEF Laid
  <2>3. Size({}) = 0 /\ Count({}) = 0 /\ IsFiniteSet({}) /\ Cardinality({}) = 0
    <3>1. IsFiniteSet({}) /\ Cardinality({}) = 0
      BY FS_EmptySet
    <3> QED BY <3>1, SumUnfolds DEF Size, Count
  <2>4. TilesUpTo(Laid(b), End(b))
    BY <2>1, <2>2, <2>3, Multiples DEF TilesUpTo
  <2>5. ToSet(<<>>) = {}
    BY <1>3 DEF ToSet
  <2>6. HoldsAll(Laid(b), Kept(b), written[b])
    BY <1>3, <2>1, <2>2, <2>3, <2>5 DEF HoldsAll, Kept
  <2>7. BlockSizes(<<>>) = 0
    <3>1. PICK e : e \in Block
      <4>1. [id |-> 0, size |-> 1] \in Block
        BY DEF Block
      <4> QED BY <4>1
    <3>2. PICK q \in Seq(Block) : TRUE
      <4>1. <<>> \in Seq(Block)
        OBVIOUS
      <4> QED BY <4>1
    <3> QED BY <3>1, <3>2, BlockSizesAppend
  <2>8. SizesInv(b)
    BY <2>1, <2>3, <2>7 DEF SizesInv
  <2> QED BY <2>4, <2>6, <2>8 DEF FileInv
<1> QED BY <1>1, <1>4, <1>5, <1>7, <1>8 DEF LayoutInv

\* The request of a bucket that is not yet cleaned up is in no ring.
LEMMA CurrentNotWritten ==
    ASSUME TypeInv, HolderInv, NEW b \in Buckets \ cleaned
    PROVE  /\ current[b] \in Pool
           /\ \A t \in IOThreads : current[b] \notin reapable[t]
<1>1. current[b] \in Pool /\ b \in Filling(current[b])
  BY DEF TypeInv, Filling
<1>2. Ringing(current[b]) = {}
  BY <1>1, Elsewhere
<1> QED BY <1>1, <1>2 DEF Ringing, InRing

\* A file of which nothing changes.
LEMMA SameFile ==
    ASSUME NEW b \in Buckets, FileInv(b), Laid(b)' = Laid(b), End(b)' = End(b),
           written'[b] = written[b], misaligned'[b] = misaligned[b],
           result'[b] = result[b], b \in cleaned' <=> b \in cleaned
    PROVE  FileInv(b)'
<1>1. Kept(b)' = Kept(b)
  BY DEF Kept
<1>2. SizesInv(b)'
  BY DEF FileInv, SizesInv
<1> QED BY <1>1, <1>2 DEF FileInv

\* A step that leaves the files as they are.
LEMMA SameFiles ==
    ASSUME LayoutInv, AllPieces' = AllPieces, \A b \in Buckets : End(b)' = End(b),
           UNCHANGED <<written, misaligned, cleaned, result>>
    PROVE  NumberInv' /\ FilesInv'
<1>1. NumberInv'
  BY DEF LayoutInv, NumberInv, AllWritten
<1>2. ASSUME NEW b \in Buckets PROVE FileInv(b)'
  <2>1. Laid(b)' = Laid(b)
    BY DEF Laid
  <2> QED BY <2>1, SameFile DEF LayoutInv, FilesInv
<1> QED BY <1>1, <1>2 DEF FilesInv

\* A writer takes a request of the pool for the end of its bucket.
LEMMA LayoutNewRequest ==
    ASSUME TypeInv, WriterInv, HolderInv, VectorInv, LayoutInv, NEW w \in Writers, NewRequest(w)
    PROVE  LayoutInv'
<1>0. PICK b, r : b = writer[w].bucket /\ r = Head(free_requests)
  OBVIOUS
<1>1. /\ free_requests # <<>> /\ current' = [current EXCEPT ![b] = r]
      /\ req' = [req EXCEPT ![r].bucket = b, ![r].offset = file_size[b]]
      /\ writer' = [writer EXCEPT ![w].pc = "submits", ![w].request = current[b]]
      /\ UNCHANGED <<written, misaligned, file_size, cleaned, result, disk, reapable>>
      /\ writer[w].pc = "needs_request"
  BY <1>0 DEF NewRequest, closing, io
<1>2. b \in Buckets /\ r \in Pool /\ TimesIn(r, free_requests) # 0 /\ req[r].vectors = <<>>
  <2>1. free_requests \in Seq(Pool) /\ b \in Buckets
    BY <1>0 DEF TypeInv
  <2>2. r \in Pool /\ 1 \in DOMAIN free_requests /\ free_requests[1] = r
    BY <1>0, <1>1, <2>1
  <2> QED BY <2>1, <2>2, TimesType DEF VectorInv
<1>3. cleaned = {} /\ file_size[b] = End(b) /\ file_size[b] \in Nat
  <2>1. cleaned = {}
    BY <1>1 DEF WriterInv, TypeInv
  <2>2. ~LockFree(b)
    BY <1>0, <1>1 DEF LockFree
  <2> QED BY <1>2, <2>1, <2>2 DEF LayoutInv, CursorInv, LayoutTypes
<1>4. \A d \in Buckets : d # b => (LockFree(d)' <=> LockFree(d)) /\ current'[d] = current[d]
  <2>1. \A v \in Writers : v # w => writer'[v] = writer[v]
    BY <1>1 DEF TypeInv
  <2>2. writer[w].bucket = b /\ writer'[w].bucket = b
    BY <1>0, <1>1 DEF TypeInv
  <2>3. \A d \in Buckets : d # b => current'[d] = current[d]
    BY <1>1 DEF TypeInv
  <2> QED BY <2>1, <2>2, <2>3 DEF LockFree
<1>5. current'[b] = r
  BY <1>1, <1>2 DEF TypeInv
<1>6. /\ req' \in [Pool -> Request] /\ req'[r].bucket = b /\ req'[r].offset = file_size[b]
      /\ req'[r].vectors = <<>> /\ req'[r].size = req[r].size
      /\ \A x \in Pool : x # r => req'[x] = req[x]
  <2> DEFINE n == [req[r] EXCEPT !.bucket = b, !.offset = file_size[b]]
  <2>1. req \in [Pool -> Request]
    BY DEF LayoutInv, LayoutTypes
  <2>2. req' = [req EXCEPT ![r] = n]
    BY <1>1
  <2>3. /\ n \in Request /\ n.bucket = b /\ n.offset = file_size[b]
        /\ n.vectors = <<>> /\ n.size = req[r].size
    BY <1>2, <1>3, <2>1 DEF Request
  <2> HIDE DEF n
  <2> QED BY <1>2, <2>1, <2>2, <2>3
<1>7. req[r].size = 0
  BY <1>2, NoPieces DEF LayoutInv, RequestInv
<1>8. LayoutTypes'
  BY <1>1, <1>6 DEF LayoutInv, LayoutTypes
<1>9. RequestInv'
  <2>1. ASSUME NEW x \in Pool
        PROVE  /\ req'[x].size = FirstSizes(req'[x].vectors, Len(req'[x].vectors))
               /\ \A i \in DOMAIN req'[x].vectors :
                    BlockSizes(req'[x].vectors[i].blocks) <= req'[x].vectors[i].size
    <3>1. CASE x = r
      BY <1>6, <1>7, <3>1, NoPieces
    <3>2. CASE x # r
      BY <1>6, <3>2 DEF LayoutInv, RequestInv
    <3> QED BY <3>1, <3>2
  <2>2. ASSUME NEW t \in IOThreads, NEW x \in reapable[t] PROVE Pieces(req'[x]) \subseteq disk
    <3>1. x \in Pool /\ Pieces(req[x]) \subseteq disk
      BY DEF TypeInv, LayoutInv, RequestInv
    <3>2. CASE x = r
      BY <1>6, <3>2, NoPieces
    <3>3. CASE x # r
      BY <1>6, <3>1, <3>3
    <3> QED BY <3>2, <3>3
  <2> QED BY <1>1, <2>1, <2>2 DEF RequestInv
<1>10. AllPieces' = AllPieces
  <2>1. \A x \in Pool : Pieces(req'[x]) = Pieces(req[x])
    BY <1>2, <1>6, NoPieces
  <2> QED BY <1>1, <2>1 DEF AllPieces
<1>11. \A d \in Buckets : d # b => req'[current'[d]] = req[current[d]]
  <2>1. \A d \in Buckets : current[d] # r /\ current[d] \in Pool
    BY <1>2, <1>3, Elsewhere DEF Filling, TypeInv
  <2> QED BY <1>4, <1>6, <2>1
<1>12. \A d \in Buckets : End(d)' = End(d)
  <2>1. End(b)' = End(b)
    <3>1. req'[r].offset + req'[r].size = file_size[b]
      BY <1>3, <1>6, <1>7
    <3> QED BY <1>1, <1>3, <1>5, <3>1 DEF End
  <2>2. ASSUME NEW d \in Buckets, d # b PROVE End(d)' = End(d)
    <3>1. req'[current'[d]] = req[current[d]]
      BY <1>11, <2>2
    <3>2. file_size'[d] = file_size[d] /\ (d \in cleaned' <=> d \in cleaned)
      BY <1>1
    <3> QED BY <3>1, <3>2 DEF End
  <2> QED BY <2>1, <2>2
<1>13. CursorInv'
  <2> SUFFICES ASSUME NEW d \in Buckets
               PROVE  /\ req'[current'[d]].bucket = d
                      /\ file_size'[d] = IF LockFree(d)' THEN req'[current'[d]].offset ELSE End(d)'
    BY DEF CursorInv
  <2>1. CASE d = b
    BY <1>1, <1>3, <1>5, <1>6, <1>12, <2>1
  <2>2. CASE d # b
    BY <1>1, <1>3, <1>4, <1>11, <1>12, <2>2 DEF LayoutInv, CursorInv
  <2> QED BY <2>1, <2>2
<1>14. NumberInv' /\ FilesInv'
  BY <1>1, <1>10, <1>12, SameFiles
<1> QED BY <1>8, <1>9, <1>13, <1>14 DEF LayoutInv

\* A thread sees that a request is written, and empties it.
LEMMA LayoutReap ==
    ASSUME TypeInv, HolderInv, LayoutInv, NEW t \in IOThreads, Reap(t)
    PROVE  LayoutInv'
<1>1. PICK r \in reapable[t] : /\ req' = [req EXCEPT ![r].vectors = <<>>, ![r].size = 0]
                               /\ reapable' = [reapable EXCEPT ![t] = @ \ {r}]
  BY DEF Reap, Seen
<1>2. UNCHANGED <<written, misaligned, file_size, cleaned, result, disk, current, writer>>
  BY DEF Reap, buckets, closing
<1>3. r \in Pool /\ Pieces(req[r]) \subseteq disk
  BY DEF TypeInv, LayoutInv, RequestInv
<1>4. /\ req' \in [Pool -> Request] /\ req'[r].vectors = <<>> /\ req'[r].size = 0
      /\ \A x \in Pool : x # r => req'[x] = req[x]
  <2> DEFINE n == [req[r] EXCEPT !.vectors = <<>>, !.size = 0]
  <2>1. req \in [Pool -> Request]
    BY DEF LayoutInv, LayoutTypes
  <2>2. req' = [req EXCEPT ![r] = n]
    BY <1>1
  <2>3. n \in Request /\ n.vectors = <<>> /\ n.size = 0
    <3>1. <<>> \in Seq(Vector)
      OBVIOUS
    <3> QED BY <1>3, <2>1, <3>1 DEF Request
  <2> HIDE DEF n
  <2> QED BY <1>3, <2>1, <2>2, <2>3
<1>5. LayoutTypes'
  BY <1>2, <1>4 DEF LayoutInv, LayoutTypes
<1>6. RequestInv'
  <2>1. ASSUME NEW x \in Pool
        PROVE  /\ req'[x].size = FirstSizes(req'[x].vectors, Len(req'[x].vectors))
               /\ \A i \in DOMAIN req'[x].vectors :
                    BlockSizes(req'[x].vectors[i].blocks) <= req'[x].vectors[i].size
    <3>1. CASE x = r
      BY <1>4, <3>1, NoPieces
    <3>2. CASE x # r
      BY <1>4, <3>2 DEF LayoutInv, RequestInv
    <3> QED BY <3>1, <3>2
  <2>2. ASSUME NEW u \in IOThreads, NEW x \in reapable'[u] PROVE Pieces(req'[x]) \subseteq disk
    <3>1. x \in Pool /\ Pieces(req[x]) \subseteq disk
      BY <1>1 DEF TypeInv, LayoutInv, RequestInv
    <3>2. CASE x = r
      BY <1>4, <3>2, NoPieces
    <3>3. CASE x # r
      BY <1>4, <3>1, <3>3
    <3> QED BY <3>2, <3>3
  <2> QED BY <1>2, <2>1, <2>2 DEF RequestInv
<1>7. AllPieces' = AllPieces
  <2>1. /\ Pieces(req'[r]) = {}
        /\ \A x \in Pool : x # r => Pieces(req'[x]) = Pieces(req[x])
    BY <1>4, NoPieces
  <2> QED BY <1>2, <1>3, <2>1 DEF AllPieces
<1>8. \A d \in Buckets \ cleaned : req'[current[d]] = req[current[d]]
  BY <1>4, CurrentNotWritten
<1>9. \A d \in Buckets : End(d)' = End(d)
  BY <1>2, <1>8 DEF End
<1>10. CursorInv'
  <2>1. \A d : LockFree(d)' <=> LockFree(d)
    BY <1>2 DEF LockFree
  <2> QED BY <1>2, <1>8, <1>9, <2>1 DEF LayoutInv, CursorInv
<1>11. NumberInv' /\ FilesInv'
  BY <1>2, <1>7, <1>9, SameFiles
<1> QED BY <1>5, <1>6, <1>10, <1>11 DEF LayoutInv

\* The kernel has written a request.
LEMMA LayoutComplete ==
    ASSUME TypeInv, LayoutInv, NEW t \in IOThreads, Complete(t)
    PROVE  LayoutInv'
<1>1. PICK r \in in_flight[t] : /\ reapable' = [reapable EXCEPT ![t] = @ \cup {r}]
                                /\ disk' = disk \cup Pieces(req[r])
  BY DEF Complete
<1>2. UNCHANGED <<written, misaligned, file_size, cleaned, result, current, writer, req>>
  BY DEF Complete, buckets, closing
<1>3. r \in Pool /\ req[r] \in Request
  BY DEF TypeInv, LayoutInv, LayoutTypes
<1>4. Pieces(req[r]) \subseteq Piece
  <2> SUFFICES ASSUME NEW d \in Pieces(req[r]) PROVE d \in Piece
    OBVIOUS
  <2>1. PICK q, i : /\ q = req[r].vectors /\ i \in 1..Len(q)
                    /\ d = [bucket |-> req[r].bucket, at |-> req[r].offset + FirstSizes(q, i - 1),
                            size |-> q[i].size, blocks |-> q[i].blocks]
    BY <1>3, PiecesOf
  <2>2. q \in Seq(Vector) /\ q[i] \in Vector /\ i - 1 \in Nat
    BY <1>3, <2>1 DEF Request
  <2>3. FirstSizes(q, i - 1) \in Nat
    <3>1. \A j \in 1..Len(q) : q[j].size \in Nat
      <4>1. \A j \in 1..Len(q) : q[j] \in Vector
        BY <2>2
      <4> QED BY <4>1 DEF Vector
    <3>2. PICK n : n = i - 1 /\ n \in Nat
      BY <2>2
    <3>3. \A j \in 1..(n + 1) : q[j].size \in Nat
      BY <2>1, <2>2, <3>1, <3>2
    <3>4. FirstSizes(q, n) \in Nat
      BY <3>2, <3>3, FirstSizesAdds
    <3> QED BY <3>2, <3>4
  <2>4. /\ q[i].size \in Nat \ {0} /\ q[i].blocks \in Seq(Block)
        /\ req[r].bucket \in Buckets /\ req[r].offset + FirstSizes(q, i - 1) \in Nat
    <3>1. q[i].size \in Nat \ {0} /\ q[i].blocks \in Seq(Block)
      BY <2>2 DEF Vector
    <3>2. req[r].bucket \in Buckets /\ req[r].offset \in Nat
      BY <1>3 DEF Request
    <3> QED BY <2>3, <3>1, <3>2
  <2> QED BY <2>1, <2>4 DEF Piece
<1>5. LayoutTypes'
  BY <1>1, <1>2, <1>4 DEF LayoutInv, LayoutTypes
<1>6. RequestInv'
  <2>1. ASSUME NEW u \in IOThreads, NEW x \in reapable'[u] PROVE Pieces(req[x]) \subseteq disk'
    <3>1. x \in reapable[u] \/ x = r
      BY <1>1 DEF TypeInv
    <3> QED BY <1>1, <3>1 DEF LayoutInv, RequestInv
  <2> QED BY <1>2, <2>1 DEF LayoutInv, RequestInv
<1>7. AllPieces' = AllPieces
  BY <1>1, <1>2, <1>3 DEF AllPieces
<1>8. \A d \in Buckets : End(d)' = End(d)
  BY <1>2 DEF End
<1>9. CursorInv'
  <2>1. \A d : LockFree(d)' <=> LockFree(d)
    BY <1>2 DEF LockFree
  <2> QED BY <1>2, <1>8, <2>1 DEF LayoutInv, CursorInv
<1>10. NumberInv' /\ FilesInv'
  BY <1>2, <1>7, <1>8, SameFiles
<1> QED BY <1>5, <1>6, <1>9, <1>10 DEF LayoutInv

\* The piece that the next vector of the current request of a bucket becomes.
NextPiece(b, blocks, size) == [bucket |-> b, at |-> End(b), size |-> size, blocks |-> blocks]

\* AddPointer on the current request of a bucket, by Write or by CleanUp.
AddsPiece(b, blocks, size) ==
    /\ b \in Buckets \ cleaned
    /\ blocks \in Seq(Block) /\ size \in Nat \ {0} /\ Multiple(size)
    /\ BlockSizes(blocks) <= size
    /\ req' = [req EXCEPT ![current[b]] = AddPointer(req[current[b]], blocks, size)]
    /\ UNCHANGED <<disk, reapable>>

\* What that makes of the request of the bucket, and of the files.
PieceAdded(b, c, p) ==
    /\ req' \in [Pool -> Request] /\ RequestInv'
    /\ c \in Pool /\ req[c] \in Request /\ req'[c].bucket = b
    /\ req'[c].offset = req[c].offset /\ req'[c].size = req[c].size + p.size
    /\ End(b) = req[c].offset + req[c].size /\ End(b) \in Nat
    /\ \A d \in Buckets \ cleaned : d # b => req'[current[d]] = req[current[d]]
    /\ p \in Piece
    /\ Laid(b)' = Laid(b) \cup {p}
    /\ \A d : d # b => Laid(d)' = Laid(d)
    /\ TilesUpTo(Laid(b) \cup {p}, End(b) + p.size)
    /\ Count(Laid(b) \cup {p}) = Count(Laid(b)) + Len(p.blocks)
    /\ Count(Laid(b)) \in Nat

\* AddPointer lays a piece at the end of the file.
LEMMA LayoutAdd ==
    ASSUME TypeInv, HolderInv, LayoutInv, NEW b, NEW blocks, NEW size, AddsPiece(b, blocks, size)
    PROVE  PieceAdded(b, current[b], NextPiece(b, blocks, size))
<1>0. PICK c : c = current[b]
  OBVIOUS
<1> DEFINE e == [blocks |-> blocks, size |-> size]
           rq == AddPointer(req[c], blocks, size)
<1>1. /\ b \in Buckets \ cleaned /\ blocks \in Seq(Block) /\ size \in Nat \ {0}
      /\ Multiple(size) /\ BlockSizes(blocks) <= size
      /\ req' = [req EXCEPT ![c] = rq]
      /\ UNCHANGED <<disk, reapable>>
      /\ c \in Pool /\ \A t \in IOThreads : c \notin reapable[t]
      /\ req \in [Pool -> Request]
  BY <1>0, CurrentNotWritten DEF AddsPiece, LayoutInv, LayoutTypes
<1>2. /\ req[c] \in Request /\ req[c].bucket = b
      /\ req[c].size = FirstSizes(req[c].vectors, Len(req[c].vectors))
  BY <1>0, <1>1 DEF LayoutInv, CursorInv, RequestInv
<1>3. /\ rq \in Request /\ rq.bucket = b /\ rq.offset = req[c].offset
      /\ rq.size = req[c].size + size /\ rq.vectors = Append(req[c].vectors, e)
      /\ rq.size = FirstSizes(rq.vectors, Len(rq.vectors))
  BY <1>1, <1>2, PointerAdded
<1>4. End(b) = req[c].offset + req[c].size /\ End(b) \in Nat
  BY <1>0, <1>1, <1>2 DEF End, Request
<1>5. PICK p : p = NextPiece(b, blocks, size)
  OBVIOUS
<1>6. /\ p = [bucket |-> b, at |-> End(b), size |-> size, blocks |-> blocks] /\ p \in Piece
      /\ p.bucket = b /\ p.at = End(b) /\ p.size = size /\ p.blocks = blocks
  BY <1>1, <1>4, <1>5 DEF NextPiece, Piece
<1>7. \A i \in DOMAIN rq.vectors : BlockSizes(rq.vectors[i].blocks) <= rq.vectors[i].size
  <2> DEFINE q == req[c].vectors
             a == Append(q, e)
  <2>1. q \in Seq(Vector)
    BY <1>2 DEF Request
  <2>2. /\ \A i \in DOMAIN a : a[i] = e \/ (i \in DOMAIN q /\ a[i] = q[i])
        /\ e.blocks = blocks /\ e.size = size
    BY <2>1
  <2>3. \A i \in DOMAIN q : BlockSizes(q[i].blocks) <= q[i].size
    BY <1>1 DEF LayoutInv, RequestInv
  <2>4. rq.vectors = a
    BY <1>3
  <2> HIDE DEF q, a, e, rq
  <2> QED BY <1>1, <2>2, <2>3, <2>4
<1> HIDE DEF rq, e
<1>8. /\ req' \in [Pool -> Request] /\ req'[c] = rq
      /\ \A r \in Pool : r # c => req'[r] = req[r]
  BY <1>1, <1>3 DEF rq
<1>9. RequestInv'
  <2>1. ASSUME NEW r \in Pool
        PROVE  /\ req'[r].size = FirstSizes(req'[r].vectors, Len(req'[r].vectors))
               /\ \A i \in DOMAIN req'[r].vectors :
                    BlockSizes(req'[r].vectors[i].blocks) <= req'[r].vectors[i].size
    <3>1. CASE r = c
      BY <1>3, <1>7, <1>8, <3>1
    <3>2. CASE r # c
      BY <1>8, <3>2 DEF LayoutInv, RequestInv
    <3> QED BY <3>1, <3>2
  <2>2. ASSUME NEW t \in IOThreads, NEW r \in reapable[t] PROVE Pieces(req'[r]) \subseteq disk
    <3>1. r \in Pool /\ r # c /\ Pieces(req[r]) \subseteq disk
      BY <1>1 DEF TypeInv, LayoutInv, RequestInv
    <3> QED BY <1>8, <3>1
  <2> QED BY <1>1, <2>1, <2>2 DEF RequestInv
<1>10. \A d \in Buckets \ cleaned : d # b => req'[current[d]] = req[current[d]]
  <2>1. \A d \in Buckets \ cleaned : d # b => current[d] # c /\ current[d] \in Pool
    BY <1>0, <1>1, Elsewhere DEF Filling, TypeInv
  <2> QED BY <1>8, <2>1
<1>11. AllPieces' = AllPieces \cup {p}
  <2>1. \A r \in Pool : r # c => Pieces(req'[r]) = Pieces(req[r])
    BY <1>8
  <2>2. Pieces(req'[c]) = Pieces(req[c]) \cup {p}
    BY <1>1, <1>2, <1>4, <1>6, <1>8, PiecesAdded DEF rq
  <2>3. \A y : (\E r \in Pool : y \in Pieces(req'[r]))
                  <=> (\E r \in Pool : y \in Pieces(req[r])) \/ y = p
    BY <1>1, <2>1, <2>2
  <2>4. \A y : y \in AllPieces' <=> y \in AllPieces \/ y = p
    BY <1>1, <2>3 DEF AllPieces
  <2> QED BY <2>4
<1>12. Laid(b)' = Laid(b) \cup {p} /\ \A d : d # b => Laid(d)' = Laid(d)
  BY <1>6, <1>11 DEF Laid
<1>13. /\ TilesUpTo(Laid(b) \cup {p}, End(b) + p.size)
       /\ Count(Laid(b) \cup {p}) = Count(Laid(b)) + Len(p.blocks) /\ Count(Laid(b)) \in Nat
  <2>1. TilesUpTo(Laid(b), End(b)) /\ Bytes(p) <= p.size /\ Multiple(p.size)
    BY <1>1, <1>6 DEF LayoutInv, FilesInv, FileInv, Bytes
  <2> QED BY <1>4, <1>6, <2>1, TilesGrow
<1>14. req'[c].bucket = b /\ req'[c].offset = req[c].offset /\ req'[c].size = req[c].size + p.size
  BY <1>3, <1>6, <1>8
<1>15. PieceAdded(b, c, p)
  BY <1>1, <1>2, <1>4, <1>6, <1>8, <1>9, <1>10, <1>12, <1>13, <1>14 DEF PieceAdded
<1> QED BY <1>0, <1>5, <1>15

\* The block that Write adds is new.
LEMMA NewBlock ==
    ASSUME LayoutInv, NEW b \in Buckets, NEW x \in Block, x.id = NextId,
           written' = [written EXCEPT ![b] = @ \cup {x}]
    PROVE  /\ written' \in [Buckets -> SUBSET Block] /\ NumberInv'
           /\ written'[b] = written[b] \cup {x} /\ x \notin written[b]
           /\ Size(written'[b]) = Size(written[b]) + x.size /\ Size(written[b]) \in Nat
           /\ \A d \in Buckets : d # b => written'[d] = written[d]
<1>1. /\ written \in [Buckets -> SUBSET Block]
      /\ IsFiniteSet(AllWritten) /\ Cardinality(AllWritten) \in Nat
      /\ \A y \in AllWritten : y.id <= Cardinality(AllWritten)
  BY FS_CardinalityType DEF LayoutInv, LayoutTypes, NumberInv
<1>2. x.id = Cardinality(AllWritten) + 1
  BY DEF NextId, AllWritten
<1>3. x \notin AllWritten
  BY <1>1, <1>2
<1>4. AllWritten' = AllWritten \cup {x}
  BY <1>1 DEF AllWritten
<1>5. /\ IsFiniteSet(AllWritten')
      /\ Cardinality(AllWritten') = Cardinality(AllWritten) + 1
  BY <1>1, <1>3, <1>4, FS_AddElement
<1>6. NumberInv'
  <2>1. \A y \in AllWritten : y.id \in Nat
    BY <1>1 DEF AllWritten, Block
  <2>2. \A y \in AllWritten' : y.id <= Cardinality(AllWritten')
    BY <1>1, <1>2, <1>4, <1>5, <2>1
  <2> QED BY <1>5, <2>2 DEF NumberInv
<1>7. /\ written' \in [Buckets -> SUBSET Block]
      /\ written'[b] = written[b] \cup {x}
      /\ \A d \in Buckets : d # b => written'[d] = written[d]
  BY <1>1
<1>8. x \notin written[b] /\ IsFiniteSet(written[b])
  <2>1. written[b] \subseteq AllWritten
    BY DEF AllWritten
  <2> QED BY <1>1, <1>3, <2>1, FS_Subset
<1>9. Size(written[b] \cup {x}) = Size(written[b]) + x.size /\ Size(written[b]) \in Nat
  <2>1. \A y \in written[b] \cup {x} : y.size \in Nat
    BY <1>1 DEF Block
  <2> QED BY <1>8, <2>1, SizeAdds
<1> QED BY <1>6, <1>7, <1>8, <1>9

\* Write keeps a block of odd size aside.
LEMMA LayoutWriteOdd ==
    ASSUME TypeInv, WriterInv, LayoutInv, NEW w \in Writers, NEW b \in Buckets,
           Write(w), WriteOdd(w, b)
    PROVE  LayoutInv'
<1>1. PICK x : /\ \E size \in OddSizes : x = [id |-> NextId, size |-> size]
               /\ misaligned' = [misaligned EXCEPT ![b] = Append(@, x)]
               /\ written' = [written EXCEPT ![b] = @ \cup {x}]
  BY DEF WriteOdd
<1>2. /\ UNCHANGED <<current, file_size, writer, req, cleaned, result, disk, reapable>>
      /\ cleaned = {}
  BY DEF Write, WriteOdd, WriterInv, closing, io
<1>3. x \in Block /\ x.id = NextId /\ x.size \in Nat
  <2>1. NextId \in Nat
    BY FS_CardinalityType DEF NextId, LayoutInv, NumberInv, AllWritten
  <2>2. OddSizes \subseteq Nat \ {0}
    BY SizesAssumption
  <2> QED BY <1>1, <2>1, <2>2 DEF Block
<1>4. /\ written' \in [Buckets -> SUBSET Block] /\ NumberInv'
      /\ written'[b] = written[b] \cup {x} /\ x \notin written[b]
      /\ Size(written'[b]) = Size(written[b]) + x.size /\ Size(written[b]) \in Nat
      /\ \A d \in Buckets : d # b => written'[d] = written[d]
  BY <1>1, <1>3, NewBlock
<1>5. /\ misaligned \in [Buckets -> Seq(Block)] /\ misaligned[b] \in Seq(Block)
      /\ misaligned'[b] = Append(misaligned[b], x)
      /\ \A d \in Buckets : d # b => misaligned'[d] = misaligned[d]
  BY <1>1 DEF LayoutInv, LayoutTypes
<1>6. LayoutTypes'
  <2>1. Append(misaligned[b], x) \in Seq(Block)
    BY <1>3, <1>5
  <2> DEFINE m == Append(misaligned[b], x)
  <2>2. misaligned' = [misaligned EXCEPT ![b] = m] /\ m \in Seq(Block)
    BY <1>1, <2>1
  <2> HIDE DEF m
  <2>3. misaligned' \in [Buckets -> Seq(Block)]
    BY <1>5, <2>2
  <2> QED BY <1>2, <1>4, <2>3 DEF LayoutInv, LayoutTypes
<1>7. /\ \A d : End(d)' = End(d) /\ Laid(d)' = Laid(d)
      /\ \A d : LockFree(d)' <=> LockFree(d)
  BY <1>2 DEF End, Laid, AllPieces, LockFree
<1>8. RequestInv' /\ CursorInv'
  BY <1>2, <1>7 DEF LayoutInv, RequestInv, CursorInv
<1>9. FileInv(b)'
  <2>1. FileInv(b) /\ Kept(b) = misaligned[b] /\ Kept(b)' = Append(misaligned[b], x)
    BY <1>2, <1>5 DEF LayoutInv, FilesInv, Kept
  <2>2. Count(Laid(b)) \in Nat /\ End(b) \in Nat
    <3>1. IsFiniteSet(Laid(b)) /\ Laid(b) \subseteq Piece
      BY <2>1 DEF FileInv, TilesUpTo
    <3>2. \A d \in Piece : Len(d.blocks) \in Nat
      BY DEF Piece
    <3>3. PICK d : d \in Piece
      <4>1. [bucket |-> b, at |-> 0, size |-> 1, blocks |-> <<>>] \in Piece
        BY DEF Piece
      <4> QED BY <4>1
    <3>4. Count(Laid(b)) \in Nat
      BY <3>1, <3>2, <3>3, CountAdds
    <3>5. End(b) \in Nat
      <4>1. current[b] \in Pool /\ req \in [Pool -> Request]
        BY DEF LayoutInv, LayoutTypes, TypeInv
      <4>2. req[current[b]].offset \in Nat /\ req[current[b]].size \in Nat
        BY <4>1 DEF Request
      <4> QED BY <1>2, <4>2 DEF End
    <3> QED BY <3>4, <3>5
  <2>3. HoldsAll(Laid(b), Append(misaligned[b], x), written[b] \cup {x})
    BY <1>3, <1>4, <1>5, <2>1, <2>2, HoldsKept DEF FileInv
  <2>4. HoldsAll(Laid(b), Kept(b), written[b])'
    BY <1>4, <1>7, <2>1, <2>3
  <2>5. TilesUpTo(Laid(b), End(b))'
    BY <1>7, <2>1 DEF FileInv
  <2>6. SizesInv(b)'
    <3>1. /\ BlockSizes(misaligned'[b]) = BlockSizes(misaligned[b]) + x.size
          /\ BlockSizes(misaligned[b]) \in Nat
      BY <1>3, <1>5, BlockSizesAppend
    <3>2. Size(written[b]) = End(b) + BlockSizes(misaligned[b])
      BY <1>2, <2>1 DEF FileInv, SizesInv
    <3>3. Size(written'[b]) = End(b) + BlockSizes(misaligned'[b])
      BY <1>3, <1>4, <2>2, <3>1, <3>2
    <3> QED BY <1>2, <1>7, <3>3 DEF SizesInv
  <2> QED BY <2>4, <2>5, <2>6 DEF FileInv
<1>10. ASSUME NEW d \in Buckets, d # b PROVE FileInv(d)'
  BY <1>2, <1>4, <1>5, <1>7, <1>10, SameFile DEF LayoutInv, FilesInv
<1>11. FilesInv'
  BY <1>9, <1>10 DEF FilesInv
<1> QED BY <1>4, <1>6, <1>8, <1>11 DEF LayoutInv

\* Write puts a page into the request of the bucket.
LEMMA LayoutWritePage ==
    ASSUME TypeInv, WriterInv, HolderInv, LayoutInv, NEW w \in Writers, NEW b \in Buckets,
           Write(w), LockFree(b), WritePage(w, b)
    PROVE  LayoutInv'
<1>1. PICK c, x, rq : /\ c = current[b] /\ x = [id |-> NextId, size |-> Page]
                      /\ rq = AddPointer(req[c], <<x>>, Page)
  OBVIOUS
<1>2. /\ written' = [written EXCEPT ![b] = @ \cup {x}]
      /\ req' = [req EXCEPT ![c] = rq]
      /\ IF GrownEnough(rq)
         THEN /\ file_size' = [file_size EXCEPT ![b] = @ + rq.size]
              /\ writer' = [writer EXCEPT ![w].pc = "needs_request", ![w].bucket = b]
         ELSE UNCHANGED <<file_size, writer>>
      /\ UNCHANGED <<current, misaligned>>
  BY <1>1 DEF WritePage
<1>3. /\ UNCHANGED <<cleaned, result, disk, reapable>> /\ writer[w].pc = "idle"
      /\ cleaned = {} /\ Page \in Nat \ {0} /\ Multiple(Page)
  BY Multiples DEF Write, WriterInv, closing, io
<1>4. x \in Block /\ x.id = NextId /\ x.size = Page
  <2>1. NextId \in Nat
    BY FS_CardinalityType DEF NextId, LayoutInv, NumberInv, AllWritten
  <2> QED BY <1>1, <1>3, <2>1 DEF Block
<1>5. /\ written' \in [Buckets -> SUBSET Block] /\ NumberInv'
      /\ written'[b] = written[b] \cup {x} /\ x \notin written[b]
      /\ Size(written'[b]) = Size(written[b]) + x.size /\ Size(written[b]) \in Nat
      /\ \A d \in Buckets : d # b => written'[d] = written[d]
  BY <1>2, <1>4, NewBlock
<1>6. PICK p, s : p = NextPiece(b, s, Page) /\ s = <<x>>
  OBVIOUS
<1>7. s \in Seq(Block) /\ BlockSizes(s) = Page
  <2>1. s \in Seq(Block)
    BY <1>4, <1>6
  <2> QED BY <1>4, <1>6, <2>1, BlockSizesAppend
<1>8. /\ req' \in [Pool -> Request] /\ RequestInv'
      /\ c \in Pool /\ req[c] \in Request /\ req'[c].bucket = b
      /\ req'[c].offset = req[c].offset /\ req'[c].size = req[c].size + Page
      /\ End(b) = req[c].offset + req[c].size /\ End(b) \in Nat
      /\ \A d \in Buckets \ cleaned : d # b => req'[current[d]] = req[current[d]]
      /\ Laid(b)' = Laid(b) \cup {p}
      /\ \A d : d # b => Laid(d)' = Laid(d)
      /\ TilesUpTo(Laid(b) \cup {p}, End(b) + Page)
      /\ Count(Laid(b) \cup {p}) = Count(Laid(b)) + Len(p.blocks)
      /\ Count(Laid(b)) \in Nat
  <2>1. AddsPiece(b, s, Page)
    BY <1>1, <1>2, <1>3, <1>6, <1>7 DEF AddsPiece
  <2>2. PieceAdded(b, c, p)
    BY <1>1, <1>6, <2>1, LayoutAdd
  <2>3. p.size = Page
    BY <1>6 DEF NextPiece
  <2> QED BY <2>2, <2>3 DEF PieceAdded
<1>9. /\ req[c].offset \in Nat /\ req[c].size \in Nat
       /\ rq.size = req[c].size + Page
  <2>1. req'[c] = rq
    BY <1>2, <1>8 DEF LayoutInv, LayoutTypes
  <2> QED BY <1>8, <2>1 DEF Request
<1>10. /\ End(b)' = End(b) + Page
       /\ \A d \in Buckets : d # b => End(d)' = End(d)
  <2>1. End(b)' = req'[c].offset + req'[c].size
    BY <1>1, <1>2, <1>3 DEF End
  <2>2. ASSUME NEW d \in Buckets, d # b PROVE End(d)' = End(d)
    <3>1. req'[current'[d]] = req[current[d]]
      BY <1>2, <1>3, <1>8, <2>2
    <3> QED BY <1>3, <3>1 DEF End
  <2> QED BY <1>3, <1>8, <1>9, <2>1, <2>2
<1>11. /\ file_size \in [Buckets -> Nat] /\ file_size[b] = req[c].offset
       /\ file_size' \in [Buckets -> Nat]
       /\ \A d \in Buckets : d # b => /\ file_size'[d] = file_size[d]
                                      /\ LockFree(d)' <=> LockFree(d)
       /\ file_size'[b] = IF LockFree(b)' THEN req'[c].offset ELSE End(b)'
  <2>1. file_size \in [Buckets -> Nat] /\ file_size[b] = req[c].offset
    BY <1>1, <1>3 DEF LayoutInv, LayoutTypes, CursorInv
  <2>2. CASE GrownEnough(rq)
    <3>1. file_size' = [file_size EXCEPT ![b] = file_size[b] + rq.size]
      BY <1>2, <2>2
    <3>2. /\ file_size' \in [Buckets -> Nat] /\ file_size'[b] = End(b)'
          /\ \A d \in Buckets : d # b => file_size'[d] = file_size[d]
      <4>1. file_size[b] + rq.size = End(b)' /\ file_size[b] + rq.size \in Nat
        <5>1. PICK o, z : o = req[c].offset /\ z = req[c].size /\ o \in Nat /\ z \in Nat
          BY <1>9
        <5>2. /\ file_size[b] = o /\ rq.size = z + Page /\ Page \in Nat
              /\ End(b)' = (o + z) + Page
          BY <1>3, <1>8, <1>9, <1>10, <2>1, <5>1
        <5> QED BY <5>1, <5>2
      <4> QED BY <2>1, <3>1, <4>1
    <3>3. /\ writer'[w].pc = "needs_request" /\ writer'[w].bucket = b
          /\ \A v \in Writers : v # w => writer'[v] = writer[v]
      BY <1>2, <2>2 DEF TypeInv
    <3>4. ~LockFree(b)' /\ \A d \in Buckets : d # b => (LockFree(d)' <=> LockFree(d))
      BY <1>3, <3>3 DEF LockFree
    <3> QED BY <2>1, <3>2, <3>4
  <2>3. CASE ~GrownEnough(rq)
    <3>1. UNCHANGED <<file_size, writer>>
      BY <1>2, <2>3
    <3>2. \A d : LockFree(d)' <=> LockFree(d)
      BY <3>1 DEF LockFree
    <3> QED BY <1>8, <2>1, <3>1, <3>2
  <2> QED BY <2>2, <2>3
<1>12. LayoutTypes'
  BY <1>2, <1>3, <1>5, <1>8, <1>11 DEF LayoutInv, LayoutTypes
<1>13. CursorInv'
  <2> SUFFICES ASSUME NEW d \in Buckets
               PROVE  /\ req'[current'[d]].bucket = d
                      /\ file_size'[d] = IF LockFree(d)' THEN req'[current'[d]].offset ELSE End(d)'
    BY DEF CursorInv
  <2>1. CASE d = b
    BY <1>1, <1>2, <1>8, <1>11, <2>1
  <2>2. CASE d # b
    <3>1. req'[current'[d]] = req[current[d]]
      BY <1>2, <1>3, <1>8, <2>2
    <3> QED BY <1>3, <1>10, <1>11, <2>2, <3>1 DEF LayoutInv, CursorInv
  <2> QED BY <2>1, <2>2
<1>14. FileInv(b)'
  <2>1. FileInv(b) /\ Kept(b) = misaligned[b] /\ Kept(b)' = misaligned[b]
    <3>1. FileInv(b)
      BY DEF LayoutInv, FilesInv
    <3> QED BY <1>2, <1>3, <3>1 DEF Kept
  <2>2. TilesUpTo(Laid(b), End(b))'
    BY <1>8, <1>10
  <2>3. p.blocks = <<x>> /\ misaligned[b] \in Seq(Block) /\ Len(misaligned[b]) \in Nat
    BY <1>6 DEF NextPiece, LayoutInv, LayoutTypes
  <2>4. HoldsAll(Laid(b) \cup {p}, misaligned[b], written[b] \cup {x})
    <3>1. HoldsAll(Laid(b), misaligned[b], written[b])
      BY <2>1 DEF FileInv
    <3> QED BY <1>5, <1>8, <2>3, <3>1, HoldsPage
  <2>5. HoldsAll(Laid(b), Kept(b), written[b])'
    BY <1>5, <1>8, <2>1, <2>4
  <2>6. SizesInv(b)'
    <3>1. BlockSizes(misaligned[b]) \in Nat
      BY <1>4, <2>3, BlockSizesAppend
    <3>2. Size(written[b]) = End(b) + BlockSizes(misaligned[b])
      BY <1>3, <2>1 DEF FileInv, SizesInv
    <3>3. Size(written'[b]) = End(b)' + BlockSizes(misaligned'[b])
      BY <1>2, <1>3, <1>4, <1>5, <1>8, <1>10, <3>1, <3>2
    <3> QED BY <1>3, <3>3 DEF SizesInv
  <2> QED BY <2>2, <2>5, <2>6 DEF FileInv
<1>15. ASSUME NEW d \in Buckets, d # b PROVE FileInv(d)'
  <2>1. Laid(d)' = Laid(d) /\ End(d)' = End(d) /\ written'[d] = written[d]
    BY <1>5, <1>8, <1>10, <1>15
  <2> QED BY <1>2, <1>3, <2>1, SameFile DEF LayoutInv, FilesInv
<1>16. FilesInv'
  BY <1>14, <1>15 DEF FilesInv
<1> QED BY <1>5, <1>8, <1>12, <1>13, <1>16 DEF LayoutInv

\* CleanUp lays the tail of a bucket, and reports the sizes.
LEMMA LayoutCleanUp ==
    ASSUME TypeInv, WriterInv, HolderInv, LayoutInv, NEW b \in Buckets, CleanUpBucket(b)
    PROVE  LayoutInv'
<1>1. PICK c, odd, tail : /\ c = current[b] /\ odd = BlockSizes(misaligned[b])
                          /\ tail = TailSize(odd)
  OBVIOUS
<1>2. PICK rq : rq = AddPointer(req[c], misaligned[b], tail)
  OBVIOUS
<1>3. /\ owner = "cleaning" /\ b \notin cleaned /\ cleaned' = cleaned \cup {b}
      /\ req' = [req EXCEPT ![c] = rq]
      /\ file_size' = [file_size EXCEPT ![b] = @ + rq.size]
      /\ result' = [result EXCEPT ![b] = [file |-> file_size'[b],
                                          true |-> file_size'[b] - tail + odd]]
      /\ UNCHANGED <<written, misaligned, current, writer, disk, reapable>>
  BY <1>1, <1>2 DEF CleanUpBucket, io
<1>4. misaligned[b] \in Seq(Block) /\ odd \in Nat
  <2>1. PICK e : e \in Block
    <3>1. [id |-> 0, size |-> 1] \in Block
      BY DEF Block
    <3> QED BY <3>1
  <2>2. misaligned[b] \in Seq(Block)
    BY DEF LayoutInv, LayoutTypes
  <2> QED BY <1>1, <2>1, <2>2, BlockSizesAppend
<1>5. /\ tail \in Nat \ {0} /\ odd + Metadata <= tail /\ Multiple(tail)
      /\ Metadata \in Nat /\ odd <= tail
  <2>1. tail \in Nat \ {0} /\ odd + Metadata <= tail /\ Multiple(tail) /\ Metadata \in Nat
    BY <1>1, <1>4, TailFits, Multiples
  <2> QED BY <1>4, <2>1
<1>6. PICK p : p = NextPiece(b, misaligned[b], tail)
  OBVIOUS
<1>7. /\ req' \in [Pool -> Request] /\ RequestInv'
      /\ c \in Pool /\ req[c] \in Request
      /\ req'[c].size = req[c].size + tail
      /\ End(b) = req[c].offset + req[c].size /\ End(b) \in Nat
      /\ \A d \in Buckets \ cleaned : d # b => req'[current[d]] = req[current[d]]
      /\ p \in Piece
      /\ Laid(b)' = Laid(b) \cup {p}
      /\ \A d : d # b => Laid(d)' = Laid(d)
      /\ TilesUpTo(Laid(b) \cup {p}, End(b) + tail)
      /\ Count(Laid(b) \cup {p}) = Count(Laid(b)) + Len(p.blocks)
      /\ Count(Laid(b)) \in Nat
  <2>1. AddsPiece(b, misaligned[b], tail)
    BY <1>1, <1>2, <1>3, <1>4, <1>5 DEF AddsPiece
  <2>2. PICK odds : odds = misaligned[b]
    OBVIOUS
  <2>3. PieceAdded(b, c, p)
    BY <1>1, <1>6, <2>1, <2>2, LayoutAdd
  <2>4. p.size = tail
    BY <1>6 DEF NextPiece
  <2> QED BY <2>3, <2>4 DEF PieceAdded
<1>8. \A d : LockFree(d) /\ LockFree(d)'
  BY <1>3 DEF LockFree, WriterInv
<1>9. /\ file_size' \in [Buckets -> Nat] /\ file_size'[b] = End(b) + tail
       /\ \A d \in Buckets : d # b => file_size'[d] = file_size[d]
  <2>1. file_size \in [Buckets -> Nat] /\ file_size[b] = req[c].offset
    BY <1>1, <1>3, <1>8 DEF LayoutInv, LayoutTypes, CursorInv
  <2>2. rq.size = req[c].size + tail
    <3>1. req'[c] = rq
      BY <1>3, <1>7 DEF LayoutInv, LayoutTypes
    <3> QED BY <1>7, <3>1
  <2>3. file_size[b] + rq.size = End(b) + tail /\ End(b) + tail \in Nat
    <3>1. req[c].offset \in Nat /\ req[c].size \in Nat
      BY <1>7 DEF Request
    <3> QED BY <1>5, <1>7, <2>1, <2>2, <3>1
  <2> QED BY <1>3, <2>1, <2>3
<1>10. /\ End(b)' = End(b) + tail
       /\ \A d \in Buckets : d # b => End(d)' = End(d)
  <2>1. End(b)' = file_size'[b]
    BY <1>3 DEF End
  <2>2. ASSUME NEW d \in Buckets, d # b PROVE End(d)' = End(d)
    <3>1. CASE d \in cleaned
      BY <1>3, <1>9, <2>2, <3>1 DEF End
    <3>2. CASE d \notin cleaned
      <4>1. req'[current'[d]] = req[current[d]] /\ d \notin cleaned'
        BY <1>3, <1>7, <2>2, <3>2
      <4> QED BY <3>2, <4>1 DEF End
    <3> QED BY <3>1, <3>2
  <2> QED BY <1>9, <2>1, <2>2
<1>11. /\ result' \in [Buckets -> [file : Nat, true : Nat]]
       /\ result'[b].file = End(b) + tail /\ result'[b].true = End(b) + odd
       /\ \A d \in Buckets : d # b => result'[d] = result[d]
  <2>1. file_size'[b] - tail + odd = End(b) + odd
    BY <1>4, <1>5, <1>7, <1>9
  <2> DEFINE n == [file |-> End(b) + tail, true |-> End(b) + odd]
  <2>2. result' = [result EXCEPT ![b] = n]
    BY <1>3, <1>9, <2>1
  <2>3. n \in [file : Nat, true : Nat] /\ n.file = End(b) + tail /\ n.true = End(b) + odd
    BY <1>4, <1>5, <1>7
  <2> HIDE DEF n
  <2> QED BY <2>2, <2>3 DEF LayoutInv, LayoutTypes
<1>12. LayoutTypes'
  BY <1>3, <1>7, <1>9, <1>11 DEF LayoutInv, LayoutTypes
<1>13. NumberInv'
  BY <1>3 DEF LayoutInv, NumberInv, AllWritten
<1>14. CursorInv'
  <2> SUFFICES ASSUME NEW d \in Buckets \ cleaned, d # b
               PROVE  /\ req'[current'[d]].bucket = d
                      /\ file_size'[d] = IF LockFree(d)' THEN req'[current'[d]].offset ELSE End(d)'
    BY <1>3 DEF CursorInv
  <2>1. req'[current'[d]] = req[current[d]]
    BY <1>3, <1>7
  <2> QED BY <1>8, <1>9, <2>1 DEF LayoutInv, CursorInv
<1>15. FileInv(b)'
  <2>1. FileInv(b) /\ Kept(b) = misaligned[b] /\ Kept(b)' = <<>>
    BY <1>3 DEF LayoutInv, FilesInv, Kept
  <2>2. TilesUpTo(Laid(b), End(b))'
    BY <1>7, <1>10
  <2>3. p.blocks = misaligned[b] /\ p.at = End(b)
    BY <1>6 DEF NextPiece
  <2>4. HoldsAll(Laid(b) \cup {p}, <<>>, written[b])
    BY <1>4, <1>7, <2>1, <2>3, HoldsTail DEF FileInv
  <2>5. HoldsAll(Laid(b), Kept(b), written[b])'
    BY <1>3, <1>7, <2>1, <2>4
  <2>6. SizesInv(b)'
    <3>1. Size(written'[b]) = result'[b].true
      BY <1>1, <1>3, <1>11, <2>1 DEF FileInv, SizesInv
    <3>2. result'[b].file = End(b)' /\ result'[b].true + Metadata <= End(b)'
      BY <1>4, <1>5, <1>7, <1>10, <1>11
    <3>3. ASSUME NEW d \in Laid(b) \cup {p} PROVE d.at + Bytes(d) <= End(b) + odd
      <4>1. CASE d = p
        BY <1>1, <1>4, <1>7, <2>3, <4>1 DEF Bytes
      <4>2. CASE d \in Laid(b)
        <5>1. d.at + d.size <= End(b) /\ Bytes(d) <= d.size /\ d \in Piece
          BY <2>1, <4>2 DEF FileInv, TilesUpTo
        <5>2. d.at \in Nat /\ d.size \in Nat /\ d.blocks \in Seq(Block)
          BY <5>1 DEF Piece
        <5>3. Bytes(d) \in Nat
          <6>1. PICK e : e \in Block
            <7>1. [id |-> 0, size |-> 1] \in Block
              BY DEF Block
            <7> QED BY <7>1
          <6> QED BY <5>2, <6>1, BlockSizesAppend DEF Bytes
        <5> QED BY <1>4, <1>7, <5>1, <5>2, <5>3
      <4> QED BY <4>1, <4>2
    <3>4. \A d \in Laid(b)' : d.at + Bytes(d) <= result'[b].true
      BY <1>7, <1>11, <3>3
    <3> QED BY <1>3, <3>1, <3>2, <3>4 DEF SizesInv
  <2> QED BY <2>2, <2>5, <2>6 DEF FileInv
<1>16. ASSUME NEW d \in Buckets, d # b PROVE FileInv(d)'
  <2>1. Laid(d)' = Laid(d) /\ End(d)' = End(d) /\ result'[d] = result[d]
        /\ (d \in cleaned' <=> d \in cleaned)
    BY <1>3, <1>7, <1>10, <1>11, <1>16
  <2> QED BY <1>3, <2>1, SameFile DEF LayoutInv, FilesInv
<1>17. FilesInv'
  BY <1>15, <1>16 DEF FilesInv
<1> QED BY <1>7, <1>12, <1>13, <1>14, <1>17 DEF LayoutInv

\* Every step keeps the layout.
LEMMA LayoutInvNext ==
    TypeInv /\ WriterInv /\ HolderInv /\ VectorInv /\ LayoutInv /\ [Next]_vars => LayoutInv'
<1> SUFFICES ASSUME TypeInv, WriterInv, HolderInv, VectorInv, LayoutInv, [Next]_vars
             PROVE  LayoutInv'
  OBVIOUS
<1>1. ASSUME UNCHANGED <<buckets, cleaned, result, req, reapable, disk>>,
             \A d : LockFree(d)' <=> LockFree(d)
      PROVE  LayoutInv'
  <2>1. /\ AllPieces' = AllPieces /\ \A b : End(b)' = End(b)
        /\ UNCHANGED <<written, misaligned, current, file_size>>
    BY <1>1 DEF AllPieces, End, buckets
  <2>2. NumberInv' /\ FilesInv'
    BY <1>1, <2>1, SameFiles
  <2>3. LayoutTypes' /\ RequestInv' /\ CursorInv'
    BY <1>1, <2>1 DEF LayoutInv, LayoutTypes, RequestInv, CursorInv
  <2> QED BY <2>2, <2>3 DEF LayoutInv
<1>2. ASSUME UNCHANGED writer PROVE \A d : LockFree(d)' <=> LockFree(d)
  BY <1>2 DEF LockFree
<1>3. CASE \E w \in Writers : Write(w)
  BY <1>3, LayoutWriteOdd, LayoutWritePage DEF Write
<1>4. CASE \E w \in Writers : SubmitRequest(w)
  <2>1. PICK w \in Writers : SubmitRequest(w)
    BY <1>4
  <2>2. writer[w].pc = "submits" /\ writer' = [writer EXCEPT ![w] = Idle]
    BY <2>1 DEF SubmitRequest
  <2>3. writer'[w].pc = "idle" /\ \A v \in Writers : v # w => writer'[v] = writer[v]
    BY <2>2 DEF TypeInv, Idle
  <2>4. \A d : LockFree(d)' <=> LockFree(d)
    BY <2>2, <2>3 DEF LockFree
  <2> QED BY <1>1, <2>1, <2>4 DEF SubmitRequest, closing, io
<1>5. CASE CallCleanUp \/ ClosePending \/ Join \/ UNCHANGED vars
  BY <1>1, <1>2, <1>5 DEF CallCleanUp, ClosePending, Join, vars, closing, io
<1>6. CASE \E t \in IOThreads : Loop(t) \/ NothingToReap(t) \/ Prepare(t) \/ Submit(t)
  BY <1>1, <1>2, <1>6 DEF Loop, NothingToReap, Prepare, Submit, closing
<1> QED
  BY <1>3, <1>4, <1>5, <1>6, LayoutNewRequest, LayoutCleanUp, LayoutReap, LayoutComplete
     DEF Next, Writer, Owner, IOThread

-----------------------------------------------------------------------------
(* Theorems                                                                *)

\* The invariant holds in every reachable state.
LEMMA RunInvariant == Spec => []WriterRunInv
<1>1. Init => WriterRunInv
  BY TypeInvInit, HolderInvInit, VectorInvInit, EndInvInit, LayoutInvInit DEF WriterRunInv
<1>2. WriterRunInv /\ [Next]_vars => WriterRunInv'
  BY TypeInvNext, WriterInvNext, HolderInvNext, RingInvNext, VectorInvNext, EndInvNext,
     LayoutInvNext DEF WriterRunInv
<1> QED BY <1>1, <1>2, PTL DEF Spec

\* A request is in the pool, in a bucket, with a writer, in the queue or in one
\* ring, and nowhere twice: no bucket refills what the kernel writes
\* (ordered_file_writer.h lines 79-84, 125-134 and 214-218).
THEOREM RequestHasOneHolder == Spec => []OneHolder
<1>1. WriterRunInv => OneHolder
  BY DEF WriterRunInv, HolderInv
<1> QED BY <1>1, RunInvariant, PTL

\* A vector is never filled past its end, not by the tail that CleanUp adds to
\* what the writers left either, and a ring holds what its counter says
\* (ordered_file_writer.h lines 89, 115, 183, 214 and 251-261).
THEOREM VectorsAndRingsHold == Spec => []FitsVectorAndRing
<1>1. WriterRunInv => FitsVectorAndRing
  BY DEF WriterRunInv, VectorInv, RingInv, FitsVectorAndRing
<1> QED BY <1>1, RunInvariant, PTL

\* When everybody is done, the file of a bucket is as long as reported and has no
\* hole and no overlap, each buffer given to Write for the bucket is in it once,
\* those of odd size in the tail, and the end marker fits behind the data: no
\* thread leaves with a request in the queue or in its ring, and file_size is
\* where the next request begins (ordered_file_writer.h lines 67-121, 125-134,
\* 171-191 and 299-323).
THEOREM FilesAreComplete == Spec => []DoneMeansComplete
<1>1. WriterRunInv /\ owner = "done" => \A b \in Buckets : FileIsComplete(b)
  <2> SUFFICES ASSUME TypeInv, WriterInv, HolderInv, RingInv, VectorInv, EndInv, LayoutInv,
                      owner = "done", NEW b \in Buckets
               PROVE  FileIsComplete(b)
    BY DEF WriterRunInv
  <2>1. pending = <<>> /\ cleaned = Buckets /\ \A t \in IOThreads : in_ring[t] = 0
    <3>1. PICK t : t \in IOThreads
      BY SizesAssumption
    <3> QED BY <3>1 DEF EndInv
  <2>2. \A t \in IOThreads : InRing(t) = {}
    BY <2>1, FS_EmptySet DEF RingInv
  <2>3. ASSUME NEW r \in Pool PROVE req[r].vectors = <<>>
    <3>1. Filling(r) = {} /\ Ringing(r) = {}
      BY <2>1, <2>2 DEF Filling, Ringing
    <3>2. Submitting(r) = {}
      BY DEF Submitting, WriterInv
    <3>3. TimesIn(r, pending) = 0
      <4>1. {i \in DOMAIN pending : pending[i] = r} = {}
        BY <2>1
      <4> QED BY <4>1, FS_EmptySet DEF TimesIn
    <3>4. TimesIn(r, free_requests) # 0
      BY <3>1, <3>2, <3>3, FS_EmptySet, Counts DEF Holders
    <3>5. PICK i \in DOMAIN free_requests : free_requests[i] = r
      <4>1. {i \in DOMAIN free_requests : free_requests[i] = r} # {}
        BY <3>4, FS_EmptySet DEF TimesIn
      <4> QED BY <4>1
    <3> QED BY <3>5 DEF VectorInv
  <2>4. Laid(b) = {d \in disk : d.bucket = b}
    <3>1. \A r \in Pool : Pieces(req[r]) = {}
      BY <2>3, NoPieces
    <3> QED BY <3>1 DEF Laid, AllPieces
  <2>5. PICK L : L = {d \in disk : d.bucket = b}
    OBVIOUS
  <2>6. /\ TilesUpTo(L, End(b)) /\ HoldsAll(L, <<>>, written[b])
        /\ Size(written[b]) = result[b].true
        /\ result[b].file = End(b) /\ result[b].true + Metadata <= End(b)
        /\ \A d \in L : d.at + Bytes(d) <= result[b].true
    BY <2>1, <2>4, <2>5 DEF LayoutInv, FilesInv, FileInv, SizesInv, Kept
  <2>7. HoldsItsBlocks(b)
    <3>1. ToSet(<<>>) = {}
      BY DEF ToSet
    <3> QED BY <2>5, <2>6, <3>1 DEF HoldsAll, HoldsItsBlocks
  <2>8. MapThenSumSet(LAMBDA d : Len(d.blocks), L) = Cardinality(written[b])
    <3>1. IsFiniteSet(L) /\ Count(L) \in Nat /\ Count(L) + 0 = Cardinality(written[b])
      <4>1. IsFiniteSet(L) /\ L \subseteq Piece /\ Len(<<>>) = 0
        BY <2>6 DEF TilesUpTo
      <4>2. \A d \in Piece : Len(d.blocks) \in Nat
        BY DEF Piece
      <4>3. PICK p : p \in Piece
        <5>1. [bucket |-> b, at |-> 0, size |-> 1, blocks |-> <<>>] \in Piece
          BY DEF Piece
        <5> QED BY <5>1
      <4>4. Count(L) \in Nat
        BY <4>1, <4>2, <4>3, CountAdds
      <4> QED BY <2>6, <4>1, <4>4 DEF HoldsAll
    <3>2. Count(L) = Cardinality(written[b])
      BY <3>1
    <3>3. MapThenSumSet(LAMBDA d : Len(d.blocks), L) = Count(L)
      BY <3>1, SumIsCount
    <3> QED BY <3>2, <3>3
  <2>9. /\ MapThenSumSet(LAMBDA d : d.size, L) = result[b].file
        /\ MapThenSumSet(LAMBDA x : x.size, written[b]) = result[b].true
    <3>1. IsFiniteSet(L) /\ IsFiniteSet(written[b]) /\ Size(L) = End(b)
      BY <2>6 DEF TilesUpTo, HoldsAll
    <3> QED BY <2>6, <3>1, SumIsSize
  <2>10. \A x, y \in L : x # y => x.at + x.size <= y.at \/ y.at + y.size <= x.at
    BY <2>6 DEF TilesUpTo
  <2>11. result[b].file % Page = 0
    <3>1. Multiple(End(b)) /\ End(b) \in Nat
      BY <2>6 DEF TilesUpTo, LayoutInv, LayoutTypes
    <3> QED BY <2>6, <3>1, Multiples
  <2> QED BY <2>5, <2>6, <2>7, <2>8, <2>9, <2>10, <2>11 DEF FileIsComplete
<1>2. WriterRunInv => DoneMeansComplete
  BY <1>1 DEF DoneMeansComplete
<1> QED BY <1>2, RunInvariant, PTL

=============================================================================
