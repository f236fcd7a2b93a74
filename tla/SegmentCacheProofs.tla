------------------------- MODULE SegmentCacheProofs -------------------------
(***************************************************************************)
(* Proofs about the segment cache, for every cache size.                   *)
(***************************************************************************)
EXTENDS SegmentCache, CacheQueueProofs, FiniteSetTheorems

CacheInv == TypeOK /\ NoDuplicates

LEMMA CacheStep == CacheInv /\ [Next]_vars => CacheInv'
<1> SUFFICES ASSUME CacheInv, [Next]_vars PROVE CacheInv'
  OBVIOUS
<1> USE CacheAssumption
<1>0. /\ queue \in Seq(Entries) /\ Len(queue) <= cache_size
      /\ Distinct(queue)
  BY DEF CacheInv, TypeOK, NoDuplicates, Distinct
<1> SUFFICES /\ queue' \in Seq(Entries) /\ Len(queue') <= cache_size
             /\ Distinct(queue')
             /\ returned' \in SUBSET Entries
             /\ held' \in SUBSET Entries
             /\ allocated' \in SUBSET Objects
             /\ up' \in BOOLEAN
  BY DEF CacheInv, TypeOK, NoDuplicates, Distinct
<1>1. ASSUME NEW s \in Segments, Get(s)
      PROVE  /\ queue' \in Seq(Entries) /\ Len(queue') <= cache_size
             /\ Distinct(queue')
             /\ UNCHANGED <<held, allocated>> /\ up' \in BOOLEAN
             /\ returned' \in SUBSET Entries
  <2>1. CASE containsEntry(queue, s)
    <3>1. queue' = getEntry(queue, s) /\ returned' = {queue'[1]}
      BY <1>1, <2>1 DEF Get
    <3>2. /\ queue' \in Seq(Entries) /\ Len(queue') = Len(queue)
          /\ Distinct(queue')
      BY <1>0, <2>1, <3>1, getEntryType, getEntryDistinct
    <3>3. 1 \in 1 .. Len(queue')
      BY <1>0, <2>1, <3>2, FindEntryFinds
    <3> QED BY <1>0, <1>1, <2>1, <3>1, <3>2, <3>3 DEF Get, CacheInv, TypeOK
  <2>2. CASE ~ containsEntry(queue, s)
    BY <1>0, <1>1, <2>2 DEF Get, CacheInv, TypeOK
  <2> QED BY <2>1, <2>2
<1>2. ASSUME NEW s \in Segments, Invalidate(s)
      PROVE  /\ queue' \in Seq(Entries) /\ Len(queue') <= cache_size
             /\ Distinct(queue')
             /\ allocated' \in SUBSET Objects /\ UNCHANGED <<held, up>>
             /\ returned' \in SUBSET Entries
  <2>1. queue' = invalidateEntry(queue, s)
    BY <1>2 DEF Invalidate
  <2>2. /\ queue' \in Seq(Entries) /\ Len(queue') <= Len(queue)
        /\ Distinct(queue')
    BY <1>0, <2>1, invalidateEntryType, invalidateEntryDistinct
  <2> QED BY <1>0, <1>2, <2>2 DEF Invalidate, CacheInv, TypeOK
<1>3. ASSUME NEW e \in held, Put(e)
      PROVE  /\ queue' \in Seq(Entries) /\ Len(queue') <= cache_size
             /\ Distinct(queue')
             /\ held' \in SUBSET Entries /\ allocated' \in SUBSET Objects
             /\ up' \in BOOLEAN /\ returned' \in SUBSET Entries
  <2>0. e \in Entries
    BY DEF CacheInv, TypeOK
  <2>1. CASE containsEntry(queue, e.seg)
    BY <1>0, <1>3, <2>1 DEF Put, CacheInv, TypeOK
  <2>2. CASE ~ containsEntry(queue, e.seg)
    <3>1. queue' = putEntry(queue, e, cache_size)
      BY <1>3, <2>2 DEF Put
    <3>2. /\ queue' \in Seq(Entries) /\ Len(queue') <= cache_size
          /\ Distinct(queue')
      BY <1>0, <2>0, <2>2, <3>1, putEntryType, putEntryDistinct
    <3> QED BY <1>3, <2>2, <3>2 DEF Put, CacheInv, TypeOK
  <2> QED BY <2>1, <2>2
<1>4. ASSUME NEW s \in Segments, NEW o \in Objects, Build(s, o)
      PROVE  /\ UNCHANGED <<queue, returned, up>>
             /\ held' \in SUBSET Entries /\ allocated' \in SUBSET Objects
  BY <1>4 DEF Build, CacheInv, TypeOK, Entries
<1>5. ASSUME NEW e \in held, Destroy(e)
      PROVE  /\ UNCHANGED <<queue, returned, up>>
             /\ held' \in SUBSET Entries /\ allocated' \in SUBSET Objects
  BY <1>5 DEF Destroy, CacheInv, TypeOK
<1>6. CASE UNCHANGED vars
  BY <1>0, <1>6 DEF vars, CacheInv, TypeOK
<1> QED
  BY <1>0, <1>1, <1>2, <1>3, <1>4, <1>5, <1>6 DEF Next, CacheInv, TypeOK

LEMMA CacheInvariant == Spec => []CacheInv
<1>1. Init => CacheInv
  BY CacheAssumption DEF Init, CacheInv, TypeOK, NoDuplicates
<1> QED BY <1>1, CacheStep, PTL DEF Spec

\* The cache never holds more segments than the --cache option allows, for
\* every sequence of cache operations.
THEOREM CacheTypeCorrect == Spec => []TypeOK
BY CacheInvariant, PTL DEF CacheInv

\* The cache never holds two copies of a segment, although putEntry, getEntry
\* and invalidateEntry move entries about by position.
THEOREM CacheHoldsSegmentsOnce == Spec => []NoDuplicates
BY CacheInvariant, PTL DEF CacheInv

----------------------------------------------------------------------------
(* Ownership of the segment objects. *)

ObjectsOf(q)       == {q[k].obj : k \in DOMAIN q}
DistinctObjects(q) == \A i, j \in DOMAIN q : q[i].obj = q[j].obj => i = j

\* Erasing an entry takes exactly its object out of the queue.
LEMMA EraseAtObjects ==
    ASSUME NEW S, NEW q \in Seq(S), NEW i \in 1 .. Len(q), DistinctObjects(q)
    PROVE  /\ DistinctObjects(EraseAt(q, i))
           /\ ObjectsOf(EraseAt(q, i)) = ObjectsOf(q) \ {q[i].obj}
<1> DEFINE r == EraseAt(q, i)
<1>1. /\ r \in Seq(S) /\ Len(r) = Len(q) - 1
      /\ \A k \in 1 .. Len(q) - 1 : r[k] = IF k < i THEN q[k] ELSE q[k + 1]
  BY EraseAtElements
<1> HIDE DEF r
<1>2. /\ DOMAIN r = 1 .. Len(q) - 1
      /\ DOMAIN q = 1 .. Len(q) /\ Len(q) \in Nat /\ i \in Nat
  BY <1>1
<1>3. \A k \in 1 .. Len(q) - 1 :
         \E m \in (1 .. Len(q)) \ {i} :
            r[k] = q[m] /\ m = IF k < i THEN k ELSE k + 1
  BY <1>1, <1>2
<1>4. DistinctObjects(r)
  <2> SUFFICES ASSUME NEW j \in 1 .. Len(q) - 1, NEW k \in 1 .. Len(q) - 1,
                      r[j].obj = r[k].obj
               PROVE  j = k
    BY <1>2 DEF DistinctObjects
  <2>1. PICK m \in (1 .. Len(q)) \ {i} :
           r[j] = q[m] /\ m = IF j < i THEN j ELSE j + 1
    BY <1>3
  <2>2. PICK n \in (1 .. Len(q)) \ {i} :
           r[k] = q[n] /\ n = IF k < i THEN k ELSE k + 1
    BY <1>3
  <2>3. m = n
    BY <1>2, <2>1, <2>2 DEF DistinctObjects
  <2> QED BY <1>2, <2>1, <2>2, <2>3
<1>5. ObjectsOf(r) \subseteq ObjectsOf(q) \ {q[i].obj}
  <2> SUFFICES ASSUME NEW k \in 1 .. Len(q) - 1
               PROVE  r[k].obj \in ObjectsOf(q) \ {q[i].obj}
    BY <1>2 DEF ObjectsOf
  <2>1. PICK m \in (1 .. Len(q)) \ {i} : r[k] = q[m]
    BY <1>3
  <2> QED BY <1>2, <2>1 DEF ObjectsOf, DistinctObjects
<1>6. ObjectsOf(q) \ {q[i].obj} \subseteq ObjectsOf(r)
  <2> SUFFICES ASSUME NEW m \in 1 .. Len(q), m # i
               PROVE  \E k \in 1 .. Len(q) - 1 : q[m].obj = r[k].obj
    <3>1. ASSUME NEW o \in ObjectsOf(q) \ {q[i].obj} PROVE o \in ObjectsOf(r)
      <4>1. PICK m \in 1 .. Len(q) : o = q[m].obj /\ m # i
        BY <1>2, <3>1 DEF ObjectsOf
      <4>2. PICK k \in 1 .. Len(q) - 1 : q[m].obj = r[k].obj
        BY <4>1
      <4> QED BY <1>2, <4>1, <4>2 DEF ObjectsOf
    <3> QED BY <3>1
  <2>1. CASE m < i
    <3>1. m \in 1 .. Len(q) - 1 /\ r[m] = q[m]
      BY <1>1, <1>2, <2>1
    <3> QED BY <3>1
  <2>2. CASE ~ m < i
    <3>1. m - 1 \in 1 .. Len(q) - 1 /\ r[m - 1] = q[m]
      BY <1>1, <1>2, <2>2
    <3> QED BY <3>1
  <2> QED BY <1>2, <2>1, <2>2
<1> QED BY <1>4, <1>5, <1>6 DEF r

\* A new entry at the front brings exactly its object.
LEMMA FrontObjects ==
    ASSUME NEW S, NEW q \in Seq(S), NEW e \in S, DistinctObjects(q),
           e.obj \notin ObjectsOf(q)
    PROVE  /\ DistinctObjects(<<e>> \o q)
           /\ ObjectsOf(<<e>> \o q) = ObjectsOf(q) \cup {e.obj}
<1> DEFINE r == <<e>> \o q
<1>1. /\ r \in Seq(S) /\ Len(r) = Len(q) + 1
      /\ \A k \in 1 .. Len(q) + 1 : r[k] = IF k = 1 THEN e ELSE q[k - 1]
  BY FrontElements
<1> HIDE DEF r
<1>2. /\ DOMAIN r = 1 .. Len(q) + 1
      /\ DOMAIN q = 1 .. Len(q) /\ Len(q) \in Nat
  BY <1>1
<1>3. r[1] = e /\ \A k \in 1 .. Len(q) : r[k + 1] = q[k]
  BY <1>1, <1>2
<1>4. \A k \in 1 .. Len(q) + 1 : k = 1 \/ \E m \in 1 .. Len(q) : k = m + 1
  <2> TAKE k \in 1 .. Len(q) + 1
  <2>1. k = 1 \/ (k - 1 \in 1 .. Len(q) /\ k = (k - 1) + 1)
    BY <1>2
  <2> QED BY <2>1
<1>5. DistinctObjects(r)
  <2> SUFFICES ASSUME NEW j \in DOMAIN r, NEW k \in DOMAIN r,
                      r[j].obj = r[k].obj
               PROVE  j = k
    BY DEF DistinctObjects
  <2>1. \A m \in 1 .. Len(q) : q[m].obj # e.obj
    BY <1>2 DEF ObjectsOf
  <2>2. CASE j = 1
    BY <1>2, <1>3, <1>4, <2>1, <2>2
  <2>3. CASE j # 1
    <3>1. PICK m \in 1 .. Len(q) : j = m + 1
      BY <1>2, <1>4, <2>3
    <3>2. k # 1
      BY <1>3, <2>1, <3>1
    <3>3. PICK n \in 1 .. Len(q) : k = n + 1
      BY <1>2, <1>4, <3>2
    <3>4. q[m].obj = q[n].obj
      BY <1>3, <3>1, <3>3
    <3> QED BY <1>2, <3>1, <3>3, <3>4 DEF DistinctObjects
  <2> QED BY <2>2, <2>3
<1>6. ObjectsOf(r) = ObjectsOf(q) \cup {e.obj}
  <2>1. ObjectsOf(r) \subseteq ObjectsOf(q) \cup {e.obj}
    BY <1>2, <1>3, <1>4 DEF ObjectsOf
  <2>2. e.obj \in ObjectsOf(r)
    BY <1>2, <1>3 DEF ObjectsOf
  <2>3. ASSUME NEW k \in 1 .. Len(q) PROVE q[k].obj \in ObjectsOf(r)
    <3>1. k + 1 \in DOMAIN r /\ r[k + 1] = q[k]
      BY <1>2, <1>3
    <3> QED BY <3>1 DEF ObjectsOf
  <2> QED BY <1>2, <2>1, <2>2, <2>3 DEF ObjectsOf
<1> QED BY <1>5, <1>6 DEF r

\* OneOwner, as a relation of the queue, the log's entries and the heap.
Owned(q, h, heap) ==
    /\ DistinctObjects(q)
    /\ heap = ObjectsOf(q) \cup {e.obj : e \in h}
    /\ \A e \in h : e.obj \notin ObjectsOf(q)
    /\ \A e, f \in h : e.obj = f.obj => e = f

LEMMA OneOwnerIsOwned == OneOwner <=> Owned(queue, held, allocated)
BY DEF OneOwner, Owned, DistinctObjects, ObjectsOf

LEMMA OneOwnerIsOwnedNext == OneOwner' <=> Owned(queue', held', allocated')
BY DEF OneOwner, Owned, DistinctObjects, ObjectsOf

\* Every operation hands an object over, or frees it, together with the entry
\* that owns it.
LEMMA OwnerStep == CacheInv /\ OneOwner /\ [Next]_vars => OneOwner'
<1> SUFFICES ASSUME CacheInv, Owned(queue, held, allocated), [Next]_vars
             PROVE  Owned(queue', held', allocated')
  BY OneOwnerIsOwned, OneOwnerIsOwnedNext
<1> USE CacheAssumption
<1>0. /\ queue \in Seq(Entries) /\ Len(queue) <= cache_size
      /\ held \subseteq Entries
  BY DEF CacheInv, TypeOK
<1>1. ASSUME NEW s \in Segments, Get(s)
      PROVE  Owned(queue', held', allocated')
  <2>1. CASE containsEntry(queue, s)
    <3> DEFINE i == FindEntry(queue, s)
               r == EraseAt(queue, i)
    <3>1. i \in 1 .. Len(queue)
      BY <1>0, <2>1, FindEntryFinds
    <3>2. r \in Seq(Entries) /\ queue[i] \in Entries
      BY <1>0, <3>1, EraseAtElements
    <3>3. /\ DistinctObjects(r)
          /\ ObjectsOf(r) = ObjectsOf(queue) \ {queue[i].obj}
      BY <1>0, <3>1, EraseAtObjects DEF Owned
    <3>4. queue[i].obj \in ObjectsOf(queue)
      BY <1>0, <3>1 DEF ObjectsOf
    <3>5. queue' = <<queue[i]>> \o r /\ UNCHANGED <<held, allocated>>
      BY <1>1, <2>1 DEF Get, getEntry
    <3> HIDE DEF i, r
    <3>6. /\ DistinctObjects(queue')
          /\ ObjectsOf(queue') = ObjectsOf(r) \cup {queue[i].obj}
      BY <3>2, <3>3, <3>5, FrontObjects
    <3>7. ObjectsOf(queue') = ObjectsOf(queue)
      BY <3>3, <3>4, <3>6
    <3> QED BY <3>5, <3>6, <3>7 DEF Owned
  <2>2. CASE ~ containsEntry(queue, s)
    BY <1>1, <2>2 DEF Get
  <2> QED BY <2>1, <2>2
<1>2. ASSUME NEW s \in Segments, Invalidate(s)
      PROVE  Owned(queue', held', allocated')
  <2>1. CASE containsEntry(queue, s)
    <3> DEFINE i == FindEntry(queue, s)
    <3>1. i \in 1 .. Len(queue)
      BY <1>0, <2>1, FindEntryFinds
    <3>2. /\ queue' = EraseAt(queue, i)
          /\ allocated' = allocated \ {queue[i].obj} /\ held' = held
      BY <1>2, <2>1 DEF Invalidate, invalidateEntry
    <3>3. queue[i].obj \in ObjectsOf(queue)
      BY <1>0, <3>1 DEF ObjectsOf
    <3> HIDE DEF i
    <3>4. /\ DistinctObjects(queue')
          /\ ObjectsOf(queue') = ObjectsOf(queue) \ {queue[i].obj}
      BY <1>0, <3>1, <3>2, EraseAtObjects DEF Owned
    <3>5. \A e \in held : e.obj # queue[i].obj
      BY <3>3 DEF Owned
    <3> QED BY <3>2, <3>4, <3>5 DEF Owned
  <2>2. CASE ~ containsEntry(queue, s)
    BY <1>2, <2>2 DEF Invalidate, invalidateEntry
  <2> QED BY <2>1, <2>2
<1>3. ASSUME NEW e \in held, Put(e)
      PROVE  Owned(queue', held', allocated')
  <2>0. e \in Entries /\ e.obj \notin ObjectsOf(queue)
    BY <1>0 DEF Owned
  <2>1. CASE containsEntry(queue, e.seg)
    BY <1>3, <2>1 DEF Put
  <2>2. CASE ~ containsEntry(queue, e.seg) /\ Len(queue) = cache_size
    <3> DEFINE last == queue[Len(queue)]
               r    == EraseAt(queue, Len(queue))
    <3>1. Len(queue) \in 1 .. Len(queue)
      BY <1>0, <2>2
    <3>2. /\ r \in Seq(Entries) /\ DistinctObjects(r)
          /\ ObjectsOf(r) = ObjectsOf(queue) \ {last.obj}
      BY <1>0, <3>1, EraseAtElements, EraseAtObjects DEF Owned
    <3>3. last.obj \in ObjectsOf(queue)
      BY <1>0, <3>1 DEF ObjectsOf
    <3>4. /\ queue' = <<e>> \o r
          /\ held' = held \ {e} /\ allocated' = allocated \ {last.obj}
      BY <1>3, <2>2 DEF Put, putEntry
    <3> HIDE DEF last, r
    <3>5. /\ DistinctObjects(queue')
          /\ ObjectsOf(queue') = ObjectsOf(r) \cup {e.obj}
      BY <2>0, <3>2, <3>4, FrontObjects
    <3>6. \A f \in held : f.obj # last.obj
      BY <3>3 DEF Owned
    <3> QED BY <3>2, <3>4, <3>5, <3>6 DEF Owned
  <2>3. CASE ~ containsEntry(queue, e.seg) /\ Len(queue) # cache_size
    <3>1. /\ queue' = <<e>> \o queue
          /\ held' = held \ {e} /\ allocated' = allocated
      BY <1>3, <2>3 DEF Put, putEntry
    <3>2. /\ DistinctObjects(queue')
          /\ ObjectsOf(queue') = ObjectsOf(queue) \cup {e.obj}
      BY <1>0, <2>0, <3>1, FrontObjects DEF Owned
    <3> QED BY <3>1, <3>2 DEF Owned
  <2> QED BY <2>1, <2>2, <2>3
<1>4. ASSUME NEW s \in Segments, NEW o \in Objects, Build(s, o)
      PROVE  Owned(queue', held', allocated')
  <2>1. /\ o \notin ObjectsOf(queue) /\ \A e \in held : e.obj # o
    BY <1>4 DEF Build, Owned
  <2>2. /\ queue' = queue /\ allocated' = allocated \cup {o}
        /\ held' = held \cup {[seg |-> s, obj |-> o]}
    BY <1>4 DEF Build
  <2> DEFINE n == [seg |-> s, obj |-> o]
  <2>3. n.obj = o
    OBVIOUS
  <2> HIDE DEF n
  <2>4. held' = held \cup {n}
    BY <2>2 DEF n
  <2> QED BY <2>1, <2>2, <2>3, <2>4 DEF Owned
<1>5. ASSUME NEW e \in held, Destroy(e)
      PROVE  Owned(queue', held', allocated')
  BY <1>5 DEF Destroy, Owned
<1>6. CASE UNCHANGED vars
  BY <1>6 DEF vars
<1> QED BY <1>1, <1>2, <1>3, <1>4, <1>5, <1>6 DEF Next

\* Every segment object has exactly one owner, the cache or the log: none is
\* leaked, destroyed twice or kept after it was destroyed, for every sequence
\* of cache operations and every reuse of addresses by malloc.
THEOREM CacheObjectsHaveOneOwner == Spec => []OneOwner
<1>1. Init => OneOwner
  BY DEF Init, OneOwner
<1> QED BY <1>1, CacheInvariant, OwnerStep, PTL DEF Spec

----------------------------------------------------------------------------
(* The queue as a least-recently-used cache: which segments it holds, by    *)
(* which object, and in which order they were used last.                    *)

SegsOf(q)   == {q[i].seg : i \in DOMAIN q}
HolderOf(q) == [s \in SegsOf(q) |-> q[FindEntry(q, s)].obj]
OlderOf(q)  == {<<q[p[1]].seg, q[p[2]].seg>> :
                   p \in {r \in (DOMAIN q) \X (DOMAIN q) : r[1] < r[2]}}
AnswerOf(r) == {<<e.seg, e.obj>> : e \in r}

\* Erasing position i moves what comes after it down by one.
Shift(i, k) == IF k < i THEN k ELSE k + 1

LEMMA HolderIs ==
    ASSUME NEW S, NEW q \in Seq(S), Distinct(q), NEW i \in 1 .. Len(q)
    PROVE  q[i].seg \in SegsOf(q) /\ HolderOf(q)[q[i].seg] = q[i].obj
<1>1. q[i].seg \in SegsOf(q) /\ containsEntry(q, q[i].seg)
  BY DEF SegsOf, containsEntry
<1>2. /\ FindEntry(q, q[i].seg) \in 1 .. Len(q)
      /\ q[FindEntry(q, q[i].seg)].seg = q[i].seg
  BY <1>1, FindEntryFinds
<1>3. FindEntry(q, q[i].seg) = i
  BY <1>2 DEF Distinct
<1> QED BY <1>1, <1>3 DEF HolderOf

LEMMA OlderIs ==
    ASSUME NEW S, NEW q \in Seq(S), NEW x
    PROVE  x \in OlderOf(q) <=> \E i, j \in 1 .. Len(q) : i < j /\ x = <<q[i].seg, q[j].seg>>
<1>1. ASSUME x \in OlderOf(q)
      PROVE  \E i, j \in 1 .. Len(q) : i < j /\ x = <<q[i].seg, q[j].seg>>
  <2>1. PICK p \in (DOMAIN q) \X (DOMAIN q) :
           p[1] < p[2] /\ x = <<q[p[1]].seg, q[p[2]].seg>>
    BY <1>1 DEF OlderOf
  <2>2. p[1] \in 1 .. Len(q) /\ p[2] \in 1 .. Len(q)
    OBVIOUS
  <2> QED BY <2>1, <2>2
<1>2. ASSUME NEW i \in 1 .. Len(q), NEW j \in 1 .. Len(q), i < j,
             x = <<q[i].seg, q[j].seg>>
      PROVE  x \in OlderOf(q)
  <2> DEFINE p == <<i, j>>
  <2>1. p \in (DOMAIN q) \X (DOMAIN q) /\ p[1] = i /\ p[2] = j
    OBVIOUS
  <2> HIDE DEF p
  <2> QED BY <1>2, <2>1 DEF OlderOf
<1> QED BY <1>1, <1>2

\* A queue without duplicates has as many segments as entries.
LEMMA SegsCount ==
    ASSUME NEW S, NEW q \in Seq(S), Distinct(q)
    PROVE  Cardinality(SegsOf(q)) = Len(q)
<1> DEFINE D == 1 .. Len(q)
           f == [i \in D |-> q[i].seg]
<1>1. Len(q) \in Nat /\ DOMAIN q = D
  OBVIOUS
<1>2. IsFiniteSet(D) /\ Cardinality(D) = Len(q)
  BY <1>1, FS_Interval
<1>3. f \in Surjection(D, SegsOf(q))
  BY <1>1 DEF SegsOf, Surjection
<1>4. f \in Injection(D, SegsOf(q))
  <2>1. f \in [D -> SegsOf(q)]
    BY <1>1 DEF SegsOf
  <2>2. \A i, j \in D : f[i] = f[j] => i = j
    BY <1>1 DEF Distinct
  <2> HIDE DEF f, D
  <2> QED BY <2>1, <2>2 DEF Injection, IsInjective
<1> HIDE DEF D, f
<1>5. Cardinality(SegsOf(q)) = Cardinality(D)
  BY <1>2, <1>3, <1>4, FS_Surjection
<1> QED BY <1>2, <1>5

LEMMA EraseAtAbs ==
    ASSUME NEW S, NEW q \in Seq(S), Distinct(q), NEW i \in 1 .. Len(q)
    PROVE  /\ SegsOf(EraseAt(q, i)) = SegsOf(q) \ {q[i].seg}
           /\ \A s \in SegsOf(q) \ {q[i].seg} : HolderOf(EraseAt(q, i))[s] = HolderOf(q)[s]
           /\ OlderOf(EraseAt(q, i)) =
                {p \in OlderOf(q) : p[1] # q[i].seg /\ p[2] # q[i].seg}
<1> DEFINE r == EraseAt(q, i)
           n == Len(q) - 1
           gone == q[i].seg
<1>1. /\ r \in Seq(S) /\ Len(r) = n
      /\ \A k \in 1 .. n : r[k] = IF k < i THEN q[k] ELSE q[k + 1]
  BY EraseAtElements
<1>2. Distinct(r)
  BY EraseAtDistinct
<1> HIDE DEF r
<1>3. /\ n \in Nat /\ n + 1 = Len(q) /\ i \in Nat
      /\ DOMAIN r = 1 .. n /\ DOMAIN q = 1 .. Len(q)
  BY <1>1
<1> HIDE DEF n
<1>4. \A k \in 1 .. n : /\ Shift(i, k) \in (1 .. Len(q)) \ {i}
                        /\ r[k] = q[Shift(i, k)]
  BY <1>1, <1>3 DEF Shift
<1>5. \A m \in (1 .. Len(q)) \ {i} : \E k \in 1 .. n : m = Shift(i, k)
  <2> SUFFICES ASSUME NEW m \in 1 .. Len(q), m # i
               PROVE  \E k \in 1 .. n : m = Shift(i, k)
    OBVIOUS
  <2>1. CASE m < i
    BY <1>3, <2>1 DEF Shift
  <2>2. CASE ~ m < i
    <3>1. m - 1 \in 1 .. n /\ m = Shift(i, m - 1)
      BY <1>3, <2>2 DEF Shift
    <3> QED BY <3>1
  <2> QED BY <2>1, <2>2
<1>6. \A m \in (1 .. Len(q)) \ {i} : q[m].seg # gone
  BY <1>3 DEF Distinct
<1>7. SegsOf(r) = SegsOf(q) \ {gone}
  <2>1. SegsOf(r) \subseteq SegsOf(q) \ {gone}
    BY <1>3, <1>4, <1>6 DEF SegsOf
  <2>2. ASSUME NEW s \in SegsOf(q), s # gone PROVE s \in SegsOf(r)
    <3>1. PICK m \in 1 .. Len(q) : s = q[m].seg /\ m # i
      BY <1>3, <2>2 DEF SegsOf
    <3>2. PICK k \in 1 .. n : m = Shift(i, k)
      BY <1>5, <3>1
    <3> QED BY <1>3, <1>4, <3>1, <3>2 DEF SegsOf
  <2> QED BY <2>1, <2>2
<1>8. ASSUME NEW s \in SegsOf(q) \ {gone} PROVE HolderOf(r)[s] = HolderOf(q)[s]
  <2>1. PICK k \in 1 .. n : s = r[k].seg
    BY <1>3, <1>7 DEF SegsOf
  <2>2. HolderOf(r)[s] = r[k].obj
    BY <1>1, <1>2, <2>1, HolderIs
  <2>3. Shift(i, k) \in 1 .. Len(q) /\ r[k] = q[Shift(i, k)]
    BY <1>4
  <2>4. HolderOf(q)[q[Shift(i, k)].seg] = q[Shift(i, k)].obj
    BY <2>3, HolderIs
  <2> QED BY <2>1, <2>2, <2>3, <2>4
<1>9. OlderOf(r) = {p \in OlderOf(q) : p[1] # gone /\ p[2] # gone}
  <2>1. ASSUME NEW x \in OlderOf(r) PROVE x \in OlderOf(q) /\ x[1] # gone /\ x[2] # gone
    <3>1. PICK j, k \in 1 .. n : j < k /\ x = <<r[j].seg, r[k].seg>>
      BY <1>1, OlderIs
    <3>2. /\ Shift(i, j) \in (1 .. Len(q)) \ {i} /\ r[j] = q[Shift(i, j)]
          /\ Shift(i, k) \in (1 .. Len(q)) \ {i} /\ r[k] = q[Shift(i, k)]
      BY <1>4
    <3>3. Shift(i, j) < Shift(i, k)
      BY <1>3, <3>1 DEF Shift
    <3>4. x \in OlderOf(q)
      BY <3>1, <3>2, <3>3, OlderIs
    <3> QED BY <1>6, <3>1, <3>2, <3>4
  <2>2. ASSUME NEW x \in OlderOf(q), x[1] # gone, x[2] # gone PROVE x \in OlderOf(r)
    <3>1. PICK l, m \in 1 .. Len(q) : l < m /\ x = <<q[l].seg, q[m].seg>>
      BY OlderIs
    <3>2. l # i /\ m # i
      BY <2>2, <3>1
    <3>3. PICK j \in 1 .. n : l = Shift(i, j)
      BY <1>5, <3>2
    <3>4. PICK k \in 1 .. n : m = Shift(i, k)
      BY <1>5, <3>2
    <3>5. j < k
      BY <1>3, <3>1, <3>3, <3>4 DEF Shift
    <3>6. x = <<r[j].seg, r[k].seg>>
      BY <1>4, <3>1, <3>3, <3>4
    <3> QED BY <1>1, <3>5, <3>6, OlderIs
  <2> QED BY <2>1, <2>2
<1> QED BY <1>7, <1>8, <1>9 DEF r

LEMMA FrontAbs ==
    ASSUME NEW S, NEW q \in Seq(S), NEW e \in S, Distinct(q), e.seg \notin SegsOf(q)
    PROVE  /\ SegsOf(<<e>> \o q) = SegsOf(q) \cup {e.seg}
           /\ HolderOf(<<e>> \o q) =
                [s \in SegsOf(q) \cup {e.seg} |-> IF s = e.seg THEN e.obj ELSE HolderOf(q)[s]]
           /\ OlderOf(<<e>> \o q) = OlderOf(q) \cup {<<e.seg, t>> : t \in SegsOf(q)}
<1> DEFINE r == <<e>> \o q
           n == Len(q)
<1>0. ~ containsEntry(q, e.seg)
  BY DEF containsEntry, SegsOf
<1>1. /\ r \in Seq(S) /\ Len(r) = n + 1
      /\ \A k \in 1 .. n + 1 : r[k] = IF k = 1 THEN e ELSE q[k - 1]
  BY FrontElements
<1>2. Distinct(r)
  BY <1>0, FrontDistinct
<1> HIDE DEF r
<1>3. n \in Nat /\ DOMAIN r = 1 .. n + 1 /\ DOMAIN q = 1 .. n
  BY <1>1
<1> HIDE DEF n
<1>4. /\ 1 \in 1 .. n + 1 /\ r[1] = e
      /\ \A k \in 1 .. n : k + 1 \in 1 .. n + 1 /\ r[k + 1] = q[k]
  BY <1>1, <1>3
<1>5. \A k \in 1 .. n + 1 : k = 1 \/ \E m \in 1 .. n : k = m + 1
  <2> TAKE k \in 1 .. n + 1
  <2>1. k = 1 \/ (k - 1 \in 1 .. n /\ k = (k - 1) + 1)
    BY <1>3
  <2> QED BY <2>1
<1>6. SegsOf(r) = SegsOf(q) \cup {e.seg}
  <2>1. ASSUME NEW s \in SegsOf(r) PROVE s \in SegsOf(q) \cup {e.seg}
    <3>1. PICK k \in 1 .. n + 1 : s = r[k].seg
      BY <1>3, <2>1 DEF SegsOf
    <3>2. k = 1 \/ \E m \in 1 .. n : k = m + 1
      BY <1>5
    <3> QED BY <1>3, <1>4, <3>1, <3>2 DEF SegsOf
  <2>2. e.seg \in SegsOf(r)
    BY <1>3, <1>4 DEF SegsOf
  <2>3. ASSUME NEW s \in SegsOf(q) PROVE s \in SegsOf(r)
    <3>1. PICK m \in 1 .. n : s = q[m].seg
      BY <1>3 DEF SegsOf
    <3> QED BY <1>3, <1>4, <3>1 DEF SegsOf
  <2> QED BY <2>1, <2>2, <2>3
<1>7. HolderOf(r) = [s \in SegsOf(q) \cup {e.seg} |->
                        IF s = e.seg THEN e.obj ELSE HolderOf(q)[s]]
  <2>1. HolderOf(r)[e.seg] = e.obj
    BY <1>1, <1>2, <1>4, HolderIs
  <2>2. ASSUME NEW s \in SegsOf(q) PROVE HolderOf(r)[s] = HolderOf(q)[s]
    <3>1. PICK m \in 1 .. n : s = q[m].seg
      BY <1>3 DEF SegsOf
    <3>2. HolderOf(q)[s] = q[m].obj
      BY <3>1, HolderIs DEF n
    <3>3. m + 1 \in 1 .. Len(r) /\ r[m + 1] = q[m]
      BY <1>1, <1>4
    <3>4. HolderOf(r)[s] = q[m].obj
      BY <1>1, <1>2, <3>1, <3>3, HolderIs
    <3> QED BY <3>2, <3>4
  <2>3. HolderOf(r) = [s \in SegsOf(q) \cup {e.seg} |-> HolderOf(r)[s]]
    BY <1>6 DEF HolderOf
  <2> QED BY <2>1, <2>2, <2>3
<1>8. OlderOf(r) = OlderOf(q) \cup {<<e.seg, t>> : t \in SegsOf(q)}
  <2>1. ASSUME NEW x \in OlderOf(r)
        PROVE  x \in OlderOf(q) \/ \E t \in SegsOf(q) : x = <<e.seg, t>>
    <3>1. PICK j, k \in 1 .. n + 1 : j < k /\ x = <<r[j].seg, r[k].seg>>
      BY <1>1, OlderIs
    <3>2. PICK m \in 1 .. n : k = m + 1
      BY <1>3, <1>5, <3>1
    <3>3. CASE j = 1
      BY <1>3, <1>4, <3>1, <3>2, <3>3 DEF SegsOf
    <3>4. CASE j # 1
      <4>1. PICK l \in 1 .. n : j = l + 1
        BY <1>5, <3>4
      <4>2. l < m /\ x = <<q[l].seg, q[m].seg>>
        BY <1>3, <1>4, <3>1, <3>2, <4>1
      <4> QED BY <4>2, OlderIs DEF n
    <3> QED BY <3>3, <3>4
  <2>2. ASSUME NEW x \in OlderOf(q) PROVE x \in OlderOf(r)
    <3>1. PICK l, m \in 1 .. n : l < m /\ x = <<q[l].seg, q[m].seg>>
      BY OlderIs DEF n
    <3>2. /\ l + 1 \in 1 .. Len(r) /\ m + 1 \in 1 .. Len(r) /\ l + 1 < m + 1
          /\ x = <<r[l + 1].seg, r[m + 1].seg>>
      BY <1>1, <1>3, <1>4, <3>1
    <3> QED BY <1>1, <3>2, OlderIs
  <2>3. ASSUME NEW t \in SegsOf(q) PROVE <<e.seg, t>> \in OlderOf(r)
    <3>1. PICK m \in 1 .. n : t = q[m].seg
      BY <1>3 DEF SegsOf
    <3>2. /\ 1 \in 1 .. Len(r) /\ m + 1 \in 1 .. Len(r) /\ 1 < m + 1
          /\ <<e.seg, t>> = <<r[1].seg, r[m + 1].seg>>
      BY <1>1, <1>3, <1>4, <3>1
    <3> QED BY <1>1, <3>2, OlderIs
  <2> QED BY <2>1, <2>2, <2>3
<1> QED BY <1>6, <1>7, <1>8 DEF r

----------------------------------------------------------------------------
(* Every step of the cache is a step of the least-recently-used cache.      *)

\* The refinement mapping in terms of the queue.
LEMMA UseIs ==
    ASSUME NEW s \in SegsOf(queue),
           HolderOf(queue') = HolderOf(queue),
           OlderOf(queue') = {p \in OlderOf(queue) : p[1] # s /\ p[2] # s}
                               \cup {<<s, t>> : t \in SegsOf(queue) \ {s}},
           AnswerOf(returned') = {<<s, HolderOf(queue)[s]>>}
    PROVE  Abs!Use(s)
BY DEF Abs!Use, Abs!Newest, Abs!Without, Abs!Cached, SegsOf, HolderOf, OlderOf, AnswerOf

LEMMA DropIs ==
    ASSUME NEW s \in SegsOf(queue),
           HolderOf(queue') = [t \in SegsOf(queue) \ {s} |-> HolderOf(queue)[t]],
           OlderOf(queue') = {p \in OlderOf(queue) : p[1] # s /\ p[2] # s},
           AnswerOf(returned') = {}
    PROVE  Abs!Drop(s)
BY DEF Abs!Drop, Abs!Without, Abs!Cached, Abs!NoAnswer, SegsOf, HolderOf, OlderOf, AnswerOf

LEMMA InsertIs ==
    ASSUME NEW s, s \notin SegsOf(queue), NEW o, NEW gone \in SUBSET SegsOf(queue),
           \A g \in gone : \A t \in SegsOf(queue) \ {g} : <<t, g>> \in OlderOf(queue),
           (gone # {}) <=> (Cardinality(SegsOf(queue)) = cache_size),
           HolderOf(queue') = [t \in (SegsOf(queue) \ gone) \cup {s} |->
                                 IF t = s THEN o ELSE HolderOf(queue)[t]],
           OlderOf(queue') =
             {p \in {r \in OlderOf(queue) : r[1] # s /\ r[2] # s}
                      \cup {<<s, t>> : t \in (SegsOf(queue) \ gone) \ {s}} :
                 p[2] \notin gone /\ p[1] \notin gone},
           AnswerOf(returned') = {}
    PROVE  Abs!Insert(s, o)
<1>1. gone \in SUBSET Abs!Oldest
  BY DEF Abs!Oldest, Abs!Cached, SegsOf, HolderOf, OlderOf
<1>2. Abs!Cached = SegsOf(queue)
  BY DEF Abs!Cached, SegsOf
<1>3. Abs!Newest(s, SegsOf(queue) \ gone) =
        {r \in OlderOf(queue) : r[1] # s /\ r[2] # s}
          \cup {<<s, t>> : t \in (SegsOf(queue) \ gone) \ {s}}
  BY Zenon DEF Abs!Newest, Abs!Without, OlderOf
<1> DEFINE kept == SegsOf(queue) \ gone
           newest == {r \in OlderOf(queue) : r[1] # s /\ r[2] # s}
                       \cup {<<s, t>> : t \in kept \ {s}}
<1>4. OlderOf(queue') = {p \in Abs!Newest(s, Abs!Cached \ gone) : p[2] \notin gone /\ p[1] \notin gone}
  BY <1>2, <1>3
<1>5. HolderOf(queue') = [t \in (Abs!Cached \ gone) \cup {s} |->
                             IF t = s THEN o ELSE HolderOf(queue)[t]]
  BY <1>2
<1>6. Abs!Cardinality(Abs!Cached) = Cardinality(SegsOf(queue))
  BY <1>2 DEF Abs!Cardinality, Cardinality
<1> QED
  BY <1>1, <1>2, <1>4, <1>5, <1>6, Zenon
     DEF Abs!Insert, Abs!NoAnswer, SegsOf, HolderOf, OlderOf, AnswerOf

LEMMA GetUses ==
    ASSUME CacheInv, NEW s \in Segments, Get(s), containsEntry(queue, s)
    PROVE  s \in SegsOf(queue) /\ Abs!Use(s)
<1> DEFINE i == FindEntry(queue, s)
           e == queue[i]
           r == EraseAt(queue, i)
<1>1. queue \in Seq(Entries) /\ Distinct(queue)
  BY DEF CacheInv, TypeOK, NoDuplicates, Distinct
<1>2. i \in 1 .. Len(queue) /\ e.seg = s
  BY <1>1, FindEntryFinds
<1>3. r \in Seq(Entries) /\ Distinct(r) /\ e \in Entries
  BY <1>1, <1>2, EraseAtElements, EraseAtDistinct
<1>4. s \in SegsOf(queue) /\ HolderOf(queue)[s] = e.obj
  BY <1>1, <1>2, HolderIs
<1>5. /\ SegsOf(r) = SegsOf(queue) \ {s}
      /\ \A t \in SegsOf(queue) \ {s} : HolderOf(r)[t] = HolderOf(queue)[t]
      /\ OlderOf(r) = {p \in OlderOf(queue) : p[1] # s /\ p[2] # s}
  BY <1>1, <1>2, EraseAtAbs
<1>6. queue' = <<e>> \o r /\ returned' = {queue'[1]}
  BY DEF Get, getEntry
<1> HIDE DEF i, e, r
<1>7. queue'[1] = e
  BY <1>3, <1>6, FrontElements
<1>8. /\ HolderOf(queue') =
           [t \in SegsOf(r) \cup {s} |-> IF t = s THEN e.obj ELSE HolderOf(r)[t]]
      /\ OlderOf(queue') = OlderOf(r) \cup {<<s, t>> : t \in SegsOf(r)}
  <2>1. e.seg \notin SegsOf(r)
    BY <1>2, <1>5
  <2>2. /\ HolderOf(<<e>> \o r) =
             [t \in SegsOf(r) \cup {e.seg} |-> IF t = e.seg THEN e.obj ELSE HolderOf(r)[t]]
        /\ OlderOf(<<e>> \o r) = OlderOf(r) \cup {<<e.seg, t>> : t \in SegsOf(r)}
    BY <1>3, <2>1, FrontAbs
  <2> QED BY <1>2, <1>6, <2>2, Zenon
<1>9. HolderOf(queue') = HolderOf(queue)
  <2>1. HolderOf(queue) = [t \in SegsOf(queue) |-> HolderOf(queue)[t]]
    BY DEF HolderOf
  <2>2. HolderOf(queue') = [t \in SegsOf(queue) |-> HolderOf(queue)[t]]
    BY <1>4, <1>5, <1>8
  <2> QED BY <2>1, <2>2
<1>10. AnswerOf(returned') = {<<s, HolderOf(queue)[s]>>}
  BY <1>2, <1>4, <1>6, <1>7 DEF AnswerOf
<1> QED BY <1>4, <1>5, <1>8, <1>9, <1>10, UseIs

LEMMA InvalidateDrops ==
    ASSUME CacheInv, NEW s \in Segments, Invalidate(s), containsEntry(queue, s)
    PROVE  Abs!Drop(s)
<1> DEFINE i == FindEntry(queue, s)
           r == EraseAt(queue, i)
<1>1. queue \in Seq(Entries) /\ Distinct(queue)
  BY DEF CacheInv, TypeOK, NoDuplicates, Distinct
<1>2. i \in 1 .. Len(queue) /\ queue[i].seg = s
  BY <1>1, FindEntryFinds
<1>3. s \in SegsOf(queue)
  BY <1>1, <1>2, HolderIs
<1>4. queue' = r /\ returned' = {}
  BY DEF Invalidate, invalidateEntry
<1>5. /\ SegsOf(r) = SegsOf(queue) \ {s}
      /\ \A t \in SegsOf(queue) \ {s} : HolderOf(r)[t] = HolderOf(queue)[t]
      /\ OlderOf(r) = {p \in OlderOf(queue) : p[1] # s /\ p[2] # s}
  BY <1>1, <1>2, EraseAtAbs
<1> HIDE DEF i, r
<1>6. HolderOf(queue') = [t \in SegsOf(queue) \ {s} |-> HolderOf(queue)[t]]
  <2>1. HolderOf(queue') = [t \in SegsOf(r) |-> HolderOf(r)[t]]
    BY <1>4 DEF HolderOf
  <2> QED BY <1>5, <2>1
<1>7. AnswerOf(returned') = {}
  BY <1>4 DEF AnswerOf
<1> QED BY <1>3, <1>4, <1>5, <1>6, <1>7, DropIs

\* The last entry is the one every other was used after.
LEMMA LastIsOldest ==
    ASSUME NEW S, NEW q \in Seq(S), Len(q) # 0,
           NEW t \in SegsOf(q) \ {q[Len(q)].seg}
    PROVE  <<t, q[Len(q)].seg>> \in OlderOf(q)
<1>1. PICK k \in 1 .. Len(q) : t = q[k].seg
  BY DEF SegsOf
<1>2. k < Len(q) /\ Len(q) \in 1 .. Len(q)
  BY <1>1
<1> QED BY <1>1, <1>2, OlderIs

LEMMA PutInserts ==
    ASSUME CacheInv, NEW e \in held, Put(e), ~ containsEntry(queue, e.seg)
    PROVE  Abs!Insert(e.seg, e.obj)
<1> USE CacheAssumption
<1>1. queue \in Seq(Entries) /\ Distinct(queue) /\ e \in Entries
  BY DEF CacheInv, TypeOK, NoDuplicates, Distinct
<1>2. e.seg \notin SegsOf(queue)
  BY DEF SegsOf, containsEntry
<1>3. Cardinality(SegsOf(queue)) = Len(queue)
  BY <1>1, SegsCount
<1>4. queue' = putEntry(queue, e, cache_size) /\ AnswerOf(returned') = {}
  BY DEF Put, AnswerOf
<1>5. \A p \in OlderOf(queue) : p[1] # e.seg /\ p[2] # e.seg
  <2> TAKE p \in OlderOf(queue)
  <2>1. PICK j, k \in 1 .. Len(queue) : p = <<queue[j].seg, queue[k].seg>>
    BY <1>1, OlderIs
  <2> QED BY <1>1, <1>2, <2>1, HolderIs
<1>6. CASE Len(queue) # cache_size
  <2>1. queue' = <<e>> \o queue
    BY <1>4, <1>6 DEF putEntry
  <2>2. /\ HolderOf(queue') = [t \in SegsOf(queue) \cup {e.seg} |->
                                IF t = e.seg THEN e.obj ELSE HolderOf(queue)[t]]
        /\ OlderOf(queue') = OlderOf(queue) \cup {<<e.seg, t>> : t \in SegsOf(queue)}
    <3>1. /\ HolderOf(<<e>> \o queue) =
               [t \in SegsOf(queue) \cup {e.seg} |->
                  IF t = e.seg THEN e.obj ELSE HolderOf(queue)[t]]
          /\ OlderOf(<<e>> \o queue) =
               OlderOf(queue) \cup {<<e.seg, t>> : t \in SegsOf(queue)}
      BY <1>1, <1>2, FrontAbs
    <3> QED BY <2>1, <3>1, Zenon
  <2> DEFINE gone == {}
  <2>3. HolderOf(queue') = [t \in (SegsOf(queue) \ gone) \cup {e.seg} |->
                              IF t = e.seg THEN e.obj ELSE HolderOf(queue)[t]]
    BY <2>2
  <2>4. OlderOf(queue') =
          {p \in {r \in OlderOf(queue) : r[1] # e.seg /\ r[2] # e.seg}
                   \cup {<<e.seg, t>> : t \in (SegsOf(queue) \ gone) \ {e.seg}} :
             p[2] \notin gone /\ p[1] \notin gone}
    BY <1>2, <1>5, <2>2
  <2>5. /\ gone \in SUBSET SegsOf(queue)
        /\ \A g \in gone : \A t \in SegsOf(queue) \ {g} : <<t, g>> \in OlderOf(queue)
        /\ (gone # {}) <=> (Cardinality(SegsOf(queue)) = cache_size)
    BY <1>3, <1>6
  <2> HIDE DEF gone
  <2> QED BY <1>2, <1>4, <2>3, <2>4, <2>5, InsertIs
<1>7. CASE Len(queue) = cache_size
  <2> DEFINE n == Len(queue)
             last == queue[n].seg
             r == EraseAt(queue, n)
             gone == {last}
  <2>1. n \in 1 .. Len(queue) /\ n # 0
    BY <1>1, <1>7
  <2>2. queue' = <<e>> \o r
    BY <1>4, <1>7 DEF putEntry
  <2>3. r \in Seq(Entries) /\ Distinct(r)
    BY <1>1, <2>1, EraseAtElements, EraseAtDistinct
  <2>4. last \in SegsOf(queue) /\ last # e.seg
    BY <1>1, <1>2, <2>1, HolderIs
  <2>5. /\ SegsOf(r) = SegsOf(queue) \ gone
        /\ \A t \in SegsOf(queue) \ gone : HolderOf(r)[t] = HolderOf(queue)[t]
        /\ OlderOf(r) = {p \in OlderOf(queue) : p[1] # last /\ p[2] # last}
    BY <1>1, <2>1, EraseAtAbs
  <2>6. \A t \in SegsOf(queue) \ {last} : <<t, last>> \in OlderOf(queue)
    BY <1>1, <2>1, LastIsOldest
  <2> HIDE DEF last, r, n
  <2>7. /\ HolderOf(queue') = [t \in SegsOf(r) \cup {e.seg} |->
                                 IF t = e.seg THEN e.obj ELSE HolderOf(r)[t]]
        /\ OlderOf(queue') = OlderOf(r) \cup {<<e.seg, t>> : t \in SegsOf(r)}
    <3>1. e.seg \notin SegsOf(r)
      BY <1>2, <2>5
    <3> QED BY <1>1, <2>2, <2>3, <3>1, FrontAbs
  <2>8. HolderOf(queue') = [t \in (SegsOf(queue) \ gone) \cup {e.seg} |->
                              IF t = e.seg THEN e.obj ELSE HolderOf(queue)[t]]
    BY <2>5, <2>7
  <2>9. OlderOf(queue') =
          {p \in {x \in OlderOf(queue) : x[1] # e.seg /\ x[2] # e.seg}
                   \cup {<<e.seg, t>> : t \in (SegsOf(queue) \ gone) \ {e.seg}} :
             p[2] \notin gone /\ p[1] \notin gone}
    BY <1>2, <1>5, <2>4, <2>5, <2>7
  <2>10. /\ gone \in SUBSET SegsOf(queue)
         /\ \A g \in gone : \A t \in SegsOf(queue) \ {g} : <<t, g>> \in OlderOf(queue)
         /\ (gone # {}) <=> (Cardinality(SegsOf(queue)) = cache_size)
    BY <1>3, <1>7, <2>4, <2>6
  <2> HIDE DEF gone
  <2> QED BY <1>2, <1>4, <2>8, <2>9, <2>10, InsertIs
<1> QED BY <1>6, <1>7

LEMMA LRUStep == CacheInv /\ [Next]_vars => [Abs!LRUNext]_(Abs!lruVars)
<1> SUFFICES ASSUME CacheInv, [Next]_vars, ~ UNCHANGED Abs!lruVars
             PROVE  Abs!LRUNext
  OBVIOUS
<1>1. ~ (queue' = queue /\ returned' = returned)
  BY DEF Abs!lruVars
<1>2. ASSUME NEW s \in Segments, Get(s) PROVE Abs!LRUNext
  <2>1. containsEntry(queue, s)
    BY <1>1, <1>2 DEF Get
  <2> QED BY <1>2, <2>1, GetUses DEF Abs!LRUNext
<1>3. ASSUME NEW s \in Segments, Invalidate(s) PROVE Abs!LRUNext
  <2>1. containsEntry(queue, s)
    BY <1>1, <1>3 DEF Invalidate, invalidateEntry
  <2> QED BY <1>3, <2>1, InvalidateDrops DEF Abs!LRUNext
<1>4. ASSUME NEW e \in held, Put(e) PROVE Abs!LRUNext
  <2>1. ~ containsEntry(queue, e.seg)
    BY <1>1, <1>4 DEF Put
  <2>2. e.seg \in Segments /\ e.obj \in Objects
    BY DEF CacheInv, TypeOK, Entries
  <2> QED BY <1>4, <2>1, <2>2, PutInserts DEF Abs!LRUNext
<1>5. ASSUME NEW s \in Segments, NEW o \in Objects, Build(s, o) PROVE FALSE
  BY <1>1, <1>5 DEF Build
<1>6. ASSUME NEW e \in held, Destroy(e) PROVE FALSE
  BY <1>1, <1>6 DEF Destroy
<1> QED BY <1>1, <1>2, <1>3, <1>4, <1>5, <1>6 DEF Next, vars

\* The vector, with its linear searches, erasures and insertions by position,
\* is a least-recently-used cache: a lookup answers with the object that was
\* put for the segment, and a full cache gives up the segment that was not used
\* for longest, for every cache size and every sequence of operations.
THEOREM CacheImplementsLRU == Spec => ImplementsLRU
<1>1. Init => Abs!LRUInit
  <2> SUFFICES ASSUME Init PROVE Abs!LRUInit
    OBVIOUS
  <2>1. queue = <<>> /\ returned = {}
    BY DEF Init
  <2>2. SegsOf(queue) = {} /\ OlderOf(queue) = {} /\ AnswerOf(returned) = {}
    BY <2>1 DEF SegsOf, OlderOf, AnswerOf
  <2>3. HolderOf(queue) = <<>>
    BY <2>2 DEF HolderOf
  <2> QED BY <2>2, <2>3
          DEF Abs!LRUInit, Abs!NoAnswer, SegsOf, HolderOf, OlderOf, AnswerOf
<1> QED BY <1>1, LRUStep, CacheInvariant, PTL DEF Spec, ImplementsLRU, Abs!LRUSpec

=============================================================================
