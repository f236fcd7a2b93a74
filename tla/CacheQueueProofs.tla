-------------------------- MODULE CacheQueueProofs --------------------------
(***************************************************************************)
(* What the operations on the cache queue return, for every queue: the     *)
(* elements and the length, and that they introduce no duplicates.         *)
(***************************************************************************)
EXTENDS CacheQueue, Integers, TLAPS, SequenceTheorems, WellFoundedInduction

\* A non-empty set of naturals has a least element.
LEMMA LeastNat ==
    ASSUME NEW T, T \subseteq Nat, T # {}
    PROVE  \E x \in T : \A y \in T : x <= y
<1>1. PICK x \in T : \A y \in T : ~ (<<y, x>> \in OpToRel(<, Nat))
  BY NatLessThanWellFounded, WFMin
<1>2. \A y \in T : ~ (y < x)
  BY <1>1 DEF OpToRel
<1> QED BY <1>2

\* The search finds an entry of the segment if there is one.
LEMMA FindEntryFinds ==
    ASSUME NEW S, NEW q \in Seq(S), NEW n, containsEntry(q, n)
    PROVE  /\ FindEntry(q, n) \in 1 .. Len(q)
           /\ q[FindEntry(q, n)].seg = n
<1> DEFINE T == {i \in 1 .. Len(q) : q[i].seg = n}
<1>1. T \subseteq Nat /\ T # {}
  BY DEF containsEntry
<1> HIDE DEF T
<1>2. PICK i \in T : \A j \in T : i <= j
  BY <1>1, LeastNat
<1>3. /\ i \in DOMAIN q
      /\ q[i].seg = n
      /\ \A j \in 1 .. i - 1 : q[j].seg # n
  BY <1>2 DEF T
<1> QED BY <1>3 DEF FindEntry

\* Erasing a position keeps the order of the others.
LEMMA EraseAtElements ==
    ASSUME NEW S, NEW q \in Seq(S), NEW i \in 1 .. Len(q)
    PROVE  /\ EraseAt(q, i) \in Seq(S)
           /\ Len(EraseAt(q, i)) = Len(q) - 1
           /\ \A k \in 1 .. Len(q) - 1 :
                 EraseAt(q, i)[k] = IF k < i THEN q[k] ELSE q[k + 1]
<1> DEFINE a == SubSeq(q, 1, i - 1)
           b == SubSeq(q, i + 1, Len(q))
<1>1. /\ a \in Seq(S) /\ Len(a) = i - 1
      /\ \A k \in 1 .. i - 1 : a[k] = q[k]
  OBVIOUS
<1>2. /\ b \in Seq(S) /\ Len(b) = Len(q) - i
      /\ \A k \in 1 .. Len(q) - i : b[k] = q[i + k]
  OBVIOUS
<1> HIDE DEF a, b
<1>3. /\ a \o b \in Seq(S)
      /\ Len(a \o b) = Len(q) - 1
      /\ \A k \in 1 .. Len(q) - 1 :
            (a \o b)[k] = IF k <= i - 1 THEN a[k] ELSE b[k - (i - 1)]
  <2>1. /\ a \o b \in Seq(S)
        /\ Len(a \o b) = Len(a) + Len(b)
        /\ \A k \in 1 .. Len(a) + Len(b) :
              (a \o b)[k] = IF k <= Len(a) THEN a[k] ELSE b[k - Len(a)]
    BY <1>1, <1>2, ConcatProperties
  <2> QED BY <1>1, <1>2, <2>1
<1>4. \A k \in 1 .. Len(q) - 1 :
            (a \o b)[k] = IF k < i THEN q[k] ELSE q[k + 1]
  BY <1>1, <1>2, <1>3
<1> QED BY <1>3, <1>4 DEF EraseAt, a, b

\* Adding an entry in front.
LEMMA FrontElements ==
    ASSUME NEW S, NEW q \in Seq(S), NEW e \in S
    PROVE  /\ <<e>> \o q \in Seq(S)
           /\ Len(<<e>> \o q) = Len(q) + 1
           /\ \A k \in 1 .. Len(q) + 1 :
                 (<<e>> \o q)[k] = IF k = 1 THEN e ELSE q[k - 1]
OBVIOUS

\* The three operations return queues of the same kind of entries, and none
\* lets the cache outgrow its size.
LEMMA getEntryType ==
    ASSUME NEW S, NEW q \in Seq(S), NEW n, containsEntry(q, n)
    PROVE  getEntry(q, n) \in Seq(S) /\ Len(getEntry(q, n)) = Len(q)
<1>1. FindEntry(q, n) \in 1 .. Len(q)
  BY FindEntryFinds
<1>2. /\ EraseAt(q, FindEntry(q, n)) \in Seq(S)
      /\ Len(EraseAt(q, FindEntry(q, n))) = Len(q) - 1
  BY <1>1, EraseAtElements
<1>3. q[FindEntry(q, n)] \in S
  BY <1>1
<1> QED BY <1>2, <1>3, FrontElements DEF getEntry

LEMMA putEntryType ==
    ASSUME NEW S, NEW q \in Seq(S), NEW e \in S, NEW size \in Nat \ {0},
           Len(q) <= size
    PROVE  putEntry(q, e, size) \in Seq(S) /\ Len(putEntry(q, e, size)) <= size
<1>1. CASE Len(q) = size
  <2>1. /\ EraseAt(q, Len(q)) \in Seq(S)
        /\ Len(EraseAt(q, Len(q))) = Len(q) - 1
    BY <1>1, EraseAtElements
  <2>2. putEntry(q, e, size) = <<e>> \o EraseAt(q, Len(q))
    BY <1>1 DEF putEntry
  <2> QED BY <1>1, <2>1, <2>2, FrontElements
<1>2. CASE Len(q) # size
  BY <1>2, FrontElements DEF putEntry
<1> QED BY <1>1, <1>2

LEMMA invalidateEntryType ==
    ASSUME NEW S, NEW q \in Seq(S), NEW n
    PROVE  /\ invalidateEntry(q, n) \in Seq(S)
           /\ Len(invalidateEntry(q, n)) <= Len(q)
<1>1. CASE containsEntry(q, n)
  <2>1. FindEntry(q, n) \in 1 .. Len(q)
    BY <1>1, FindEntryFinds
  <2>2. /\ EraseAt(q, FindEntry(q, n)) \in Seq(S)
        /\ Len(EraseAt(q, FindEntry(q, n))) = Len(q) - 1
    BY <2>1, EraseAtElements
  <2> QED BY <1>1, <2>2 DEF invalidateEntry
<1>2. CASE ~ containsEntry(q, n)
  BY <1>2 DEF invalidateEntry
<1> QED BY <1>1, <1>2

----------------------------------------------------------------------------

\* No segment has two entries.
Distinct(q) == \A i, j \in DOMAIN q : q[i].seg = q[j].seg => i = j

LEMMA EraseAtDistinct ==
    ASSUME NEW S, NEW q \in Seq(S), NEW i \in 1 .. Len(q), Distinct(q)
    PROVE  /\ Distinct(EraseAt(q, i))
           /\ \A k \in 1 .. Len(EraseAt(q, i)) : EraseAt(q, i)[k].seg # q[i].seg
           /\ \A n : ~ containsEntry(q, n) => ~ containsEntry(EraseAt(q, i), n)
<1> DEFINE r == EraseAt(q, i)
<1>1. /\ r \in Seq(S) /\ Len(r) = Len(q) - 1
      /\ \A k \in 1 .. Len(q) - 1 : r[k] = IF k < i THEN q[k] ELSE q[k + 1]
  BY EraseAtElements
<1> HIDE DEF r
<1>2. Distinct(r)
  <2> SUFFICES ASSUME NEW j \in 1 .. Len(r), NEW k \in 1 .. Len(r),
                      r[j].seg = r[k].seg
               PROVE  j = k
    BY <1>1 DEF Distinct
  <2>1. PICK jj \in 1 .. Len(q) : r[j] = q[jj] /\ jj = IF j < i THEN j ELSE j + 1
    BY <1>1
  <2>2. PICK kk \in 1 .. Len(q) : r[k] = q[kk] /\ kk = IF k < i THEN k ELSE k + 1
    BY <1>1
  <2>3. jj = kk
    BY <2>1, <2>2 DEF Distinct
  <2> QED BY <2>1, <2>2, <2>3
<1>3. ASSUME NEW k \in 1 .. Len(r) PROVE r[k].seg # q[i].seg
  <2>1. PICK kk \in 1 .. Len(q) : r[k] = q[kk] /\ kk # i
    BY <1>1
  <2> QED BY <2>1 DEF Distinct
<1>4. ASSUME NEW n, ~ containsEntry(q, n) PROVE ~ containsEntry(r, n)
  <2> SUFFICES ASSUME NEW k \in 1 .. Len(r), r[k].seg = n PROVE FALSE
    BY <1>1 DEF containsEntry
  <2>1. PICK kk \in 1 .. Len(q) : r[k] = q[kk]
    BY <1>1
  <2> QED BY <1>4, <2>1 DEF containsEntry
<1> QED BY <1>2, <1>3, <1>4 DEF r

\* A new entry in front of a queue that has none of its segment.
LEMMA FrontDistinct ==
    ASSUME NEW S, NEW q \in Seq(S), NEW e \in S, Distinct(q),
           ~ containsEntry(q, e.seg)
    PROVE  Distinct(<<e>> \o q)
<1> DEFINE r == <<e>> \o q
<1>1. /\ r \in Seq(S) /\ Len(r) = Len(q) + 1
      /\ \A k \in 1 .. Len(q) + 1 : r[k] = IF k = 1 THEN e ELSE q[k - 1]
  BY FrontElements
<1> HIDE DEF r
<1> SUFFICES ASSUME NEW j \in 1 .. Len(r), NEW k \in 1 .. Len(r),
                    r[j].seg = r[k].seg
             PROVE  j = k
  BY <1>1 DEF Distinct, r
<1>2. \A m \in 1 .. Len(q) : q[m].seg # e.seg
  BY DEF containsEntry
<1>3. CASE j = 1 \/ k = 1
  <2>1. ASSUME NEW m \in 1 .. Len(r), m # 1 PROVE r[m].seg # e.seg
    <3>1. m - 1 \in 1 .. Len(q) /\ r[m] = q[m - 1]
      BY <1>1, <2>1
    <3> QED BY <1>2, <3>1
  <2>2. r[1] = e
    BY <1>1
  <2> QED BY <1>3, <2>1, <2>2
<1>4. CASE j # 1 /\ k # 1
  <2>1. j - 1 \in 1 .. Len(q) /\ k - 1 \in 1 .. Len(q)
    BY <1>1, <1>4
  <2>2. q[j - 1].seg = q[k - 1].seg
    BY <1>1, <1>4
  <2> QED BY <2>1, <2>2 DEF Distinct
<1> QED BY <1>3, <1>4

LEMMA getEntryDistinct ==
    ASSUME NEW S, NEW q \in Seq(S), NEW n, containsEntry(q, n), Distinct(q)
    PROVE  Distinct(getEntry(q, n))
<1> DEFINE i == FindEntry(q, n)
<1>1. i \in 1 .. Len(q)
  BY FindEntryFinds
<1> HIDE DEF i
<1>2. /\ EraseAt(q, i) \in Seq(S)
      /\ Distinct(EraseAt(q, i))
  BY <1>1, EraseAtElements, EraseAtDistinct
<1>3. \A k \in 1 .. Len(EraseAt(q, i)) : EraseAt(q, i)[k].seg # q[i].seg
  BY <1>1, EraseAtDistinct
<1>4. ~ containsEntry(EraseAt(q, i), q[i].seg)
  BY <1>2, <1>3 DEF containsEntry
<1>5. q[i] \in S
  BY <1>1
<1>6. Distinct(<<q[i]>> \o EraseAt(q, i))
  BY <1>2, <1>4, <1>5, FrontDistinct
<1> QED BY <1>6 DEF getEntry, i

LEMMA putEntryDistinct ==
    ASSUME NEW S, NEW q \in Seq(S), NEW e \in S, NEW size \in Nat \ {0},
           Distinct(q), ~ containsEntry(q, e.seg)
    PROVE  Distinct(putEntry(q, e, size))
<1>1. CASE Len(q) = size
  <2>1. /\ EraseAt(q, Len(q)) \in Seq(S)
        /\ Distinct(EraseAt(q, Len(q)))
        /\ ~ containsEntry(EraseAt(q, Len(q)), e.seg)
    BY <1>1, EraseAtElements, EraseAtDistinct
  <2>2. putEntry(q, e, size) = <<e>> \o EraseAt(q, Len(q))
    BY <1>1 DEF putEntry
  <2> QED BY <2>1, <2>2, FrontDistinct
<1>2. CASE Len(q) # size
  BY <1>2, FrontDistinct DEF putEntry
<1> QED BY <1>1, <1>2

LEMMA invalidateEntryDistinct ==
    ASSUME NEW S, NEW q \in Seq(S), NEW n, Distinct(q)
    PROVE  Distinct(invalidateEntry(q, n))
BY FindEntryFinds, EraseAtDistinct DEF invalidateEntry

\* No operation makes up an entry: each one in the result was in the queue, or
\* is the one put there.
LEMMA EraseAtEntries ==
    ASSUME NEW S, NEW q \in Seq(S), NEW i \in 1 .. Len(q)
    PROVE  \A k \in DOMAIN EraseAt(q, i) : \E m \in DOMAIN q : EraseAt(q, i)[k] = q[m]
<1> DEFINE r == EraseAt(q, i)
<1>1. /\ r \in Seq(S) /\ Len(r) = Len(q) - 1
      /\ \A k \in 1 .. Len(q) - 1 : r[k] = IF k < i THEN q[k] ELSE q[k + 1]
  BY EraseAtElements
<1> HIDE DEF r
<1>2. DOMAIN r = 1 .. Len(q) - 1 /\ DOMAIN q = 1 .. Len(q) /\ Len(q) \in Nat
  BY <1>1
<1>3. ASSUME NEW k \in 1 .. Len(q) - 1 PROVE \E m \in 1 .. Len(q) : r[k] = q[m]
  <2>1. k \in 1 .. Len(q) /\ k + 1 \in 1 .. Len(q)
    BY <1>2
  <2> QED BY <1>1, <2>1
<1> QED BY <1>2, <1>3 DEF r

LEMMA FrontEntries ==
    ASSUME NEW S, NEW q \in Seq(S), NEW e \in S
    PROVE  \A k \in DOMAIN (<<e>> \o q) :
              (<<e>> \o q)[k] = e \/ \E m \in DOMAIN q : (<<e>> \o q)[k] = q[m]
<1> DEFINE r == <<e>> \o q
<1>1. /\ r \in Seq(S) /\ Len(r) = Len(q) + 1
      /\ \A k \in 1 .. Len(q) + 1 : r[k] = IF k = 1 THEN e ELSE q[k - 1]
  BY FrontElements
<1> HIDE DEF r
<1>2. DOMAIN r = 1 .. Len(q) + 1 /\ DOMAIN q = 1 .. Len(q) /\ Len(q) \in Nat
  BY <1>1
<1>3. ASSUME NEW k \in 1 .. Len(q) + 1, k # 1
      PROVE  \E m \in 1 .. Len(q) : r[k] = q[m]
  <2>1. k - 1 \in 1 .. Len(q) /\ r[k] = q[k - 1]
    BY <1>1, <1>2, <1>3
  <2> QED BY <2>1
<1> QED BY <1>1, <1>2, <1>3 DEF r

LEMMA getEntryEntries ==
    ASSUME NEW S, NEW q \in Seq(S), NEW n, containsEntry(q, n)
    PROVE  \A k \in DOMAIN getEntry(q, n) : \E m \in DOMAIN q : getEntry(q, n)[k] = q[m]
<1> DEFINE i == FindEntry(q, n)
<1>1. i \in 1 .. Len(q) /\ q[i] \in S /\ i \in DOMAIN q
  BY FindEntryFinds
<1> HIDE DEF i
<1>2. EraseAt(q, i) \in Seq(S)
  BY <1>1, EraseAtElements
<1> QED BY <1>1, <1>2, EraseAtEntries, FrontEntries DEF getEntry, i

LEMMA putEntryEntries ==
    ASSUME NEW S, NEW q \in Seq(S), NEW e \in S, NEW size \in Nat \ {0}
    PROVE  \A k \in DOMAIN putEntry(q, e, size) :
              \/ putEntry(q, e, size)[k] = e
              \/ \E m \in DOMAIN q : putEntry(q, e, size)[k] = q[m]
<1>1. CASE Len(q) = size
  <2>1. Len(q) \in 1 .. Len(q)
    BY <1>1
  <2>2. EraseAt(q, Len(q)) \in Seq(S)
    BY <2>1, EraseAtElements
  <2>3. putEntry(q, e, size) = <<e>> \o EraseAt(q, Len(q))
    BY <1>1 DEF putEntry
  <2> QED BY <2>1, <2>2, <2>3, EraseAtEntries, FrontEntries
<1>2. CASE Len(q) # size
  BY <1>2, FrontEntries DEF putEntry
<1> QED BY <1>1, <1>2

LEMMA invalidateEntryEntries ==
    ASSUME NEW S, NEW q \in Seq(S), NEW n
    PROVE  \A k \in DOMAIN invalidateEntry(q, n) :
              \E m \in DOMAIN q : invalidateEntry(q, n)[k] = q[m]
BY FindEntryFinds, EraseAtEntries DEF invalidateEntry
=============================================================================
